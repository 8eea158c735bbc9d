\* One directive out of six, of two or three commands, two changes by others, one failed call.
CONSTANTS
    None = None
    NoSecret = NoSecret
    Gone = Gone
    k1 = k1
    k2 = k2
    v1 = v1
    v2 = v2
    Key = {k1, k2}
    Value = {v1, v2}
    Directives <- MCDirectives
    MaxDirectives = 1
    MaxChanges = 2
    MaxFaults = 1
SPECIFICATION Spec
INVARIANTS
    TypeOK
PROPERTIES
    SecretDone
    OthersKeysSurvive
    Undisturbed
    RolloutDone
    Answered
\* After its directives and the changes the bounds allow, nothing is left to do.
CHECK_DEADLOCK FALSE
