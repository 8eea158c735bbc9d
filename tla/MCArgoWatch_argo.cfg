\* Definitions, objects and watches come and go; three changes replace an object.
CONSTANTS
    o1 = o1
    None = None
    Name = {o1}
    Populated = {"rollouts"}
    MaxChanges = 3
    MaxFaults = 1
    MaxWatches = 2
SPECIFICATION SafetySpec
INVARIANTS
    TypeOK
    NoSendOnClosed
    OneWatch
    StoreReplays
\* argoWatch may return, and then everything stops.
CHECK_DEADLOCK FALSE
