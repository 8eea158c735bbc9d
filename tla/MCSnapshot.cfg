\* A full cluster at first, two changes, one failed call or crash.
CONSTANTS
    None = None
    EnvClusterID = None
    Objects <- MCObjects
    NAMESPACES_TO_WATCH <- TwoNamespaces
    InitialWorlds <- MCInitialWorlds
    MaxChanges = 2
    MaxFaults = 1
SPECIFICATION Spec
INVARIANTS
    TypeOK
    NothingUnwanted
PROPERTIES
    ReportFollows
