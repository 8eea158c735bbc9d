\* Every watch is started by a fair discovery and followed to its end.
CONSTANTS
    o1 = o1
    None = None
    Name = {o1}
    Populated = {"rollouts"}
    MaxChanges = 2
    MaxFaults = 1
    MaxWatches = 1
SPECIFICATION Spec
PROPERTIES
    ConsumersEnd
    StoreFollows
\* argoWatch may return, and then everything stops.
CHECK_DEADLOCK FALSE
