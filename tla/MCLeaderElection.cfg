\* Two replicas, one crash or termination.
CONSTANTS
    None = None
    r1 = r1
    r2 = r2
    Replica = {r1, r2}
    RetryPeriod = 1
    RenewDeadline = 2
    MaxLatency = 1
    LeaseDuration = 5
    MaxFaults = 1
SPECIFICATION Spec
INVARIANTS
    TypeOK
    UnderLease
PROPERTIES
    SomeoneWatches
    StoppingStops
