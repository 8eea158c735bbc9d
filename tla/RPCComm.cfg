\* Four directives, two in flight; any breaks, wake-ups and closes; one report call at
\* a time, of two chunks or three.
CONSTANTS
    None = None
    Call = {"Report"}
    Size = {4, 5}
    CHUNKSIZE = 2
    MaxSent = 4
    MaxInFlight = 2
SPECIFICATION Spec
INVARIANTS
    TypeOK
    NothingLost
PROPERTIES
    CloseEndsRetriever
    ReportRestartsRetrieve
    ImplementsChannel
