\* Tokens and emissary come and go, a read fails, two directives of two sorts.
CONSTANTS
    k1 = k1
    k2 = k2
    id1 = id1
    id2 = id2
    s1 = s1
    s2 = s2
    c1 = c1
    c2 = c2
    NoKey = NoKey
    None = None
    DefaultMinReportPeriod = 1
    AGENT_REPORTING_PERIOD = 2
    LongestDuration = 7
    Key = {k1, k2}
    EnvKey = NoKey
    Identity = {id1}
    Directive <- MixedDirectives
    DiagnosticsAllowed = TRUE
    Slot = {s1, s2}
    CommId = {c1, c2}
    MaxChanges = 1
    MaxDirectives = 2
    MaxGetErrors = 1
SPECIFICATION SafetySpec
INVARIANTS
    TypeOK
    CommMatchesKey
    NoLeakedConnection
    RestsLongEnough
    SingleFlight
PROPERTY
    StopObeyed
SYMMETRY Names
