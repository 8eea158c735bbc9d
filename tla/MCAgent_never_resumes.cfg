\* An order to stop, and then a directive that does not order it.
CONSTANTS
    k1 = k1
    k2 = k2
    id1 = id1
    id2 = id2
    s1 = s1
    s2 = s2
    c1 = c1
    c2 = c2
    NoKey = NoKey
    None = None
    DefaultMinReportPeriod = 1
    AGENT_REPORTING_PERIOD = 2
    LongestDuration = 7
    Key = {k1}
    EnvKey = NoKey
    Identity = {id1}
    Directive <- StopAndGo
    DiagnosticsAllowed = FALSE
    Slot = {s1}
    CommId = {c1, c2}
    MaxChanges = 0
    MaxDirectives = 2
    MaxGetErrors = 0
SPECIFICATION SafetySpec
INVARIANT
    StoppedIsTold
SYMMETRY Names
