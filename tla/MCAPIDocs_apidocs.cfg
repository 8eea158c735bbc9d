\* Two mappings, two scrapes that may overlap, any initial cluster and one change.
CONSTANTS
    None = None
    NoServers = NoServers
    m1 = m1
    m2 = m2
    s1 = s1
    s2 = s2
    Mapping = {m1, m2}
    Scrape = {s1, s2}
    Namespace <- MCNamespace
    Specs <- MCSpecs
    Segment <- MCSegment
    Backends <- MCBackends
    Documents <- MCDocuments
    MaxChanges = 1
SPECIFICATION Spec
INVARIANTS
    TypeOK
    OwnDocument
PROPERTIES
    DropsOnlyOld
    DocsArrive
    DocsLeave
\* Without a mapping and with an empty store nothing happens any more.
CHECK_DEADLOCK FALSE
