SPECIFICATION Spec
CONSTANTS
    Clients = {c1, c2}
    Schemas = {s1, s2}
    Metas = {m1}
    PinVersions = {0, 1}
    NoPromotes = {FALSE}
    Deletes = {"view", "project"}
    MayCrash = TRUE
    MaxRetries = 2
    MaxOps = 4
    MaxVersion = 4
    NoRow = NoRow
SYMMETRY Symmetry
INVARIANTS
    RetriesSuffice
    TypeOK
    PinnedIsSnapshot
    ContiguousVersions
PROPERTIES
    HistoryAppendOnly
CHECK_DEADLOCK FALSE
