SPECIFICATION Spec
CONSTANTS
    Clients = {c1}
    Schemas = {s1, s2}
    Metas = {m1, m2}
    PinVersions = {0, 1, 2}
    NoPromotes = {FALSE, TRUE}
    Deletes = {"view"}
    MayCrash = FALSE
    MaxRetries = 3
    MaxOps = 5
    MaxVersion = 6
    NoRow = NoRow
INVARIANTS
    ActiveIsRecorded
    NoOrphanVersions
    NumberIsOfSchema
CHECK_DEADLOCK FALSE
