SPECIFICATION Spec
CONSTANTS
    Clients = {c1, c2}
    Collections = {k1, Default}
    Displays = {d1}
    Labels = {l1}
    Props = {p1}
    Kinds = {"table"}
    Default = Default
    MaxAttempts = 2
    MaxRequests = 3
    MayCrash = TRUE
    NoRow = NoRow
    Absent = Absent
    Nobody = Nobody
SYMMETRY Symmetry
INVARIANTS
    CreatedOnce
PROPERTIES
    ImplementsAtomicCatalog
    ConflictMeansContention
    LabelGone

CHECK_DEADLOCK FALSE
