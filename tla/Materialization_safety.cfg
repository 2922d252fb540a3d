SPECIFICATION Spec
CONSTANTS
    v1 = v1  v2 = v2
    Views = {v1}
    ViewLists <- MCOneView
    Workers = {w1, w2}
    Backends = {"file", "sql"}
    Modes = {"sync", "async", "force"}
    Starts = {0}
    NoTtl = {}
    UserStates = {"CREATED", "GENERATED"}
    Engines = {"batch", "detached"}
    OneServer = TRUE
    MayCrash = TRUE
    MaxTime = 2
    MaxCalls <- MCCalls
    MaxFailures = 1
    User = User  Nobody = Nobody
SYMMETRY Symmetry
INVARIANTS
    WatermarkCovered
    AvailableHasData
CHECK_DEADLOCK FALSE
