SPECIFICATION FairSpec
CONSTANTS
    v1 = v1  v2 = v2
    Views = {v1}
    ViewLists <- MCOneView
    Workers = {w1, w2}
    Backends = {"sql"}
    Engines = {"single"}
    Modes = {"async"}
    Starts = {0}
    NoTtl = {}
    UserStates = {}
    OneServer = TRUE
    MayCrash = FALSE
    MaxTime = 1
    MaxCalls <- MCThreeCalls
    MaxFailures = 1
    User = User  Nobody = Nobody
PROPERTIES
    EventuallyReleased
CHECK_DEADLOCK FALSE
