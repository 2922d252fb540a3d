SPECIFICATION FairSpec
CONSTANTS
    v1 = v1  v2 = v2
    Views = {v1, v2}
    ViewLists <- MCTwoViews
    Workers = {w1, w2}
    Backends = {"file"}
    Engines = {"batch", "single"}
    Modes = {"async"}
    Starts = {0}
    NoTtl = {v2}
    UserStates = {}
    OneServer = TRUE
    MayCrash = FALSE
    MaxTime = 1
    MaxCalls <- MCThreeCalls
    MaxFailures = 1
    User = User  Nobody = Nobody
CONSTRAINT NoRace
INVARIANTS
    ExclusiveWhileNothingFails
    RecordedIsWritten
    MaterializingIsOwned
PROPERTIES
    EventuallyReleased
CHECK_DEADLOCK FALSE
