SPECIFICATION FairSpec
CONSTANTS
    s1 = s1  s2 = s2
    Services = {s1, s2}
    Setups <- MCSetups
    Capacity = 2
    RecordSize = 2
    Dirs = {d1, d2, d3, d4}
    NoDir = NoDir
INVARIANTS
    Conserved
    StopWritesBuffer
PROPERTIES
    EventuallyStored
    StopReturns
CHECK_DEADLOCK FALSE
