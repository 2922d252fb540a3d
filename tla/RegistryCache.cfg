SPECIFICATION FairSpec
CONSTANTS
    r1 = r1  r2 = r2  w1 = w1
    Readers = {r1, r2}
    Writers = {w1}
    Timer = timer
    Server = server
    Crews <- MCCrews
    MaxFails = 1
    Free = Free
    None = None
INVARIANTS
    OneExpiryRefresh
    EntryOfItsProto
    SyncImmediate
PROPERTIES
    Converges
    VectorStoresFollow
    ServerTimersEnd
CHECK_DEADLOCK FALSE
