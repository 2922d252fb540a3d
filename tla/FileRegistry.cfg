SPECIFICATION Spec
CONSTANTS
    p1 = p1  p2 = p2
    Processes = {p1, p2}
    Calls <- MCCalls
    Values = {1, 2}
    Defs = {1, 2}
    Pins = {1}
    Starts <- MCStarts
    HasTtl = TRUE
    Latest = Latest
    None = None
    NoFile = NoFile
INVARIANTS
    SequentialUse
    HistoryConsistent
PROPERTIES
    Converges
