SPECIFICATION Spec
CONSTANTS
    p1 = p1  p2 = p2
    Processes = {p1}
    Calls <- MCApply
    Values = {1, 2}
    Defs = {1, 2}
    Pins = {1}
    Starts <- MCStart
    HasTtl = TRUE
    Latest = Latest
    None = None
    NoFile = NoFile
INVARIANT
    StagedIsCommitted
