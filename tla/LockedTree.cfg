CONSTANTS
    Threads = {p1, p2}
    MaxNodes = 3
    MaxArcs = 4
    MaxCalls = 4
SPECIFICATION Spec
CHECK_DEADLOCK FALSE
INVARIANTS
    NoArcLost
    WholeArcs
    LoopsExact
PROPERTIES
    CallsReturn
