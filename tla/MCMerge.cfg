CONSTANTS
    Positions <- MCPositions
    Starts <- MCStarts
    legal <- MClegal
    play <- MCplay
    outcome <- MCoutcome
    justMoved <- MCjustMoved
    depth <- MCdepth
    MaxIterations = 8
SPECIFICATION Spec
CHECK_DEADLOCK FALSE
INVARIANTS
    ParentExists
    MergedExact
PROPERTIES
    MergeReturns
