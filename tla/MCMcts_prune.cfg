CONSTANTS
    Positions <- MCPositions
    Starts <- MCStarts
    legal <- MClegal
    play <- MCplay
    outcome <- MCoutcome
    justMoved <- MCjustMoved
    depth <- MCdepth
    Self <- MCSelf
    MaxIterations = 3
    Playouts = 1
    Upkeep = {"prune", "reset"}
SPECIFICATION Spec
INVARIANTS
    TypeOK
    TableExact
    InSync
    RootIsState
    ChildrenVisited
    PathFromRoot
    BestMoveLegal
    PlayoutCounts
PROPERTIES
    ComputeReturns
    PlaysLegally
