CONSTANTS
    Positions <- MCDiamond
    Starts <- MCDiamondStarts
    legal <- MCDiamondLegal
    play <- MCDiamondPlay
    outcome <- MCDiamondOutcome
    justMoved <- MCDiamondJustMoved
    depth <- MCDiamondDepth
    Self <- MCSelf
    MaxIterations = 10
    Playouts = 3
    Upkeep = {"prune"}
SPECIFICATION Spec
INVARIANTS
    IInv
    ArcsFollowGame
    MoveAccounting
PROPERTIES
    PruneExact
