SPECIFICATION Spec
CONSTANTS
    Objects = {o1, o2, o3}
    Move = {a, b, c}
    NoMove = NoMove
    Capacity = 3
    MinAlloc = 2
SYMMETRY Symmetry
CHECK_DEADLOCK FALSE
INVARIANT TypeOK
INVARIANT SoleOwner
INVARIANT FreeListExact
INVARIANT MovesIntact
INVARIANT MemoryBounded
PROPERTY ImplementsSets
