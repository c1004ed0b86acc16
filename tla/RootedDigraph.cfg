CONSTANTS
    MaxNodes = 4
    MaxArcs = 5
SPECIFICATION Spec
INVARIANTS
    ListsExact
    SliceExact
PROPERTIES
    SliceReturns
