CONSTANTS
    S = 3
SPECIFICATION SearchSpec
INVARIANTS
    ViewsAgree
    HashOfBoard
PROPERTIES
    MovesBringEndNearer
