CONSTANTS
    NumRows = 4
    NumCols = 4
SPECIFICATION Spec
INVARIANTS
    WinnerHasLine
    HashOfBoard
    PiecesStacked
