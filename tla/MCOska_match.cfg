CONSTANTS
    S = 3
SPECIFICATION MatchSpec
INVARIANTS
    EndsAsDocumented
    HumanMovesComplete
    RandomMoveExact
PROPERTIES
    PlaysOska
