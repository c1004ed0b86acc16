CONSTANTS
    S = 4
SPECIFICATION MatchSpec
INVARIANTS
    EveryMatchHasAWinner
