CONSTANTS
    S = 3
SPECIFICATION MatchSpec
INVARIANTS
    HumanJumpsForwards
