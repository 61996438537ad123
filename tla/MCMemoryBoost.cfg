SPECIFICATION FairSpec
CONSTANTS
    N = 3
    Values = {1, 2, 3}
    Torn = {9}
    NoValue = NoValue
    Targets <- MCTargets
INVARIANTS
    AnswersAreTrue
PROPERTIES
    EveryBoostEnds
