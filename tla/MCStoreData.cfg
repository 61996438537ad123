SPECIFICATION DataSpec
CONSTANTS
    MaxId = 3
    MaxToken = 5
    Dates = {2025, 2026}
    Times = {1, 2}
    Populations <- MCPopulations
    Files <- MCFiles
    Keys = {"goals", "errors"}
    LowerIsBetter = {"errors"}
    NoValue = NoValue
    Players = {1, 2}
    Squads <- MCSquads
    Definitions = {{"pace"}, {"pace", "vision"}}
    NoScore = NoScore
    NoDefinition = NoDefinition
    MaxVersion = 2
    Youngsters = {y}
    Clubs = {c}
    NoClub = NoClub
    BaselineYear = 2025
    MaxClass = 3
CHECK_DEADLOCK FALSE
INVARIANTS
    StoreIsConsistent
    ScoresAreOfTheDefinition
PROPERTIES
    ActsOnWhatWasAsked
    ImportsAreWhole
    AcademyFollowsSnapshots
