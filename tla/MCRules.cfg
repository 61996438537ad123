SPECIFICATION RulesSpec
CONSTANTS
    NoScore = NoScore
    Vacant = Vacant
    Nothing = Nothing
    NoValue = NoValue
    NoFit = NoFit
    GeneralRequirements <- MCRequirements
    Staffs <- MCStaffs
    Wanteds <- MCWanteds
    Questions <- MCQuestions
    Worlds <- MCWorlds
    Requests <- MCRequests
    Players <- MCPlayers
    MaxPage = 2
    MaxAge = 29
    Uids = {4, 7, 9}
    CacheLimit = 2
    ByteLimit = 3
    ImageSizes = {1, 2, 4}
    Unknown = Unknown
    Games <- MCGames
    MaxTeams = 2
    MaxSquad = 2
    Shapes <- MCShapes
    NoSave = NoSave
    Saves = {a, b}
    MaxToken = 3
    Null = Null
    Releases = {2, 6, 10, 11, 13, 17, 18, 24, 28, 35, 36, 42, 46}
    Usages <- MCUsages
    MaxChanges = 3
    Addresses <- MCAddresses
    Edited <- MCEdited
    TypedIn <- MCTypedIn
    People <- MCPeople
    Missing = Missing
    MaxRules = 2
    MaxEdits = 5
CHECK_DEADLOCK FALSE
INVARIANTS
    AnswerIsBest
    StaffAreWellPlaced
    SearchIsTrue
    RulesAreTrue
    SquadsAreSettled
    ResultsAreOfTheContext
    FieldsAreAgreed
    EveryDatabaseOpens
PROPERTIES
    CacheKeepsItsBooks
