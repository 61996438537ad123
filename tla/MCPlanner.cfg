SPECIFICATION Spec
CONSTANTS
    senior = senior
    reserves = reserves
    wing = wing
    centre = centre
    Teams = {senior, reserves}
    Order <- MCOrder
    OldestIn <- MCOldestIn
    Lanes = {wing, centre}
    People = {1, 2}
    Squads <- MCSquads
    Away = Away
    NoAge = NoAge
    Tables <- MCTables
    NoScore = NoScore
    NoLimit = NoLimit
    NoSnapshot = NoSnapshot
    NoTactic = NoTactic
    NoTx = NoTx
    Nowhere = Nowhere
    MaxString = 3
    MaxPerTeam = 2
    MaxChanges = 4
CHECK_DEADLOCK FALSE
INVARIANTS
    ChartIsConsistent
    PlanIsBest
PROPERTIES
    NothingIsLost
    ImplementsChart
