SPECIFICATION MCSpec
CONSTANTS
    r1 = r1
    Uids = {u1}
    Roots = {r1, r2}
    Sizes = {1, 2}
    Lookups = {l1, l2}
    Nothing = Nothing
    NoRoot = NoRoot
    NoTarget = NoTarget
    CacheLimit = 1
    ByteLimit = 1
    MaxGeneration = 2
    MaxChanges = 1
    MaxRestarts = 1
CHECK_DEADLOCK FALSE
INVARIANTS
    PicturesAreOfTheFolder
    StatusIsTrue
PROPERTIES
    ImplementsChoice
    EveryRebuildEnds
