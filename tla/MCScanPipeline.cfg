SPECIFICATION FairSpec
CONSTANTS
    Header = 2
    Block = 4
    MaxMoves = 1
    MaxLost = 1
    Nowhere = Nowhere
    Regions <- MCRegions
    Heaps <- MCHeaps
INVARIANTS
    ScanIsComplete
    DumpIsAccepted
PROPERTIES
    EveryScanEnds
