SPECIFICATION SpecOverfull
CONSTANTS
    MinCapacity = 3
    DEFAULT_CAPACITY = 4
    Caps <- MCCaps
    Vals <- MCVals
    InitLists <- MCInitLists
    JunkNodes <- MCJunkNodes
INVARIANTS
    RefsKeepValues
