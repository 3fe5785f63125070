SPECIFICATION SpecErasing
CONSTANTS
    MinCapacity = 3
    DEFAULT_CAPACITY = 3
    Caps <- MCCaps
    Vals <- MCVals
    InitLists <- MCInitLists
    JunkNodes <- MCJunkNodes
INVARIANTS
    FreeChain
