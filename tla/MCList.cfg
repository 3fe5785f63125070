SPECIFICATION Spec
CONSTANTS
    MinCapacity = 2
    DEFAULT_CAPACITY = 3
    Caps <- MCCaps
    Vals <- MCVals
    InitLists <- MCInitLists
    JunkNodes <- MCJunkNodes
INVARIANTS
    TypeOK
    RingWellFormed
    FreeChain
    RefsKeepValues
PROPERTIES
    ImplementsRefList
