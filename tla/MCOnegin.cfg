SPECIFICATION Spec
CONSTANTS
    Texts <- MCTexts
    Slacks <- MCSlacks
    Orders <- MCOrders
    Junk = Junk
    Length = 5
    ManyLines = {4, 14}
INVARIANTS
    TypeOK
    EveryLineOnce
    OriginalKept
    InsideBlock
    VersesWhole
    LinesAscend
PROPERTIES
    Terminates
CHECK_DEADLOCK FALSE
