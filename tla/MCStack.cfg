SPECIFICATION Spec
CONSTANTS
    Junk = 77
    Poison = 85
    ThisAddr = 20
    Addrs <- MCAddrs
    Sizes <- MCSizes
    ElemSizes <- MCElemSizes
    Bytes <- MCBytes
    Printer = 50
    MaxElems = 3
INVARIANTS
    TypeOK
    NoFalseAlarm
    RoomForElements
    TailPoisoned
    NoLeak
PROPERTIES
    ImplementsLifo
