SPECIFICATION FSpec
CONSTANTS
    Junk = 77
    Poison = 85
    ThisAddr = 20
    Addrs <- MCAddrs
    Sizes <- MCSizes
    ElemSizes <- MCElemSizes
    Bytes <- MCBytes
    Printer = 50
    MaxElems = 3
    FaultBytes <- MCFaultBytes
    FaultWords <- MCFaultWords
    MaxFaults = 1
INVARIANTS
    DamageReported
CHECK_DEADLOCK FALSE
