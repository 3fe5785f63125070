SPECIFICATION FSpec
CONSTANTS
    Junk = 77
    Poison = 85
    ThisAddr = 20
    Addrs <- MCAddrs
    Sizes <- MCSizes
    ElemSizes <- MCElemSizes
    Bytes <- MCBytes
    Printer = 50
    MaxElems = 3
    FaultBytes <- MCFaultBytes
    FaultWords <- MCFaultWords
    MaxFaults = 1
INVARIANTS
    WriteNoticed
    TopTruthful
PROPERTIES
    NoLaundering
\* A crashed process is over.
CHECK_DEADLOCK FALSE
