SPECIFICATION Spec
CONSTANTS
    MaxLen = 4
    UsedClasses = {"newline", "blank", "return", "colon", "hash", "digit", "sign", "dot", "exp", "letter"}
    Sources <- MCSources
INVARIANTS TypeOK LinesRight EachCharacterOnce NoTiedErrors
PROPERTIES Terminates
CHECK_DEADLOCK FALSE
