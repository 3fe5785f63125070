SPECIFICATION Spec
CONSTANTS
    Chars <- MCChars
    Fns = {"f", "g", "plain"}
    Plain = {"plain"}
    Name <- MCName
    Bodies <- MCBodies
    msg_sz = 4
    Nul = "nul"
    MaxDepth = 3
    MaxLines = 6
INVARIANTS
    CallTree
    MessageWhole
CHECK_DEADLOCK FALSE
