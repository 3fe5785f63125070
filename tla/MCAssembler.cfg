SPECIFICATION Spec
CONSTANTS
    G_INSTR_ARG_R_MAX = 4
    G_INSTR_ARG_A_MAX = 5
    G_INSTR_ARG_B_MAX = 5
    G_INSTR_ARG_C_MAX = 6
    ArgValues = 32
    Shortened <- MCShortened
    Sources <- MCSources
    RNames = {"R", "Rx"}
    G_OBJ_TABLE_INITIAL_SIZE = 3
    G_CODE_INITIAL_SIZE = 1
    OBJ_SIZE = 16
    BAD_IDX = BAD_IDX
    LogFiles = {"log.log"}
INVARIANTS TypeOK OperandsMeant LinesKept NothingSilent HeapClean OneVoice
PROPERTY RoundsMoveOn

