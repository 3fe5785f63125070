SPECIFICATION Spec
CONSTANTS
    Vals = {0, 1}
    Objects <- MCObjects
    Sizes = {2}
    OBJ_SIZE = 16
    BAD_IDX = BAD_IDX
INVARIANTS IndicesStayGood
