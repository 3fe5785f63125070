SPECIFICATION SpecWithin
CONSTANTS
    Vals = {0, 1}
    Objects <- MCObjects
    Sizes = {1, 2, 3}
    OBJ_SIZE = 16
    BAD_IDX = BAD_IDX
INVARIANTS TypeOK IndicesStayGood StoredOnce NoFalseErrors
PROPERTIES ImplementsConstTable
