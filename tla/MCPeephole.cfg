SPECIFICATION Spec
CONSTANTS
    Code <- MCCode
    MAX_LINES = 4
    Regs = {"a", "b"}
    Words = {4, 8}
    LongLabels = {"LL"}
    Cut <- MCCut
INVARIANTS
    SameMeaning
PROPERTIES
    Terminates
CHECK_DEADLOCK FALSE
