SPECIFICATION Spec
CONSTANTS
    Names = {}
    Labels = {}
    MaxStmts = 4
    MaxCases = 1
    MaxLeak = 2
INVARIANT
    CallsAligned
CHECK_DEADLOCK FALSE
