SPECIFICATION Spec
CONSTANTS
    Names = {x}
    Labels = {L}
    MaxStmts = 4
    MaxCases = 2
    MaxLeak = 2
INVARIANTS
    StacksMatchNesting
    VarScoping
    JumpsResolved
    RspAsAssumed
    StaysInFunction
CHECK_DEADLOCK FALSE
