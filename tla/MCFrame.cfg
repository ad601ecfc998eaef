SPECIFICATION Spec
CONSTANTS
    ParamTypes <- MCParams
    MemParamTypes <- MCMemParams
    LocalTypes <- MCLocals
    LiteralTypes <- MCLiterals
    CallSizes <- MCCalls
    MaxNodes <- MCMaxNodes
INVARIANTS
    SlotsDisjoint
    FitsWhenAligned
CHECK_DEADLOCK FALSE
