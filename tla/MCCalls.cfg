SPECIFICATION Spec_Calls
CONSTANTS
    NGP = 2
    NXMM = 1
    OuterCalls <- MCOuter
    InnerCalls <- MCInner
    MaxCalls = 3
INVARIANTS
    DepthIsTrue
    CallsAligned
    CallerMeetsCallee
    SpillsIntact
    VaArgsArrive
CHECK_DEADLOCK FALSE
