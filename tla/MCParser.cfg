SPECIFICATION Spec
CONSTANTS
    Names = {T}
    NoName = NoName
    Limits = {0, 2}
    MaxTokens = 8
INVARIANTS
    CountersMatchNesting
    TypedefScoping
    FunctionContext
PROPERTIES
    Terminates
CHECK_DEADLOCK FALSE
