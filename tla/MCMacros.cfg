SPECIFICATION Spec
CONSTANTS
    Definitions <- MCDefinitions
    Lines <- MCLines
    Conditions <- MCConditions
    Words = {"A", "A1", "B", "f", "g", "defined"}
    Numbers = {"1", "2"}
    Spelled <- MCSpelled
    MaxLines = 4
    MaxCalls = 10
    MaxRewrites = 12
INVARIANTS
    DisabledMatchesCalls
PROPERTIES
    ExpandsLikeRewriting
    Terminates
CHECK_DEADLOCK FALSE
