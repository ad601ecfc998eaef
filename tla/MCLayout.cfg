SPECIFICATION Spec
CONSTANTS
    Tags = {S}
    Scalars = {1, 4, 8}
    Widths = {0, 20}
    ArrayLen = 3
    MaxParts = 6
    MaxTypes = 2
    MaxDepth = 2
INVARIANTS
    
    MembersAligned
    ReferencesAreCompleted
PROPERTY
    LayoutIsFinal
CHECK_DEADLOCK FALSE
