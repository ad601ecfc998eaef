SPECIFICATION Spec_Include
CONSTANTS
    MAX_COND_DEPTH = 2
    MAX_ARMS = 3
    Names = {N1}
    MAX_INCLUDE_DEPTH = 2
    MAX_LINES = 5
    MAX_MARKER = 3
    PREAMBLE_LINES = 5
    include_dirs <- Dirs
    MainFile <- Main
    Headers <- Names_h
    Readable <- Files
    LineNumbers = {9}
    LineFiles <- Given
INVARIANTS
    TypeOK
    EmittingCorrect
    LocationsTrue
PROPERTIES
    EvaluatedOnlyIfNeeded
    NestImplementsCondSpec
    InclusionBounded
CHECK_DEADLOCK FALSE
