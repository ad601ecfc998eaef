SPECIFICATION Spec
CONSTANTS
    Sources <- MCSources
    OutPath <- MCOutPath
    MaxErrorsOpts = {0, 1, 2}
    OptLevels = {0, 1, 2}
    ErrorBound = 3
INVARIANTS
    SuccessMeansOutput
    NoStaleJump
PROPERTIES
    NoCodeFromBadSource
    Terminates
CHECK_DEADLOCK FALSE
