SPECIFICATION Spec
CONSTANTS
    CHAR_BITS = 3
    INT_BITS = 4
    LONG_BITS = 6
    CONST_PROP_MAX = 2
    Leaves <- MCLeaves
    Ops <- MCOps
    Consts <- MCConsts
    Envs <- MCEnvs
    MAX_GROWTH = 2
    Simple <- MCSimple
    Opens <- MCOpens
    Prologues <- MCPrologues
    MAX_STMTS = 3
    FUEL = 14
INVARIANT SameValue
INVARIANT SameBehaviour
CHECK_DEADLOCK FALSE
