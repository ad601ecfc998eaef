SPECIFICATION Spec
CONSTANTS
    Names = {x}
    TypeKinds = {INT, PTR}
    MaxParams = 1
    MaxDecls = 4
INVARIANTS
    OneMeaning
    OneBody
    CallsMatchPrototypes
CHECK_DEADLOCK FALSE
