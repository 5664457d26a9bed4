CONSTANTS
    Base = 8
    Components = 4
    Capacity = 2
    Numbers <- MCNumbers
    Varints <- MCVarints
SPECIFICATION Spec
INVARIANTS
    TypeOK
    ShortCodes
PROPERTY MovesForward
CHECK_DEADLOCK FALSE
