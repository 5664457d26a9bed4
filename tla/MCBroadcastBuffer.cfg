CONSTANTS
    Signup = 0
    First = 4
    Packets <- MCPackets
    Buffers <- MCBuffers
    Targets <- MCTargets
SPECIFICATION Spec
INVARIANTS
    TypeOK
    ReadsInOrder
    BuffersAll
    NeverBackwards
CHECK_DEADLOCK FALSE
