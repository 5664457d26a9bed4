CONSTANTS
    Signup = 0
    First = 4
    Packets <- MCPackets
    Buffers <- MCBuffers
    Targets <- MCTargets
SPECIFICATION Spec
INVARIANT TotalTicksIsLast
CHECK_DEADLOCK FALSE
