CONSTANTS
    Signup = 0
    First = 4
    Packets <- MCPackets
    Buffers <- MCBuffers
    Targets <- MCTargets
SPECIFICATION Spec
INVARIANT ContinuesWhereItStopped
CHECK_DEADLOCK FALSE
