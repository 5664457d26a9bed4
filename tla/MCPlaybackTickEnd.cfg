CONSTANTS
    e1 = e1
    e2 = e2
    t1 = t1
    t2 = t2
    v1 = v1
    v2 = v2
    None = None
    Keep = Keep
    Entity <- MCEntity
    Table <- MCTable
    Value <- MCValue
    Demos <- MCDemos
    Targets <- MCTargets
    DefaultFullPacketInterval = 1
    DefaultTicksPerSecond = 30
    Slack = 1
SPECIFICATION Spec
PROPERTY FullPacketEndsNewTick
CHECK_DEADLOCK FALSE
