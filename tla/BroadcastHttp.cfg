CONSTANTS
    SignupFragment = 0
    SyncFragment = 4
    LastFragment = 6
    KeyframeInterval = 2
    MAX_DELTAFRAME_RETRIES = 5
SPECIFICATION FairSpec
INVARIANTS
    TypeOK
    GivesUpPatiently
PROPERTIES
    RetriesPaced
    ImplementsPacketStream
    KeepsUp
    BroadcastEnds
