CONSTANTS
    SignupFragment = 0
    SyncFragment = 4
    LastFragment = 6
    KeyframeInterval = 2
    MAX_DELTAFRAME_RETRIES = 5
SPECIFICATION Spec
INVARIANT RecordedAsDocumented
