SPECIFICATION Spec
CONSTANTS
    MAX_TOPIC_NAME_LENGTH = 4
    MAX_PAYLOAD_SIZE = 130
    MAX_CLIENT_ID_LENGTH = 3
    OverflowChecks = TRUE
    Frames <- MCFrames
INVARIANTS
    RelayIntact
    WrittenBackUnchanged
    PanicsOnlyOnUnderflow
    OnlyLongestDropped
    LengthFieldSizeIrrelevant
CHECK_DEADLOCK FALSE
