CONSTANTS
    QUEUE_SIZE = 2
    MAX_SESSIONS = 2
    MAX_SUBSCRIBERS_PER_TOPIC = 2
    Slots = {1, 2}
    MaxAccepted = 3
    ClientKinds <- PublisherFirst
    MaxSent <- ThreeThenOne
    Layout <- MCLayout
    RX_BUFFER_SIZE = 6
    TX_PACKETS = 2
    Faults = {"close", "timeout", "expire"}
SPECIFICATION Spec
INVARIANTS
    TypeOK
    RegistrationSucceeds
    WakeUpNotLost
    NoGaps
CHECK_DEADLOCK FALSE
