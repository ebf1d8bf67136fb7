CONSTANTS
    publisher = publisher
    subscriber = subscriber
    QUEUE_SIZE = 2
    MAX_SESSIONS = 2
    MAX_SUBSCRIBERS_PER_TOPIC = 2
    Connections <- Two
    ClientKinds <- PublisherAndSubscriber
    MaxSent <- TwoAndOne
    NOTIFY_CAPACITY = 1
    FRAME_CAPACITY = 2
    Faults = {"close", "stall", "timeout", "expire"}
SPECIFICATION Spec
INVARIANTS
    TypeOK
    WakeUpNotLost
    InOrderToClient
    CleanedUp
CHECK_DEADLOCK FALSE
