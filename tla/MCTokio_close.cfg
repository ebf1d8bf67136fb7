CONSTANTS
    publisher = publisher
    subscriber = subscriber
    QUEUE_SIZE = 2
    MAX_SESSIONS = 2
    MAX_SUBSCRIBERS_PER_TOPIC = 2
    Connections <- Two
    ClientKinds <- PublisherAndSubscriber
    MaxSent <- TwoAndOne
    NOTIFY_CAPACITY = 2
    FRAME_CAPACITY = 32
    Faults = {"close"}
SPECIFICATION Spec
INVARIANT CleanupNotBlocked
CHECK_DEADLOCK FALSE
