CONSTANTS
    publisher = publisher
    subscriber = subscriber
    QUEUE_SIZE = 1
    MAX_SESSIONS = 2
    MAX_SUBSCRIBERS_PER_TOPIC = 2
    Connections <- Two
    ClientKinds <- TwoSubscribers
    MaxSent <- TwoAndOne
    NOTIFY_CAPACITY = 8
    FRAME_CAPACITY = 32
    Faults = {}
SPECIFICATION FairSpec
PROPERTY QueuedIsDelivered
CHECK_DEADLOCK FALSE
