CONSTANTS
    publisher = publisher
    subscriber = subscriber
    QUEUE_SIZE = 1
    MAX_SESSIONS = 2
    MAX_SUBSCRIBERS_PER_TOPIC = 2
    Connections <- Two
    ClientKinds <- PublisherAndSubscriber
    MaxSent <- TwoAndOne
    NOTIFY_CAPACITY = 8
    FRAME_CAPACITY = 32
    Faults = {}
SPECIFICATION Spec
INVARIANT ConnectionsAreActive
CHECK_DEADLOCK FALSE
