CONSTANTS
    me = me
    subscriber = subscriber
    third = third
    QUEUE_SIZE = 2
    MAX_SESSIONS = 2
    MAX_SUBSCRIBERS_PER_TOPIC = 2
    Connections <- Three
    ClientKinds <- Subscribing
    MaxSent <- OnlyTheSubscriber
    NOTIFY_CAPACITY = 8
    FRAME_CAPACITY = 32
    Faults = {}
SPECIFICATION SystemSpec
PROPERTIES
    PublishedIsReceived
    ClientEndsWell
    QueuedIsDelivered
    TurnedAwayOnlyWhenFull
CHECK_DEADLOCK FALSE
