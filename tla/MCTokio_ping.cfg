CONSTANTS
    publisher = publisher
    subscriber = subscriber
    QUEUE_SIZE = 2
    MAX_SESSIONS = 2
    MAX_SUBSCRIBERS_PER_TOPIC = 2
    Connections <- JustOne
    ClientKinds <- Pinging
    MaxSent <- Nine
    NOTIFY_CAPACITY = 8
    FRAME_CAPACITY = 32
    Faults = {}
SPECIFICATION FairSpec
PROPERTY PingsAnswered
CHECK_DEADLOCK FALSE
