SPECIFICATION RoundSpec
CONSTANTS
    s1 = s1
    s2 = s2
    SessionIds = {s1, s2}
    Topics <- OneTopic
    Filters <- OneTopic
    TopicMatches <- MCTopicMatches
    KeepAlives = {0}
    Times = {0}
    QoSLevels = {0, 1}
    ClientKinds <- RoundKinds
    ClientFilters <- AnyFilter
    QUEUE_SIZE = 2
    MAX_SESSIONS = 2
    MAX_TOPICS = 1
    MAX_SUBSCRIBERS_PER_TOPIC = 1
    MaxPublish = 2
CHECK_DEADLOCK FALSE
INVARIANT InOrderOnce
PROPERTIES
    ImplementsAtomicBroker
    OkMeansDrained
    ProcessingEnds
