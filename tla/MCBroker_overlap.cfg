SPECIFICATION Spec
CONSTANTS
    s1 = s1
    s2 = s2
    SessionIds = {s1, s2}
    Topics <- OneTopic
    Filters <- TwoFilters
    TopicMatches <- MCTopicMatches
    KeepAlives = {0}
    Times = {0}
    QoSLevels = {0}
    ClientKinds <- PubAndSub
    ClientFilters <- AnyFilter
    QUEUE_SIZE = 2
    MAX_SESSIONS = 2
    MAX_TOPICS = 2
    MAX_SUBSCRIBERS_PER_TOPIC = 2
    MaxPublish = 2
CHECK_DEADLOCK FALSE
INVARIANT InOrderOnce
