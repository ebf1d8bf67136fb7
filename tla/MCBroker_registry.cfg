SPECIFICATION Spec
CONSTANTS
    s1 = s1
    s2 = s2
    SessionIds = {s1, s2}
    Topics <- OneTopic
    Filters <- ThreeFilters
    TopicMatches <- MCTopicMatches
    KeepAlives = {0}
    Times = {0}
    QoSLevels = {0, 1}
    ClientKinds <- PubSubAndSub
    ClientFilters <- TwoEach
    QUEUE_SIZE = 1
    MAX_SESSIONS = 2
    MAX_TOPICS = 2
    MAX_SUBSCRIBERS_PER_TOPIC = 2
    MaxPublish = 1
CHECK_DEADLOCK FALSE
INVARIANTS
    TypeOK
    SubscribersAreSessions
    NeverSessionNotFound
    RegistriesConsistent
    NoSubscriberDropped
PROPERTIES
    PubackMeansDelivered
