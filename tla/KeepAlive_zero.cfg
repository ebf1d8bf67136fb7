SPECIFICATION Spec
CONSTANTS
    DEFAULT_KEEP_ALIVE = 2
    CLEANUP_INTERVAL = 2
    QUEUE_SIZE = 1
    KeepAlives = {0, 1}
    MaxTime = 6
    MaxUnread = 1
CHECK_DEADLOCK FALSE
PROPERTY
    KeepAliveZeroDisables
