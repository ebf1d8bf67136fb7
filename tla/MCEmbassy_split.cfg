CONSTANTS
    QUEUE_SIZE = 2
    MAX_SESSIONS = 1
    MAX_SUBSCRIBERS_PER_TOPIC = 2
    Slots = {1}
    MaxAccepted = 1
    ClientKinds <- Publishing
    MaxSent <- One
    Layout <- MCLayout
    RX_BUFFER_SIZE = 6
    TX_PACKETS = 2
    Faults = {"split"}
SPECIFICATION Spec
PROPERTY IncompleteIsContinued
CHECK_DEADLOCK FALSE
