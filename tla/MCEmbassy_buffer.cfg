CONSTANTS
    QUEUE_SIZE = 2
    MAX_SESSIONS = 1
    MAX_SUBSCRIBERS_PER_TOPIC = 2
    Slots = {1}
    MaxAccepted = 2
    ClientKinds <- AllPackets
    MaxSent <- Three
    Layout <- MCLayout
    RX_BUFFER_SIZE = 6
    TX_PACKETS = 2
    Faults = {"split", "close", "stall", "timeout"}
SPECIFICATION FairSpec
INVARIANT RoomInSelect
PROPERTY ClosedFreesSlot
CHECK_DEADLOCK FALSE
