SPECIFICATION Spec
CONSTANTS
    BASE = 2
    Lengths = {0, 1, 2, 9}
    MaxPackets = 3
CHECK_DEADLOCK FALSE
INVARIANT
    WellFormedIsRead
