SPECIFICATION Spec
CONSTANTS
    header_capacity = 2
    queue_size = 2
    LastPacket = 3
INVARIANT HeaderRecovered
CHECK_DEADLOCK FALSE
