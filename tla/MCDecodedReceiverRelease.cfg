SPECIFICATION FairSpec
CONSTANTS
    header_capacity = 3
    queue_size = 1
    LastPacket = 2
PROPERTY ReleaseTerminates
CHECK_DEADLOCK FALSE
