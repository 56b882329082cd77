SPECIFICATION Spec
CONSTANTS
    LastPacket = 2
    Seek = 1
    MaxFailures = 0
INVARIANT OkMeansPacket
CHECK_DEADLOCK FALSE
