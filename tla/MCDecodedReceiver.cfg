SPECIFICATION FairSpec
CONSTANTS
    header_capacity = 2
    queue_size = 2
    LastPacket = 4
INVARIANTS ImagesThenEos HeaderOnce
PROPERTIES EosReachesCaller WorkerEnds
CHECK_DEADLOCK FALSE
