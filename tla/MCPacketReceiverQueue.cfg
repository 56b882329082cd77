SPECIFICATION FairSpec
CONSTANTS
    Capacity = 2
    LastPacket = 5
INVARIANTS OrderedGapless InfluxPaused
PROPERTIES Delivered WorkerEnds
CHECK_DEADLOCK FALSE
