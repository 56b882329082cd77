SPECIFICATION FairSpec
CONSTANTS
    LastPacket = 4
    Seek = 3
    MaxFailures = 2
INVARIANTS Gapless OffsetHonoured ReaderPresent OneRpcOnceSettled
PROPERTY AutoFallsBack
CHECK_DEADLOCK FALSE
