SPECIFICATION FairSpec
CONSTANTS
    Producers = {p1, p2}
    Consumers = {c1, c2}
    Capacity = 2
    IntMax = 99
    MaxItems = 4
INVARIANTS FifoOrder OneOwner NoLostWakeup
PROPERTIES ImplementsFifo NoStuckWaiter TimedCallsReturn
CHECK_DEADLOCK FALSE
