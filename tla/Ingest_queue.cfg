SPECIFICATION FairSpec
CONSTANTS
    r1 = r1
    r2 = r2
    r3 = r3
    Requests = {r1, r2, r3}
    Size <- Sizes
    Cap = 2
    Batch = 2
    MaxFaults = 1
INVARIANTS
    HalfFullWakes
    EarlyAcceptedIsHanded
PROPERTIES
    IsQueue
    EventuallyHanded
    ShutdownEnds
CHECK_DEADLOCK FALSE
