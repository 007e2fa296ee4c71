SPECIFICATION FairSpec
CONSTANTS
    w1 = w1
    w2 = w2
    Workers = {w1, w2}
    Tasks = {"retain", "archive", "rehydrate", "sweep", "delete", "import", "query"}
    ArchiveFirst = TRUE
    Script = TRUE
    MaxFaults = 1
    MaxRestarts = 1
INVARIANTS
    CopiesTrue
    SealedHereHasCopy
PROPERTIES
    EventuallyEvicted
CHECK_DEADLOCK FALSE
