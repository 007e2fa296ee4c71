SPECIFICATION FairSpec
CONSTANTS
    e1 = e1
    e2 = e2
    e3 = e3
    f1 = f1
    f2 = f2
    f3 = f3
    f4 = f4
    None = None
    Events = {e1, e2}
    EventWindow <- OnePerWindow
    MaxWindow = 2
    Files = {f1, f2, f3}
    Punctual = FALSE
    MaxRestarts = 1
    MaxFaults = 1
INVARIANTS
    OneHome
PROPERTIES
    RecoveryReconciles
    EventuallySealed
CHECK_DEADLOCK FALSE
