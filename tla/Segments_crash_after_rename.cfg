SPECIFICATION Spec
CONSTANTS
    e1 = e1
    e2 = e2
    e3 = e3
    f1 = f1
    f2 = f2
    f3 = f3
    f4 = f4
    None = None
    Events = {e1, e2, e3}
    EventWindow <- EventWindowOf
    MaxWindow = 2
    Files = {f1, f2, f3}
    Punctual = TRUE
    MaxRestarts = 1
    MaxFaults = 0
SYMMETRY FileSymmetry
PROPERTIES
    RecoveredParquetServed
CHECK_DEADLOCK FALSE
