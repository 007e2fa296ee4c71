SPECIFICATION ReadSpec
CONSTANTS
    e1 = e1
    e2 = e2
    e3 = e3
    f1 = f1
    f2 = f2
    f3 = f3
    f4 = f4
    None = None
    Events = {e1, e2}
    EventWindow <- OnePerWindow
    MaxWindow = 2
    Files = {f1, f2, f3}
    Punctual = TRUE
    MaxRestarts = 2
    MaxFaults = 1
SYMMETRY FileSymmetry
INVARIANTS
    Queryable
    Durable
    SealedRowTrue
    NeverWritesClosed
    QueryMissesOnlySealing
PROPERTIES
    IsEventStore
    CatalogBeforeDelete
CHECK_DEADLOCK FALSE
