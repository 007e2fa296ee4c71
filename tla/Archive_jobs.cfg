SPECIFICATION Spec
CONSTANTS
    Segs <- MCSegs
    Big <- MCBig
    Callers <- MCCallers
    Jobs = {"j1", "j2"}
    Verifiers = {"v"}
    Parts = 1
    MaxTrouble = 1
INVARIANTS
    BackendsTrue
    RehydratedServed
    JobsTrue
PROPERTIES
    StoreSpec
    JobsForward
    JobEnds
CHECK_DEADLOCK FALSE
