SPECIFICATION Spec
CONSTANTS
    MaxWindow = 1
    WindowLength = 2
    From = 0
    Timelines <- MCTimelines
    To = 2
    EventService <- MCEventService
    EventWords <- MCEventWords
    None = None
    Limit = 1
    LimitGuard = 2
    FacetSampleSize = 2
    CardinalityCap = 2
    MaxEvents = 4
    MaxPages = 5
    MaxEvictions = 1
INVARIANTS
    PagesSound
    MissesExplained
    ResultsHonest
PROPERTIES
    ChainEnds
