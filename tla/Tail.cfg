SPECIFICATION Spec
CONSTANTS
    a = a
    b = b
    d = d
    Clients <- MCClients
    Scenarios <- MCScenarios
    MaxClients = 2
    SendCap = 1
    WriteCap = 1
    RateCap = 1
INVARIANTS
    StreamsSound
    SlotsTrue
PROPERTIES
    StreamSteps
    IsTailStream
    NobodyWaits
    Shedding
CHECK_DEADLOCK FALSE
