SPECIFICATION GatewaySpec
CONSTANTS
    RateLimits <- MCRateLimits
    Sources <- MCTwoSources
    Window = 1
    ChanCap = 1
    ReqCap = 2
    MaxEvents = 1
    MaxFaults = 0
    SampleCap = 1
    MaxSamples = 1
    MaxAnomalies = 0
INVARIANTS
    GatewayTypeOK
    SamplesAccounted
    EventsAccounted
    NothingRefusedWhileUp
PROPERTIES
    ImplementsTransmission
CHECK_DEADLOCK FALSE
