SPECIFICATION GatewayFairSpec
CONSTANTS
    RateLimits <- MCRateLimits
    Sources <- MCOneSource
    Window = 1
    ChanCap = 1
    ReqCap = 12
    MaxEvents = 0
    MaxFaults = 0
    SampleCap = 1
    MaxSamples = 1
    MaxAnomalies = 0
PROPERTIES
    CtrlCEndsProcess
CHECK_DEADLOCK FALSE
