SPECIFICATION FairSpec
CONSTANTS
    RateLimits <- MCRateLimits
    Window = 2
    ChanCap = 1
    ReqCap = 1
    MaxEvents = 2
    MaxFaults = 0
PROPERTIES
    AggregatesLeaveInBatches
CHECK_DEADLOCK FALSE
