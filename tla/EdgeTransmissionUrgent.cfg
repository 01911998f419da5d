SPECIFICATION Spec
CONSTANTS
    RateLimits <- MCRateLimits
    Window = 2
    ChanCap = 1
    ReqCap = 1
    MaxEvents = 3
    MaxFaults = 1
INVARIANTS
    UrgentLeavesAtOnce
