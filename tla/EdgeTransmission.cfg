SPECIFICATION Spec
CONSTANTS
    RateLimits <- MCRateLimits
    Window = 2
    ChanCap = 1
    ReqCap = 2
    MaxEvents = 4
    MaxFaults = 1
INVARIANTS
    TypeOK
    EachMessageInOnePlace
    TxCountIsPublished
    FlushIsComplete
    BulkWaitsForShutdown
    UrgentWaitsOnlyBehindBulk
    UrgentLeaveInOrder
    AnyMinuteAtMostTwiceTheLimit
    PanicNeedsZeroLimit
