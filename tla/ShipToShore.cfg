SPECIFICATION ShipSpec
CONSTANTS
    RateLimits <- MCRateLimits
    Sources <- MCOneSource
    Window = 1
    ChanCap = 1
    ReqCap = 2
    MaxEvents = 0
    MaxFaults = 0
    SampleCap = 1
    MaxSamples = 2
    MaxAnomalies = 1
    Positions <- MCPositions
    i1 = i1
    i2 = i2
    i3 = i3
    r1 = r1
    None = None
    Ingests <- MCIngests
    Readers <- MCReaders
    Stamps <- MCStamps
    TTL = 2
INVARIANTS
    TrackerFollowsPosition
    ReceiverKnowsTheZone
    ChannelIsShadowed
    TelemetryTypeOK
    AnswersAreStored
    OrderlyIngestIsFresh
    ReaderSeesAcknowledged
PROPERTIES
    ShutdownStopsAnalytics
    ShutdownStopsPollers
    FlushEndsIfItFits
    CacheConverges
CHECK_DEADLOCK FALSE
