SPECIFICATION AnalyticsSpec
CONSTANTS
    s1 = s1
    s2 = s2
    Ships = {s1, s2}
    Rows <- MCRows
    Months <- MCMonths
    ServiceSpeed = 195
    RiskWindow = 2
    UsePeriod = 3
    MaxDays = 5
    Speeds = {1, 2}
    Route = 3
    Approach = 2
    PortStay = 3
    Departure = 2
    SlowDown = 1
    LoadRate = 28
    DischargeRate = 23
    BoilOff <- MCBoilOff
    Demand <- MCDemand
    Pilot = 1
    AuxLoad <- MCAuxLoad
    InitialAux = 9
    BufferSize = 4
    PerHour = 2
    PerDay = 6
    RunSteps <- MCSteps
    h1 = h1
    Hulls = {h1}
    Coefficients = {0, 84, 96, 103}
    RecordDays = 5
    Calls = 2
    Growth = 120
    Noise <- MCNoise
    StaticDeviation <- MCStaticDeviation
    StaticRoughness = 2000
    StaticQpc = 70000
    FoulingWindow = 5
    IndexWindow = 6
    TrendWindow = 7
    IndexTrend = 4
    MaxLog = 7
INVARIANTS
    GasComesFromTheTanks
CHECK_DEADLOCK FALSE
