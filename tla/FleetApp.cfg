SPECIFICATION MCSpec
CONSTANTS
    w1 = w1
    w2 = w2
    Workers = {w1, w2}
    Recorded = {"seemp_reports", "cii_assessment", "eu_ets_records"}
    Budgets <- MCBudgets
    Handlers = {w1, w2}
    Names = {"admin", "alice"}
    Emails = {"a", "b"}
    Passwords = {"p", "q"}
    Admin = "admin"
    AdminEmail = "a"
    AdminPassword = "p"
    Lifetime = 1
    MaxIds = 4
    MaxTokens = 2
    MaxTime = 2
    Registrars = {w1, w2}
    Required = {"IAPP", "IGC"}
    Optional = {"ISGOTT"}
    StaticTypes <- MCStatic
    BadDate = BadDate
    Dates = {3, 9}
    Critical = 1
    Soon = 3
    Thresholds = {0, 2, 3}
    MaxCertificates = 2
    LastDay = 4
    Clerks = {w1, w2}
    Vessels = {"v"}
    Voyages <- MCVoyages
    FirstYear = 2029
    Days <- MCDays
    Limits = {80, 90}
    StaticYear = 2029
    StaticFigures <- MCStaticFigures
    MaxRows <- MCMaxRows
SYMMETRY MCSymmetry
INVARIANTS
    AppTypeOK
    DemoDataIsSound
    OneAccountPerName
    TokensMatchAccounts
    LogFollowsCertificates
    ClearanceAndAlertsAgree
    StoredTotalsLagBehind
    AnnualAnswersFollowVoyages
PROPERTIES
    LastAdminFallsToAGhost
CHECK_DEADLOCK FALSE
