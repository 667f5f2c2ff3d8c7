CONSTANTS
    SkewVals = {0, 1}
    MaxSegs = 2
    MaxPeriod = 4
    StableAfter = 2
    EarlyMeas = 2
    MaxMeas = 5
    Offsets = {0, 2, 102}
    MaxDelay = 2
    MaxUpdates = 3
    SkewUnit = 2000
    AuditClients = {c1}
    Latencies <- MCLatencies
    NoLatencyYet = 9
    Window = 2
    MaxTraffic = 2
    MaxTimings = 3
    MaxPattern = 4
    MaxText = 4
    MaxField = 6
    MaxLines = 5
    Columns = {10, 20, 30}
    MaxArgs = 4
    EmptyArgs = FALSE
    CommsSpace = 4
    InboxMax = 2
    TelegramLen = 9
    DynNames = {d1, d2}
    MaxWrites = 3
    SkewTolerance = 1
    TopClients <- MCTopClients
    TopVars = {"X"}
    StatusVar = "S"
    Gtm = "g"
    MaxChanges = 3
    MaxSamples = 2
SPECIFICATION Spec
CHECK_DEADLOCK FALSE
INVARIANTS
    SkewIsBounded
    ClockFollowsTheDatabase
    AuditIsTrue
    TextIsRead
    CommandLineIsAnswered
    TelegramsAreTrue
    GraphIsTheCommunity
PROPERTIES
    PublishedIsOneWrite
