CONSTANTS
    IntSize = 2
    DoubleSize = 1
    NULLMsgType = "."
    WirePackets <- MCPackets
    ChunkRead = 3
    MaxSent = 2
    QNames = {q1, q2}
    Keys = {k1, k2}
    MaxMail = 2
    MaxCalls = 2
    OutLimit = 2
    OutLimits = {1}
    InLimit = 1
    Subs = {s1}
    MaxSyncPosts = 1
    MaxSyncMail = 2
    MaxRequests = 1
    MaxConnections = 2
    Pushers = {p1, p2}
    MaxPushed = 4
SPECIFICATION Spec
CHECK_DEADLOCK FALSE
INVARIANTS
    QueuesAreFaithful
    SyncClientIsSound
PROPERTIES
    PacketsGetAcross
    SafeListIsWaitable
    ClientsGetOn
