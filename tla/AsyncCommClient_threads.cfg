CONSTANTS
    Users = {u1}
    Vars = {x}
    Recurrent = {}
    OldDB = FALSE
    OutLimit = 5
    InLimit = 1
    Breakable = {1, 2}
    MaxConns = 2
    MaxRuns = 1
    MaxPosts = 1
    MaxMail = 0
SPECIFICATION FairSpec
CHECK_DEADLOCK FALSE
PROPERTIES
    BrokenConnectionsAreLeft
    NobodyWaitsForEver
