CONSTANTS
    Users = {u1}
    Vars = {x}
    Recurrent = {}
    OldDB = FALSE
    OutLimit = 5
    InLimit = 1
    Breakable = {1}
    MaxConns = 2
    MaxRuns = 0
    MaxPosts = 1
    MaxMail = 0
SPECIFICATION Spec
CHECK_DEADLOCK FALSE
INVARIANTS
    PostedIsTransmitted
