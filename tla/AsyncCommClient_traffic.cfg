CONSTANTS
    Users = {u1}
    Vars = {x}
    Recurrent = {x}
    OldDB = FALSE
    OutLimit = 1
    InLimit = 1
    Breakable = {1}
    MaxConns = 2
    MaxRuns = 0
    MaxPosts = 2
    MaxMail = 2
SPECIFICATION Spec
CHECK_DEADLOCK FALSE
INVARIANTS
    PostsKeepTheirOrder
    MailKeepsItsOrder
    MailIsAnnounced
