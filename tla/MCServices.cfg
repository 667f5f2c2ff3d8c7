CONSTANTS
    SSClients = {c1, c2}
    Fds = {1, 2}
    MaxAccepts = 4
    Browsers = {b1, b2}
    WebVar <- MCWebVar
    MaxDrops = 1
    MaxEvents = 3
    DBNames <- MCDBNames
    Responses <- MCResponses
    WarpLimit = 400
    MaxJoins = 3
    Viewers = {v1}
    MaxDuration = 1
    MaxConfigWarnings = 0
    MaxWarned = 2
SPECIFICATION Spec
CHECK_DEADLOCK FALSE
INVARIANTS
    ServerTablesAgree
    FileFollowsEvents
    ViewersSeeTheTruth
    DatabaseComesAndGoes
PROPERTIES
    ServicesGetOn
