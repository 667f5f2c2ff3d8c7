CONSTANTS
    c1 = c1
    c2 = c2
    x = x
    db = db
    NoSource = NoSource
    Nobody = Nobody
    DBName = db
    EventVar = DB_EVENT
    QosVar = DB_QOS
    NotSet = "-"
    Clients <- MCTwoClients
    Sources = {c1, c2, db}
    Vars = {x, DB_EVENT}
    Types = {"S"}
    OwnVars <- MCOwnVars
    OwnType <- MCOwnType
    MadeType <- MCMadeType
    SummaryVars <- MCNoSummary
    SummaryPeriod = 2
    FilterIds = {1}
    FilterApp <- MCFilterApp
    FilterVar <- MCFilterVar
    Periods = {0}
    StartTime = 2
    MaxTime = 2
    MaxWrites = 2
    MaxHeld = 1
SPECIFICATION Spec
CHECK_DEADLOCK FALSE
SYMMETRY MCSymmetry
INVARIANTS
    NothingForTheDeparted
    WildcardsCover
