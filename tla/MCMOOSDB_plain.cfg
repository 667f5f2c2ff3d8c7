CONSTANTS
    c1 = c1
    c2 = c2
    x = x
    db = db
    NoSource = NoSource
    Nobody = Nobody
    DBName = db
    EventVar = DB_EVENT
    QosVar = DB_QOS
    NotSet = "-"
    Clients <- MCOneClient
    Sources = {c1, db}
    Vars = {DB_EVENT, DB_QOS}
    Types = {"D", "S"}
    OwnVars <- MCOwnVars
    OwnType <- MCOwnType
    MadeType <- MCMadeType
    SummaryVars <- MCSummary
    SummaryPeriod = 2
    FilterIds = {}
    FilterApp <- MCFilterApp
    FilterVar <- MCFilterVar
    Periods = {0, 2}
    StartTime = 2
    MaxTime = 5
    MaxWrites = 2
    MaxHeld = 2
SPECIFICATION Spec
CHECK_DEADLOCK FALSE
INVARIANTS
    TypeOK
    MailIsGenuine
    MailInWriteOrder
    StaleOnlyWhenThrottled
