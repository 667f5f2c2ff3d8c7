CONSTANTS
    Period = 2
    MinPeriod = 1
    StatusPeriod = 1
    MaxUnread = 1
    UnreadLimit = 1
    CountDown = 2
    MaxDatagrams = 3
    Workers = {w1, w2, w3}
    PePeriod = 5
    MaxLate = 8
    UmmSecond = 2
    CorrectEvery = 3
    UmmTx = 3
    UmmSkews <- MCSkews
    UmmLate = 2
SPECIFICATION Spec
CHECK_DEADLOCK FALSE
INVARIANTS
    AppKeepsItsPace
    DeathIsByOrder
    UmmDoesAsDirected
PROPERTIES
    EventIsPeriodic
    ApplicationsGetOn
