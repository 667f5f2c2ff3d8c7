CONSTANTS
    a = a
    b = b
    NoFd = 0
    NoName = NoName
    NoConn = 0
    Conns = {1, 2, 3}
    Names = {a, b}
    ClientName <- MCClientName
    Asynchronous = {}
    Mute = {2}
    RecvErrors = {}
    SelectErrors = {}
    SendErrors = {}
    Malformed = {}
    Fds = {1, 2, 3}
    MaxPkts <- MCOnePkt
SPECIFICATION FairSpec
CHECK_DEADLOCK FALSE
PROPERTY ClientsAreAnswered
