CONSTANTS
    a = a
    b = b
    NoFd = 0
    NoName = NoName
    NoConn = 0
    Conns = {1, 2}
    Names = {a, b}
    ClientName <- MCClientName
    Asynchronous = {1}
    Mute = {}
    RecvErrors = {}
    SelectErrors = {}
    SendErrors = {}
    Malformed = {}
    Fds = {1, 2}
    MaxPkts <- MCOnePkt
SPECIFICATION FairSpec
CHECK_DEADLOCK FALSE
PROPERTIES
    DepartedAreDropped
    ClientsAreAnswered
