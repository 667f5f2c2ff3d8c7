CONSTANTS
    a = a
    b = b
    NoFd = NoFd
    NoName = NoName
    NoConn = 0
    Conns = {1, 2, 3}
    Names = {a, b}
    ClientName <- MCClientName
    Asynchronous = {1}
    Mute = {}
    RecvErrors = {3}
    SelectErrors = {3}
    SendErrors = {2}
    Malformed = {2}
    Fds = {f1, f2}
    MaxPkts <- MCQuietBystander
SPECIFICATION Spec
CHECK_DEADLOCK FALSE
SYMMETRY MCSymmetry
INVARIANTS
    TypeOK
    FromThePresent
    TablesAgree
    EventMeansWork
