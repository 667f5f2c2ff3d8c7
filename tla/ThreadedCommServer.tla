-------------------------- MODULE ThreadedCommServer --------------------------
(***************************************************************************)
(* The communications server of the MOOSDB: class ThreadedCommServer and   *)
(* what it inherits from CMOOSCommServer.  Its threads are                 *)
(*   - the listen thread, which accepts a connection, shakes hands with    *)
(*     the client and starts the threads that serve it;                    *)
(*   - for every client a reader, and for an asynchronous client a writer; *)
(*   - the server thread, which takes packets and reports of closed        *)
(*     connections from one shared list and calls the database;            *)
(*   - the waste disposal thread, which destroys what a departed client    *)
(*     leaves behind.                                                      *)
(*                                                                         *)
(* Data.  A connection stands for the XPCTcpSocket that Accept makes, the  *)
(* ClientThread that serves it and the client at its far end.  Packets     *)
(* have no contents: what matters is from which connection they come and   *)
(* that each is answered.  What the database answers is a choice.          *)
(***************************************************************************)
EXTENDS Integers, Sequences

CONSTANTS
    Conns,         \* connections clients may open; each is used once
    Names,         \* client names
    ClientName,    \* the name the client of a connection gives in the handshake
    Asynchronous,  \* connections whose client asks to be asynchronous
    Mute,          \* connections whose client never sends its protocol string
    RecvErrors,    \* connections on which recv may fail with other than a reset
    SelectErrors,  \* connections on which select may fail in the reader
    SendErrors,    \* connections on which a send may time out with the client present
    Malformed,     \* connections on which a packet may hold no message that can be read
    Fds,           \* file descriptors
    NoFd,          \* no descriptor yet
    NoName,        \* a descriptor with no entry in m_Socket2ClientMap
    NoConn,        \* no connection
    MaxPkts        \* bound: packets a client sends on each connection

ASSUME ConnsAssumption ==
    /\ ClientName \in [Conns -> Names]
    /\ Asynchronous \subseteq Conns
    /\ Mute \subseteq Conns
    /\ RecvErrors \subseteq Conns
    /\ SelectErrors \subseteq Conns
    /\ SendErrors \subseteq Conns
    /\ Malformed \subseteq Conns
    /\ NoFd \notin Fds
    /\ NoName \notin Names
    /\ NoConn \notin Conns
    /\ MaxPkts \in [Conns -> Nat]

VARIABLES
    peer,       \* the client's end: "absent", "open" or "gone"
    sent,       \* packets the client has sent
    unread,     \* packets sent and not yet read by the server
    sock,       \* the server's end: "none", "open" or "closed" (and deleted)
    fd,         \* its file descriptor
    lock,       \* who holds m_SocketListLock: "none", "listen" or "server"
    lpc, lconn, \* the listen thread and the connection it works on
    s2c,        \* m_Socket2ClientMap
    asyncSet,   \* m_AsynchronousClientSet
    threads,    \* m_ClientThreads
    sockList,   \* m_ClientSocketList
    incoming,   \* m_SharedDataListFromClient
    outgoing,   \* m_SharedDataOutgoing of each ClientThread
    async,      \* m_bAsynchronous of each ClientThread
    reader,     \* the reader thread of each connection
    writer,     \* the writer thread of each connection
    spc, sd,    \* the server thread and the item it works on
    old,        \* m_OldClientThreadsToDestroy
    pushEvent,  \* the auto-reset event of that list
    wpc, wconn, \* the waste disposal thread and the ClientThread it destroys
    destroyed,  \* the ClientThreads that have been deleted
    served      \* the clients the database has been told of (connect and disconnect callbacks)

netVars      == <<peer, sent, unread>>
sockVars     == <<sock, fd>>
listenVars   == <<lpc, lconn>>
tableVars    == <<s2c, asyncSet, threads, sockList>>
threadVars   == <<outgoing, async, reader, writer>>
serverVars   == <<spc, sd>>
disposalVars == <<old, pushEvent, wpc, wconn, destroyed>>
vars == <<netVars, sockVars, lock, listenVars, tableVars, incoming, threadVars, serverVars,
          disposalVars, served>>

\* A ClientThreadSharedData on its way up.  It carries a client's name; the connection it
\* came from is history.
Item == [name : Names, status : {"PKT_READ", "CONNECTION_CLOSED"}, from : Conns]

NoItem == [status |-> "NOT_INITIALISED"]

Up(c, status) == [name |-> ClientName[c], status |-> status, from |-> c]

-------------------------------------------------------------------------------
(* The clients                                                             *)

ClientConnect(c) ==
    /\ peer[c] = "absent"
    /\ peer' = [peer EXCEPT ![c] = "open"]
    /\ UNCHANGED <<sent, unread, sockVars, lock, listenVars, tableVars, incoming, threadVars,
                   serverVars, disposalVars, served>>

\* A client sends packets once it is welcome.
ClientSend(c) ==
    /\ peer[c] = "open"
    /\ reader[c] # "none"
    /\ sent[c] < MaxPkts[c]
    /\ sent' = [sent EXCEPT ![c] = @ + 1]
    /\ unread' = [unread EXCEPT ![c] = @ + 1]
    /\ UNCHANGED <<peer, sockVars, lock, listenVars, tableVars, incoming, threadVars,
                   serverVars, disposalVars, served>>

\* The client closes its end, or dies, at any moment.
ClientGoes(c) ==
    /\ peer[c] = "open"
    /\ peer' = [peer EXCEPT ![c] = "gone"]
    /\ UNCHANGED <<sent, unread, sockVars, lock, listenVars, tableVars, incoming, threadVars,
                   serverVars, disposalVars, served>>

-------------------------------------------------------------------------------
(* The listen thread: ListenLoop, OnNewClient, HandShake                   *)

\* Accept gives the new socket a descriptor that no open socket has.
Accept(c, f) ==
    /\ lpc = "accept"
    /\ peer[c] # "absent"
    /\ sock[c] = "none"
    /\ \A d \in Conns : sock[d] = "open" => fd[d] # f
    /\ sock' = [sock EXCEPT ![c] = "open"]
    /\ fd' = [fd EXCEPT ![c] = f]
    /\ lpc' = "lock"
    /\ lconn' = c
    /\ UNCHANGED <<netVars, lock, tableVars, incoming, threadVars, serverVars, disposalVars, served>>

ListenLock ==
    /\ lpc = "lock"
    /\ lock = "none"
    /\ lock' = "listen"
    /\ lpc' = "handshake"
    /\ UNCHANGED <<netVars, sockVars, lconn, tableVars, incoming, threadVars, serverVars,
                   disposalVars, served>>

\* The client is spurned: OnNewClient closes and deletes the socket, ListenLoop unlocks.
Spurn ==
    /\ sock' = [sock EXCEPT ![lconn] = "closed"]
    /\ lock' = "none"
    /\ lpc' = "accept"
    /\ lconn' = NoConn

\* No protocol string, a wrong one, or no name within five seconds.  A client that is
\* connected and mute leaves CheckProtocol waiting.
HandShakeFails ==
    /\ lpc = "handshake"
    /\ peer[lconn] = "gone" \/ lconn \notin Mute
    /\ Spurn
    /\ UNCHANGED <<netVars, fd, tableVars, incoming, threadVars, serverVars, disposalVars, served>>

\* CheckProtocol lets an XPCException through; HandShake catches only CMOOSException, and
\* ListenLoop catches it past the UnLock and without the socket.
HandShakeThrows ==
    /\ lpc = "handshake"
    /\ lconn \in RecvErrors
    /\ lpc' = "accept"
    /\ lconn' = NoConn
    /\ UNCHANGED <<netVars, sockVars, lock, tableVars, incoming, threadVars, serverVars,
                   disposalVars, served>>

\* Mutant: only the connection's own descriptor is looked at.
IsUniqueHere(n) == s2c[fd[lconn]] # n

IsUniqueName(n) == \A f \in Fds : s2c[f] # n

\* PoisonClient: "A client of this name already exists".
HandShakePoisons ==
    /\ lpc = "handshake"
    /\ lconn \notin Mute
    /\ ~IsUniqueName(ClientName[lconn])
    /\ Spurn
    /\ UNCHANGED <<netVars, fd, tableVars, incoming, threadVars, serverVars, disposalVars, served>>

HandShakeNames ==
    /\ lpc = "handshake"
    /\ lconn \notin Mute
    /\ IsUniqueName(ClientName[lconn])
    /\ s2c' = [s2c EXCEPT ![fd[lconn]] = ClientName[lconn]]
    /\ asyncSet' = IF lconn \in Asynchronous THEN asyncSet \cup {ClientName[lconn]} ELSE asyncSet
    /\ lpc' = "welcome"
    /\ UNCHANGED <<netVars, sockVars, lock, lconn, threads, sockList, incoming, threadVars,
                   serverVars, disposalVars, served>>

\* SendMsg throws when the client has gone.  What HandShake put in the tables stays there.
WelcomeFails ==
    /\ lpc = "welcome"
    /\ peer[lconn] = "gone"
    /\ Spurn
    /\ UNCHANGED <<netVars, fd, tableVars, incoming, threadVars, serverVars, disposalVars, served>>

\* The welcome is sent and the connect callback made.
Welcome ==
    /\ lpc = "welcome"
    /\ served' = served \cup {ClientName[lconn]}
    /\ lpc' = "add"
    /\ UNCHANGED <<netVars, sockVars, lock, lconn, tableVars, incoming, threadVars, serverVars,
                   disposalVars>>

\* A ClientThread is made, put in the map and started; ListenLoop stores the socket and
\* unlocks.  When the name is already in the map neither happens.
AddAndStartClientThread ==
    LET n == ClientName[lconn]
    IN  /\ lpc = "add"
        /\ IF threads[n] = NoConn
           THEN /\ threads' = [threads EXCEPT ![n] = lconn]
                /\ async' = [async EXCEPT ![lconn] = n \in asyncSet]
                /\ reader' = [reader EXCEPT ![lconn] = "select"]
                /\ writer' = [writer EXCEPT ![lconn] = IF n \in asyncSet THEN "idle" ELSE "none"]
                /\ sockList' = sockList \cup {lconn}
           ELSE UNCHANGED <<threads, async, reader, writer, sockList>>
        /\ lock' = "none"
        /\ lpc' = "accept"
        /\ lconn' = NoConn
        /\ UNCHANGED <<netVars, sockVars, s2c, asyncSet, incoming, outgoing, serverVars,
                       disposalVars, served>>

-------------------------------------------------------------------------------
(* ClientThread: the reader, AsynchronousReadLoop and HandleClientWrite    *)

\* Mutant: the reader does not wait for data.
AlwaysReadable(c) == TRUE

Readable(c) == unread[c] > 0

\* A packet is read and pushed up; the reader of a synchronous client waits for the answer.
ReadPkt(c) ==
    /\ reader[c] = "select"
    /\ Readable(c)
    /\ unread' = [unread EXCEPT ![c] = @ - 1]
    /\ incoming' = Append(incoming, Up(c, "PKT_READ"))
    /\ reader' = [reader EXCEPT ![c] = IF async[c] THEN "select" ELSE "wait"]
    /\ UNCHANGED <<peer, sent, sockVars, lock, listenVars, tableVars, outgoing, async, writer,
                   serverVars, disposalVars, served>>

\* Mutant: the reader leaves without a word.
ReaderLeaves == "done"

\* What the reader does next when the connection is found closed: report it.
ReaderReports == "close"

\* The client has closed its end, and what it sent last may be lost with it; or recv fails.
ReadFails(c) ==
    /\ reader[c] = "select"
    /\ peer[c] = "gone" \/ c \in RecvErrors
    /\ reader' = [reader EXCEPT ![c] = ReaderReports]
    /\ UNCHANGED <<netVars, sockVars, lock, listenVars, tableVars, incoming, outgoing, async,
                   writer, serverVars, disposalVars, served>>

\* m_dfClientTimeout seconds of silence.
ClientTimeout(c) ==
    /\ reader[c] = "select"
    /\ unread[c] = 0
    /\ reader' = [reader EXCEPT ![c] = ReaderReports]
    /\ UNCHANGED <<netVars, sockVars, lock, listenVars, tableVars, incoming, outgoing, async,
                   writer, serverVars, disposalVars, served>>

\* select returns -1: the thread exits and tells nobody.
SelectFails(c) ==
    /\ reader[c] = "select"
    /\ c \in SelectErrors
    /\ reader' = [reader EXCEPT ![c] = "done"]
    /\ UNCHANGED <<netVars, sockVars, lock, listenVars, tableVars, incoming, outgoing, async,
                   writer, serverVars, disposalVars, served>>

\* The answer to a synchronous client; the send fails if the client has gone.
AnswerClient(c) ==
    /\ reader[c] = "wait"
    /\ outgoing[c] # <<>>
    /\ outgoing' = [outgoing EXCEPT ![c] = Tail(@)]
    /\ \/ /\ Head(outgoing[c]) = "PKT_WRITE"
          /\ reader' = [reader EXCEPT ![c] = "select"]
       \/ /\ peer[c] = "gone" \/ c \in SendErrors \/ Head(outgoing[c]) # "PKT_WRITE"
          /\ reader' = [reader EXCEPT ![c] = "close"]
    /\ UNCHANGED <<netVars, sockVars, lock, listenVars, tableVars, incoming, async, writer,
                   serverVars, disposalVars, served>>

\* Mutant: the read loop goes on after a failed read.
ReaderGoesOn(c) == "select"

\* The read loop returns; for an asynchronous client the writer is told first.
AfterReport(c) == IF async[c] THEN "tell" ELSE "done"

\* ClientThread::OnClientDisconnect, one action per list.
ReportClosed(c) ==
    /\ reader[c] = "close"
    /\ incoming' = Append(incoming, Up(c, "CONNECTION_CLOSED"))
    /\ reader' = [reader EXCEPT ![c] = AfterReport(c)]
    /\ UNCHANGED <<netVars, sockVars, lock, listenVars, tableVars, outgoing, async, writer,
                   serverVars, disposalVars, served>>

TellWriter(c) ==
    /\ reader[c] = "tell"
    /\ outgoing' = [outgoing EXCEPT ![c] = Append(@, "CONNECTION_CLOSED")]
    /\ reader' = [reader EXCEPT ![c] = "done"]
    /\ UNCHANGED <<netVars, sockVars, lock, listenVars, tableVars, incoming, async, writer,
                   serverVars, disposalVars, served>>

-------------------------------------------------------------------------------
(* ClientThread: the writer, AsynchronousWriteLoop                         *)

WriterPull(c) ==
    /\ writer[c] = "idle"
    /\ outgoing[c] # <<>>
    /\ outgoing' = [outgoing EXCEPT ![c] = Tail(@)]
    /\ writer' = [writer EXCEPT ![c] = IF Head(outgoing[c]) = "PKT_WRITE" THEN "send" ELSE "done"]
    /\ UNCHANGED <<netVars, sockVars, lock, listenVars, tableVars, incoming, async, reader,
                   serverVars, disposalVars, served>>

\* SendPkt on m_ClientSocket.  On a socket that is no longer there anything may happen.
WriterSend(c) ==
    /\ writer[c] = "send"
    /\ writer' = [writer EXCEPT ![c] = "idle"]
    /\ UNCHANGED <<netVars, sockVars, lock, listenVars, tableVars, incoming, outgoing, async,
                   reader, serverVars, disposalVars, served>>

\* SendPkt throws: the writer exits, the reader does not hear of it.
WriterSendFails(c) ==
    /\ writer[c] = "send"
    /\ peer[c] = "gone" \/ sock[c] = "closed" \/ c \in SendErrors
    /\ writer' = [writer EXCEPT ![c] = "done"]
    /\ UNCHANGED <<netVars, sockVars, lock, listenVars, tableVars, incoming, outgoing, async,
                   reader, serverVars, disposalVars, served>>

\* Kill asks the thread to quit before it waits for it.
WriterQuits(c) ==
    /\ writer[c] = "idle"
    /\ wpc = "join"
    /\ wconn = c
    /\ writer' = [writer EXCEPT ![c] = "done"]
    /\ UNCHANGED <<netVars, sockVars, lock, listenVars, tableVars, incoming, outgoing, async,
                   reader, serverVars, disposalVars, served>>

-------------------------------------------------------------------------------
(* The server thread: ServerLoop, ProcessClient, OnClientDisconnect        *)

ServerPull ==
    /\ spc = "idle"
    /\ incoming # <<>>
    /\ sd' = Head(incoming)
    /\ incoming' = Tail(incoming)
    /\ spc' = IF Head(incoming).status = "PKT_READ" THEN "process" ELSE "lock"
    /\ UNCHANGED <<netVars, sockVars, lock, listenVars, tableVars, threadVars, disposalVars, served>>

\* Mutant: no default message goes to a synchronous client without mail.
NoMail(c) == TRUE

\* An asynchronous client is answered when there is mail or timing for it.
MayStaySilent(c) == async[c]

\* The database is called and the client answered; a notification is followed by a round of
\* fetching.
ProcessClient ==
    LET c == threads[sd.name]
    IN  /\ spc = "process"
        /\ c # NoConn
        /\ \/ outgoing' = [outgoing EXCEPT ![c] = Append(@, "PKT_WRITE")]
           \/ MayStaySilent(c) /\ UNCHANGED outgoing
        /\ \/ spc' = "fetch" /\ UNCHANGED sd
           \/ spc' = "idle" /\ sd' = NoItem
        /\ UNCHANGED <<netVars, sockVars, lock, listenVars, tableVars, incoming, async, reader,
                       writer, disposalVars, served>>

\* The early returns, which answer nobody: a packet without a message, and a "logical error"
\* when the client is not in the map.
ProcessNothing ==
    /\ spc = "process"
    /\ sd.from \in Malformed \/ threads[sd.name] = NoConn
    /\ spc' = "idle"
    /\ sd' = NoItem
    /\ UNCHANGED <<netVars, sockVars, lock, listenVars, tableVars, incoming, threadVars,
                   disposalVars, served>>

AsyncClients == {c \in Conns : threads[ClientName[c]] = c /\ async[c]}

\* The asynchronous clients that have mail are sent it.
FetchAllMail ==
    /\ spc = "fetch"
    /\ \E F \in SUBSET AsyncClients :
           outgoing' = [c \in Conns |-> IF c \in F THEN Append(outgoing[c], "PKT_WRITE") ELSE outgoing[c]]
    /\ spc' = "idle"
    /\ sd' = NoItem
    /\ UNCHANGED <<netVars, sockVars, lock, listenVars, tableVars, incoming, async, reader, writer,
                   disposalVars, served>>

ServerLock ==
    /\ spc = "lock"
    /\ lock = "none"
    /\ lock' = "server"
    /\ spc' = "disconnect"
    /\ UNCHANGED <<netVars, sockVars, listenVars, tableVars, incoming, threadVars, sd,
                   disposalVars, served>>

\* The ClientThread goes to waste disposal and out of the map.
StopAndCleanUpClientThread(n) ==
    /\ old' = Append(old, threads[n])
    /\ pushEvent' = TRUE
    /\ threads' = [threads EXCEPT ![n] = NoConn]

\* The base class's part: the name leaves the tables, the socket is closed and deleted, and
\* the database is told.
BaseOnClientDisconnect(c) ==
    /\ s2c' = [s2c EXCEPT ![fd[c]] = NoName]
    /\ asyncSet' = asyncSet \ {s2c[fd[c]]}
    /\ sock' = [sock EXCEPT ![c] = "closed"]
    /\ served' = served \ {s2c[fd[c]]}

OnClientDisconnect ==
    LET c == threads[sd.name]
    IN  /\ spc = "disconnect"
        /\ c # NoConn
        /\ StopAndCleanUpClientThread(sd.name)
        /\ BaseOnClientDisconnect(c)
        /\ sockList' = sockList \ {c}
        /\ lock' = "none"
        /\ spc' = "idle"
        /\ sd' = NoItem
        /\ UNCHANGED <<netVars, fd, listenVars, incoming, threadVars, wpc, wconn, destroyed>>

-------------------------------------------------------------------------------
(* The waste disposal thread: WasteDisposalLoop, ClientThread::Kill        *)

\* Mutant: the thread goes on although the wait has timed out.
WokenOrNot == TRUE

\* WaitForPush returns true.
Woken == pushEvent

\* The event resets itself; it is polled once a second.
DisposalWakes ==
    /\ wpc = "wait"
    /\ Woken
    /\ pushEvent' = FALSE
    /\ wpc' = "pull"
    /\ UNCHANGED <<netVars, sockVars, lock, listenVars, tableVars, incoming, threadVars,
                   serverVars, old, wconn, destroyed, served>>

\* Pull resets the event; the last pointer to the ClientThread goes out of scope and its
\* destructor tells the writer to stop.
DisposalPulls ==
    /\ wpc = "pull"
    /\ old # <<>>
    /\ pushEvent' = FALSE
    /\ wconn' = Head(old)
    /\ old' = Tail(old)
    /\ outgoing' = IF async[Head(old)]
                   THEN [outgoing EXCEPT ![Head(old)] = Append(@, "STOP_THREAD")]
                   ELSE outgoing
    /\ wpc' = "join"
    /\ UNCHANGED <<netVars, sockVars, lock, listenVars, tableVars, incoming, async, reader,
                   writer, serverVars, destroyed, served>>

\* Both threads have been joined.
DisposalDestroys ==
    /\ wpc = "join"
    /\ reader[wconn] = "done"
    /\ writer[wconn] \in {"none", "done"}
    /\ destroyed' = destroyed \cup {wconn}
    /\ wpc' = "wait"
    /\ wconn' = NoConn
    /\ UNCHANGED <<netVars, sockVars, lock, listenVars, tableVars, incoming, threadVars,
                   serverVars, old, pushEvent, served>>

-------------------------------------------------------------------------------

Init ==
    /\ peer = [c \in Conns |-> "absent"]
    /\ sent = [c \in Conns |-> 0]
    /\ unread = [c \in Conns |-> 0]
    /\ sock = [c \in Conns |-> "none"]
    /\ fd = [c \in Conns |-> NoFd]
    /\ lock = "none"
    /\ lpc = "accept" /\ lconn = NoConn
    /\ s2c = [f \in Fds |-> NoName]
    /\ asyncSet = {}
    /\ threads = [n \in Names |-> NoConn]
    /\ sockList = {}
    /\ incoming = <<>>
    /\ outgoing = [c \in Conns |-> <<>>]
    /\ async = [c \in Conns |-> FALSE]
    /\ reader = [c \in Conns |-> "none"]
    /\ writer = [c \in Conns |-> "none"]
    /\ spc = "idle" /\ sd = NoItem
    /\ old = <<>> /\ pushEvent = FALSE
    /\ wpc = "wait" /\ wconn = NoConn
    /\ destroyed = {}
    /\ served = {}

Client(c) == ClientConnect(c) \/ ClientSend(c) \/ ClientGoes(c)

ListenLoop ==
    \/ \E c \in Conns, f \in Fds : Accept(c, f)
    \/ ListenLock
    \/ HandShakeFails \/ HandShakeThrows \/ HandShakePoisons \/ HandShakeNames
    \/ WelcomeFails \/ Welcome
    \/ AddAndStartClientThread

Reader(c) ==
    \/ ReadPkt(c) \/ ReadFails(c) \/ ClientTimeout(c) \/ SelectFails(c)
    \/ AnswerClient(c) \/ ReportClosed(c) \/ TellWriter(c)

Writer(c) == WriterPull(c) \/ WriterSend(c) \/ WriterSendFails(c) \/ WriterQuits(c)

ServerLoop ==
    \/ ServerPull \/ ProcessClient \/ ProcessNothing \/ FetchAllMail
    \/ ServerLock \/ OnClientDisconnect

WasteDisposalLoop == DisposalWakes \/ DisposalPulls \/ DisposalDestroys

Next ==
    \/ \E c \in Conns : Client(c) \/ Reader(c) \/ Writer(c)
    \/ ListenLoop \/ ServerLoop \/ WasteDisposalLoop

Spec == Init /\ [][Next]_vars

\* Every thread that can go on eventually does.  The clients owe nothing.
Fairness ==
    /\ WF_vars(ListenLoop)
    /\ WF_vars(ServerLoop)
    /\ WF_vars(WasteDisposalLoop)
    /\ \A c \in Conns : WF_vars(Reader(c)) /\ WF_vars(Writer(c))

FairSpec == Spec /\ Fairness

-------------------------------------------------------------------------------
(* Properties                                                              *)

TypeOK ==
    /\ peer \in [Conns -> {"absent", "open", "gone"}]
    /\ sent \in [Conns -> Nat]
    /\ unread \in [Conns -> Nat]
    /\ sock \in [Conns -> {"none", "open", "closed"}]
    /\ fd \in [Conns -> Fds \cup {NoFd}]
    /\ lock \in {"none", "listen", "server"}
    /\ lpc \in {"accept", "lock", "handshake", "welcome", "add"}
    /\ lconn \in Conns \cup {NoConn}
    /\ s2c \in [Fds -> Names \cup {NoName}]
    /\ asyncSet \subseteq Names
    /\ threads \in [Names -> Conns \cup {NoConn}]
    /\ sockList \subseteq Conns
    /\ incoming \in Seq(Item)
    /\ outgoing \in [Conns -> Seq({"PKT_WRITE", "CONNECTION_CLOSED", "STOP_THREAD"})]
    /\ async \in [Conns -> BOOLEAN]
    /\ reader \in [Conns -> {"none", "select", "wait", "close", "tell", "done"}]
    /\ writer \in [Conns -> {"none", "idle", "send", "done"}]
    /\ spc \in {"idle", "process", "fetch", "lock", "disconnect"}
    /\ sd \in Item \cup {NoItem}
    /\ old \in Seq(Conns)
    /\ pushEvent \in BOOLEAN
    /\ wpc \in {"wait", "pull", "join"}
    /\ wconn \in Conns \cup {NoConn}
    /\ destroyed \subseteq Conns
    /\ served \subseteq Names

\* What the server thread has taken from the list, and what waits there.
Pending(item) == item = sd \/ \E i \in DOMAIN incoming : item = incoming[i]

\* FromThePresent: whatever the server thread handles or will handle comes from the
\* connection that m_ClientThreads has for the name it carries, so that a packet is never
\* taken for one of a later client of the same name, never meets a "logical error", and
\* OnClientDisconnect never closes the connection of somebody else.
FromThePresent ==
    \A c \in Conns : \A st \in {"PKT_READ", "CONNECTION_CLOSED"} :
        Pending(Up(c, st)) => threads[ClientName[c]] = c

\* TablesAgree: m_ClientThreads, m_Socket2ClientMap, m_ClientSocketList and what the database
\* was told (connect and disconnect callbacks) name the same clients, each with an open
\* socket; a name accepted by the handshake is never found in use when its thread is made.
TablesAgree ==
    /\ \A n \in Names : threads[n] # NoConn =>
           /\ ClientName[threads[n]] = n
           /\ sock[threads[n]] = "open"
           /\ s2c[fd[threads[n]]] = n
           /\ threads[n] \in sockList
    /\ \A c \in sockList : threads[ClientName[c]] = c
    /\ lpc = "add" => threads[ClientName[lconn]] = NoConn
    /\ served = {n \in Names : threads[n] # NoConn \/ (lpc = "add" /\ ClientName[lconn] = n)}

\* EventMeansWork: the waste disposal thread is woken only when there is a ClientThread to
\* destroy, so what it pulls is never the null pointer it then uses (WasteDisposalLoop).
EventMeansWork == pushEvent \/ wpc = "pull" => old # <<>>

\* DepartedAreDropped: a connection whose client has gone is eventually taken out of
\* m_ClientThreads and the database told, whatever its threads were doing.
DepartedAreDropped ==
    \A c \in Conns :
        (peer[c] = "gone" /\ threads[ClientName[c]] = c) ~> threads[ClientName[c]] # c

\* ClientsAreAnswered: a synchronous client that has sent a packet is eventually answered:
\* its reader does not wait for ever (HandleClientWrite, ProcessClient).
ClientsAreAnswered ==
    \A c \in Conns : reader[c] = "wait" ~> reader[c] # "wait"

\* UniqueNameMeansNoConnection: IsUniqueName is false only of a name the server has a
\* connection to.
UniqueNameMeansNoConnection ==
    \A n \in Names : ~IsUniqueName(n) => \E c \in Conns : ClientName[c] = n /\ sock[c] = "open"

\* WritesOnlyToOpenSockets: a writer thread uses its socket only before OnClientDisconnect
\* closes and deletes it.
WritesOnlyToOpenSockets ==
    \A c \in Conns : writer[c] = "send" => sock[c] = "open"

\* OldThreadsAreDestroyed: every ClientThread handed to waste disposal is eventually deleted.
OldThreadsAreDestroyed ==
    \A c \in Conns : (\E i \in DOMAIN old : old[i] = c) ~> c \in destroyed

===============================================================================
