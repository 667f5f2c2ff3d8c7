----------------------- MODULE ThreadedCommServerProofs -----------------------
(***************************************************************************)
(* Proofs about ThreadedCommServer for every set of connections, names and *)
(* descriptors, and whatever connections may fail in whatever way.         *)
(***************************************************************************)
EXTENDS ThreadedCommServer, TLAPS

\* The listen thread holds m_SocketListLock from ListenLock on, the server thread while it
\* handles a disconnection.
LockOK ==
    /\ lpc \in {"handshake", "welcome", "add"} => lock = "listen"
    /\ spc = "disconnect" => lock = "server"

\* The connection the listen thread works on is open and nobody serves it yet; once HandShake
\* has taken its name, the name is in m_Socket2ClientMap and not in m_ClientThreads.
ListenOK ==
    /\ lpc # "accept" => lconn \in Conns /\ sock[lconn] = "open" /\ reader[lconn] = "none"
    /\ lpc \in {"welcome", "add"} =>
           /\ s2c[fd[lconn]] = ClientName[lconn]
           /\ threads[ClientName[lconn]] = NoConn

\* Open sockets have descriptors, and different ones.
FdOK ==
    /\ \A c \in Conns : sock[c] = "open" => fd[c] \in Fds
    /\ \A c, d \in Conns : sock[c] = "open" /\ sock[d] = "open" /\ fd[c] = fd[d] => c = d

\* A reader that has not yet reported that its connection is closed is the one in
\* m_ClientThreads, and who is in that map has been started.
ReaderOK ==
    /\ \A c \in Conns : sock[c] = "none" => reader[c] = "none"
    /\ \A c \in Conns : reader[c] \in {"select", "wait", "close"} => threads[ClientName[c]] = c
    /\ \A n \in Names : threads[n] # NoConn => reader[threads[n]] # "none"

\* What the server thread is doing says what it has in its hand.
ServerOK ==
    /\ spc = "idle" => sd = NoItem
    /\ spc \in {"process", "fetch"} => sd \in Item /\ sd.status = "PKT_READ"
    /\ spc \in {"lock", "disconnect"} => sd \in Item /\ sd.status = "CONNECTION_CLOSED"

\* An item carries the name of the connection it is from, which is the one m_ClientThreads
\* has for the name.
Present(item) == item.name = ClientName[item.from] /\ threads[item.name] = item.from

\* The report of a closed connection is the last its reader pushes.
Final(item) == item.status = "CONNECTION_CLOSED" => reader[item.from] \in {"tell", "done"}

ItemsOK ==
    /\ \A i \in DOMAIN incoming : Present(incoming[i]) /\ Final(incoming[i])
    /\ \A i, j \in DOMAIN incoming :
           i < j /\ incoming[i].status = "CONNECTION_CLOSED" => incoming[j].from # incoming[i].from

HandOK ==
    spc # "idle" =>
        /\ Present(sd) /\ Final(sd)
        /\ sd.status = "CONNECTION_CLOSED" => \A j \in DOMAIN incoming : incoming[j].from # sd.from

\* The waste disposal thread joins the threads of a connection.
DisposalOK == wpc = "join" => wconn \in Conns

\* The inductive invariant.
ServerInv ==
    /\ TypeOK
    /\ LockOK /\ ListenOK /\ FdOK /\ ReaderOK /\ ServerOK /\ ItemsOK /\ HandOK /\ DisposalOK
    /\ TablesAgree
    /\ EventMeansWork

-------------------------------------------------------------------------------
(* Types                                                                   *)

NetType ==
    /\ peer \in [Conns -> {"absent", "open", "gone"}]
    /\ sent \in [Conns -> Nat]
    /\ unread \in [Conns -> Nat]
    /\ sock \in [Conns -> {"none", "open", "closed"}]
    /\ fd \in [Conns -> Fds \cup {NoFd}]

TableType ==
    /\ lock \in {"none", "listen", "server"}
    /\ lpc \in {"accept", "lock", "handshake", "welcome", "add"}
    /\ lconn \in Conns \cup {NoConn}
    /\ s2c \in [Fds -> Names \cup {NoName}]
    /\ asyncSet \subseteq Names
    /\ threads \in [Names -> Conns \cup {NoConn}]
    /\ sockList \subseteq Conns
    /\ served \subseteq Names

ThreadType ==
    /\ incoming \in Seq(Item)
    /\ outgoing \in [Conns -> Seq({"PKT_WRITE", "CONNECTION_CLOSED", "STOP_THREAD"})]
    /\ async \in [Conns -> BOOLEAN]
    /\ reader \in [Conns -> {"none", "select", "wait", "close", "tell", "done"}]
    /\ writer \in [Conns -> {"none", "idle", "send", "done"}]

ServerType ==
    /\ spc \in {"idle", "process", "fetch", "lock", "disconnect"}
    /\ sd \in Item \cup {NoItem}
    /\ old \in Seq(Conns)
    /\ pushEvent \in BOOLEAN
    /\ wpc \in {"wait", "pull", "join"}
    /\ wconn \in Conns \cup {NoConn}
    /\ destroyed \subseteq Conns

Types == NetType /\ TableType /\ ThreadType /\ ServerType

\* Every step leaves the state well typed.
LEMMA TypeStep == TypeOK /\ ListenOK /\ ServerOK /\ DisposalOK /\ [Next]_vars => TypeOK'
<1> SUFFICES ASSUME NetType, TableType, ThreadType, ServerType, ListenOK, ServerOK, DisposalOK,
                    [Next]_vars
             PROVE  Types'
  BY DEF TypeOK, Types, NetType, TableType, ThreadType, ServerType
<1> USE ConnsAssumption DEF netVars, sockVars, listenVars, tableVars, threadVars, serverVars,
                            disposalVars
<1>1. ASSUME NEW c \in Conns, ClientConnect(c) PROVE Types'
  <2>1. TableType' /\ ThreadType' /\ ServerType'
    BY <1>1 DEF TableType, ThreadType, ServerType, ClientConnect
  <2>2. NetType'
    BY <1>1 DEF NetType, ClientConnect
  <2> QED BY <2>1, <2>2 DEF Types
<1>2. ASSUME NEW c \in Conns, ClientSend(c) PROVE Types'
  <2>1. TableType' /\ ThreadType' /\ ServerType'
    BY <1>2 DEF TableType, ThreadType, ServerType, ClientSend
  <2>2. NetType'
    BY <1>2 DEF NetType, ClientSend
  <2> QED BY <2>1, <2>2 DEF Types
<1>3. ASSUME NEW c \in Conns, ClientGoes(c) PROVE Types'
  <2>1. TableType' /\ ThreadType' /\ ServerType'
    BY <1>3 DEF TableType, ThreadType, ServerType, ClientGoes
  <2>2. NetType'
    BY <1>3 DEF NetType, ClientGoes
  <2> QED BY <2>1, <2>2 DEF Types
<1>4. ASSUME NEW c \in Conns, NEW f \in Fds, Accept(c, f) PROVE Types'
  <2>1. ThreadType' /\ ServerType'
    BY <1>4 DEF ThreadType, ServerType, Accept
  <2>2. NetType'
    BY <1>4 DEF NetType, Accept
  <2>3. TableType'
    BY <1>4 DEF TableType, Accept
  <2> QED BY <2>1, <2>2, <2>3 DEF Types
<1>5. ASSUME ListenLock PROVE Types'
  <2>1. NetType' /\ ThreadType' /\ ServerType'
    BY <1>5 DEF NetType, ThreadType, ServerType, ListenLock
  <2>2. TableType'
    BY <1>5 DEF TableType, ListenLock
  <2> QED BY <2>1, <2>2 DEF Types
<1>6. ASSUME HandShakeFails PROVE Types'
  <2>1. ThreadType' /\ ServerType'
    BY <1>6 DEF ThreadType, ServerType, HandShakeFails
  <2>2. NetType'
    BY <1>6 DEF NetType, HandShakeFails, Spurn
  <2>3. TableType'
    BY <1>6 DEF TableType, HandShakeFails, Spurn
  <2> QED BY <2>1, <2>2, <2>3 DEF Types
<1>7. ASSUME HandShakeThrows PROVE Types'
  <2>1. NetType' /\ ThreadType' /\ ServerType'
    BY <1>7 DEF NetType, ThreadType, ServerType, HandShakeThrows
  <2>2. TableType'
    BY <1>7 DEF TableType, HandShakeThrows
  <2> QED BY <2>1, <2>2 DEF Types
<1>8. ASSUME HandShakePoisons PROVE Types'
  <2>1. ThreadType' /\ ServerType'
    BY <1>8 DEF ThreadType, ServerType, HandShakePoisons
  <2>2. NetType'
    BY <1>8 DEF NetType, HandShakePoisons, Spurn
  <2>3. TableType'
    BY <1>8 DEF TableType, HandShakePoisons, Spurn
  <2> QED BY <2>1, <2>2, <2>3 DEF Types
<1>9. ASSUME HandShakeNames PROVE Types'
  <2>1. NetType' /\ ThreadType' /\ ServerType'
    BY <1>9 DEF NetType, ThreadType, ServerType, HandShakeNames
  <2>2. TableType'
    BY <1>9 DEF TableType, HandShakeNames, ListenOK
  <2> QED BY <2>1, <2>2 DEF Types
<1>10. ASSUME WelcomeFails PROVE Types'
  <2>1. ThreadType' /\ ServerType'
    BY <1>10 DEF ThreadType, ServerType, WelcomeFails
  <2>2. NetType'
    BY <1>10 DEF NetType, WelcomeFails, Spurn
  <2>3. TableType'
    BY <1>10 DEF TableType, WelcomeFails, Spurn
  <2> QED BY <2>1, <2>2, <2>3 DEF Types
<1>11. ASSUME Welcome PROVE Types'
  <2>1. NetType' /\ ThreadType' /\ ServerType'
    BY <1>11 DEF NetType, ThreadType, ServerType, Welcome
  <2>2. TableType'
    BY <1>11 DEF TableType, Welcome, ListenOK
  <2> QED BY <2>1, <2>2 DEF Types
<1>12. ASSUME AddAndStartClientThread PROVE Types'
  <2>1. NetType' /\ ServerType'
    BY <1>12 DEF NetType, ServerType, AddAndStartClientThread
  <2>2. TableType'
    BY <1>12 DEF TableType, AddAndStartClientThread, ListenOK
  <2>3. ThreadType'
    <3>1. CASE threads[ClientName[lconn]] = NoConn
      <4>1. async' = [async EXCEPT ![lconn] = ClientName[lconn] \in asyncSet]
        BY <1>12, <3>1 DEF AddAndStartClientThread
      <4>2. async' \in [Conns -> BOOLEAN]
        <5>1. \A b \in BOOLEAN : [async EXCEPT ![lconn] = b] \in [Conns -> BOOLEAN]
          BY DEF ThreadType
        <5>2. (ClientName[lconn] \in asyncSet) \in BOOLEAN
          OBVIOUS
        <5> QED BY <4>1, <5>1, <5>2, Zenon
      <4>3. reader' \in [Conns -> {"none", "select", "wait", "close", "tell", "done"}]
        BY <1>12, <3>1 DEF ThreadType, AddAndStartClientThread
      <4>4. writer' \in [Conns -> {"none", "idle", "send", "done"}]
        BY <1>12, <3>1 DEF ThreadType, AddAndStartClientThread
      <4>5. UNCHANGED <<incoming, outgoing>>
        BY <1>12 DEF AddAndStartClientThread
      <4> QED BY <4>2, <4>3, <4>4, <4>5 DEF ThreadType
    <3>2. CASE threads[ClientName[lconn]] # NoConn
      BY <1>12, <3>2 DEF ThreadType, AddAndStartClientThread
    <3> QED BY <3>1, <3>2
  <2> QED BY <2>1, <2>2, <2>3 DEF Types
<1>13. ASSUME NEW c \in Conns, ReadPkt(c) PROVE Types'
  <2>1. TableType' /\ ServerType'
    BY <1>13 DEF TableType, ServerType, ReadPkt
  <2>2. NetType'
    BY <1>13 DEF NetType, ReadPkt, Readable, Up, Item
  <2>3. ThreadType'
    BY <1>13 DEF ThreadType, ReadPkt, Readable, Up, Item
  <2> QED BY <2>1, <2>2, <2>3 DEF Types
<1>14. ASSUME NEW c \in Conns, ReadFails(c) PROVE Types'
  <2>1. NetType' /\ TableType' /\ ServerType'
    <3>1. NetType'
      BY <1>14 DEF NetType, ReadFails
    <3>2. TableType'
      BY <1>14 DEF TableType, ReadFails
    <3>3. ServerType'
      BY <1>14 DEF ServerType, ReadFails
    <3> QED BY <3>1, <3>2, <3>3
  <2>2. ThreadType'
    BY <1>14 DEF ThreadType, ReadFails, ReaderReports
  <2> QED BY <2>1, <2>2 DEF Types
<1>15. ASSUME NEW c \in Conns, ClientTimeout(c) PROVE Types'
  <2>1. NetType' /\ TableType' /\ ServerType'
    BY <1>15 DEF NetType, TableType, ServerType, ClientTimeout
  <2>2. ThreadType'
    BY <1>15 DEF ThreadType, ClientTimeout, ReaderReports
  <2> QED BY <2>1, <2>2 DEF Types
<1>16. ASSUME NEW c \in Conns, SelectFails(c) PROVE Types'
  <2>1. NetType' /\ TableType' /\ ServerType'
    <3>1. NetType'
      BY <1>16 DEF NetType, SelectFails
    <3>2. TableType'
      BY <1>16 DEF TableType, SelectFails
    <3>3. ServerType'
      BY <1>16 DEF ServerType, SelectFails
    <3> QED BY <3>1, <3>2, <3>3
  <2>2. ThreadType'
    BY <1>16 DEF ThreadType, SelectFails
  <2> QED BY <2>1, <2>2 DEF Types
<1>17. ASSUME NEW c \in Conns, AnswerClient(c) PROVE Types'
  <2>1. NetType' /\ TableType' /\ ServerType'
    BY <1>17 DEF NetType, TableType, ServerType, AnswerClient
  <2>2. ThreadType'
    <3>1. outgoing' \in [Conns -> Seq({"PKT_WRITE", "CONNECTION_CLOSED", "STOP_THREAD"})]
      BY <1>17 DEF ThreadType, AnswerClient
    <3>2. reader' \in [Conns -> {"none", "select", "wait", "close", "tell", "done"}]
      BY <1>17 DEF ThreadType, AnswerClient
    <3>3. UNCHANGED <<incoming, async, writer>>
      BY <1>17 DEF AnswerClient
    <3> QED BY <3>1, <3>2, <3>3 DEF ThreadType
  <2> QED BY <2>1, <2>2 DEF Types
<1>18. ASSUME NEW c \in Conns, ReportClosed(c) PROVE Types'
  <2>1. NetType' /\ TableType' /\ ServerType'
    BY <1>18 DEF NetType, TableType, ServerType, ReportClosed
  <2>2. ThreadType'
    BY <1>18 DEF ThreadType, ReportClosed, AfterReport, Up, Item
  <2> QED BY <2>1, <2>2 DEF Types
<1>19. ASSUME NEW c \in Conns, TellWriter(c) PROVE Types'
  <2>1. NetType' /\ TableType' /\ ServerType'
    BY <1>19 DEF NetType, TableType, ServerType, TellWriter
  <2>2. ThreadType'
    BY <1>19 DEF ThreadType, TellWriter
  <2> QED BY <2>1, <2>2 DEF Types
<1>20. ASSUME NEW c \in Conns, WriterPull(c) PROVE Types'
  <2>1. NetType' /\ TableType' /\ ServerType'
    <3>1. NetType'
      BY <1>20 DEF NetType, WriterPull
    <3>2. TableType'
      BY <1>20 DEF TableType, WriterPull
    <3>3. ServerType'
      BY <1>20 DEF ServerType, WriterPull
    <3> QED BY <3>1, <3>2, <3>3
  <2>2. ThreadType'
    BY <1>20 DEF ThreadType, WriterPull
  <2> QED BY <2>1, <2>2 DEF Types
<1>21. ASSUME NEW c \in Conns, WriterSend(c) PROVE Types'
  <2>1. NetType' /\ TableType' /\ ServerType'
    BY <1>21 DEF NetType, TableType, ServerType, WriterSend
  <2>2. ThreadType'
    BY <1>21 DEF ThreadType, WriterSend
  <2> QED BY <2>1, <2>2 DEF Types
<1>22. ASSUME NEW c \in Conns, WriterSendFails(c) PROVE Types'
  <2>1. NetType' /\ TableType' /\ ServerType'
    <3>1. NetType'
      BY <1>22 DEF NetType, WriterSendFails
    <3>2. TableType'
      BY <1>22 DEF TableType, WriterSendFails
    <3>3. ServerType'
      BY <1>22 DEF ServerType, WriterSendFails
    <3> QED BY <3>1, <3>2, <3>3
  <2>2. ThreadType'
    BY <1>22 DEF ThreadType, WriterSendFails
  <2> QED BY <2>1, <2>2 DEF Types
<1>23. ASSUME NEW c \in Conns, WriterQuits(c) PROVE Types'
  <2>1. NetType' /\ TableType' /\ ServerType'
    BY <1>23 DEF NetType, TableType, ServerType, WriterQuits
  <2>2. ThreadType'
    BY <1>23 DEF ThreadType, WriterQuits
  <2> QED BY <2>1, <2>2 DEF Types
<1>24. ASSUME ServerPull PROVE Types'
  <2>1. NetType' /\ TableType'
    BY <1>24 DEF NetType, TableType, ServerPull
  <2>2. ThreadType'
    BY <1>24 DEF ThreadType, ServerPull
  <2>3. ServerType'
    <3>1. Head(incoming) \in Item
      BY <1>24 DEF ThreadType, ServerPull
    <3>2. UNCHANGED <<old, pushEvent, wpc, wconn, destroyed>>
      BY <1>24 DEF ServerPull
    <3> QED BY <1>24, <3>1, <3>2 DEF ServerType, ServerPull
  <2> QED BY <2>1, <2>2, <2>3 DEF Types
<1>25. ASSUME ProcessClient PROVE Types'
  <2>1. NetType' /\ TableType'
    BY <1>25 DEF NetType, TableType, ProcessClient
  <2>2. ThreadType'
    <3>1. outgoing' \in [Conns -> Seq({"PKT_WRITE", "CONNECTION_CLOSED", "STOP_THREAD"})]
      <4>0. threads[sd.name] \in Conns
        BY <1>25 DEF ProcessClient, ServerOK, Item, TableType
      <4>1. CASE outgoing' = [outgoing EXCEPT ![threads[sd.name]] = Append(@, "PKT_WRITE")]
        BY <4>0, <4>1 DEF ThreadType
      <4>2. CASE UNCHANGED outgoing
        BY <4>2 DEF ThreadType
      <4> QED BY <1>25, <4>1, <4>2 DEF ProcessClient
    <3>2. UNCHANGED <<incoming, async, reader, writer>>
      BY <1>25 DEF ProcessClient
    <3> QED BY <3>1, <3>2 DEF ThreadType
  <2>3. ServerType'
    BY <1>25 DEF ServerType, ProcessClient, MayStaySilent
  <2> QED BY <2>1, <2>2, <2>3 DEF Types
<1>26. ASSUME ProcessNothing PROVE Types'
  <2>1. NetType' /\ TableType' /\ ThreadType'
    BY <1>26 DEF NetType, TableType, ThreadType, ProcessNothing
  <2>2. ServerType'
    BY <1>26 DEF ServerType, ProcessNothing
  <2> QED BY <2>1, <2>2 DEF Types
<1>27. ASSUME FetchAllMail PROVE Types'
  <2>1. NetType' /\ TableType'
    BY <1>27 DEF NetType, TableType, FetchAllMail
  <2>2. ThreadType'
    BY <1>27 DEF ThreadType, FetchAllMail, AsyncClients
  <2>3. ServerType'
    BY <1>27 DEF ServerType, FetchAllMail, AsyncClients
  <2> QED BY <2>1, <2>2, <2>3 DEF Types
<1>28. ASSUME ServerLock PROVE Types'
  <2>1. NetType' /\ ThreadType'
    BY <1>28 DEF NetType, ThreadType, ServerLock
  <2>2. TableType'
    BY <1>28 DEF TableType, ServerLock
  <2>3. ServerType'
    BY <1>28 DEF ServerType, ServerLock
  <2> QED BY <2>1, <2>2, <2>3 DEF Types
<1>29. ASSUME OnClientDisconnect PROVE Types'
  <2>1. ThreadType'
    BY <1>29 DEF ThreadType, OnClientDisconnect, StopAndCleanUpClientThread, BaseOnClientDisconnect
  <2>2. NetType'
    BY <1>29 DEF NetType, OnClientDisconnect, StopAndCleanUpClientThread, BaseOnClientDisconnect,
       ServerOK, Item
  <2>3. TableType'
    BY <1>29 DEF TableType, OnClientDisconnect, StopAndCleanUpClientThread,
       BaseOnClientDisconnect, ServerOK, Item
  <2>4. ServerType'
    <3>1. threads[sd.name] \in Conns
      BY <1>29 DEF OnClientDisconnect, TableType, ServerOK, Item
    <3>2. old' \in Seq(Conns)
      BY <1>29, <3>1 DEF ServerType, OnClientDisconnect, StopAndCleanUpClientThread
    <3>3. pushEvent' = TRUE /\ spc' = "idle" /\ sd' = NoItem /\ UNCHANGED <<wpc, wconn, destroyed>>
      BY <1>29 DEF OnClientDisconnect, StopAndCleanUpClientThread
    <3> QED BY <3>2, <3>3 DEF ServerType
  <2> QED BY <2>1, <2>2, <2>3, <2>4 DEF Types
<1>30. ASSUME DisposalWakes PROVE Types'
  <2>1. NetType' /\ TableType' /\ ThreadType'
    BY <1>30 DEF NetType, TableType, ThreadType, DisposalWakes
  <2>2. ServerType'
    BY <1>30 DEF ServerType, DisposalWakes
  <2> QED BY <2>1, <2>2 DEF Types
<1>31. ASSUME DisposalPulls PROVE Types'
  <2>1. NetType' /\ TableType'
    BY <1>31 DEF NetType, TableType, DisposalPulls
  <2>2. ThreadType'
    <3>1. outgoing' \in [Conns -> Seq({"PKT_WRITE", "CONNECTION_CLOSED", "STOP_THREAD"})]
      <4>1. CASE async[Head(old)]
        <5>1. outgoing' = [outgoing EXCEPT ![Head(old)] = Append(@, "STOP_THREAD")]
          BY <1>31, <4>1 DEF DisposalPulls
        <5>2. Head(old) \in Conns
          BY <1>31 DEF DisposalPulls, ServerType
        <5> QED BY <5>1, <5>2 DEF ThreadType
      <4>2. CASE ~async[Head(old)]
        BY <1>31, <4>2 DEF ThreadType, DisposalPulls
      <4> QED BY <4>1, <4>2
    <3>2. UNCHANGED <<incoming, async, reader, writer>>
      BY <1>31 DEF DisposalPulls
    <3> QED BY <3>1, <3>2 DEF ThreadType
  <2>3. ServerType'
    <3>1. Head(old) \in Conns /\ Tail(old) \in Seq(Conns)
      BY <1>31 DEF ServerType, DisposalPulls
    <3>2. pushEvent' = FALSE /\ wpc' = "join" /\ wconn' = Head(old) /\ old' = Tail(old)
      BY <1>31 DEF DisposalPulls
    <3>3. UNCHANGED <<spc, sd, destroyed>>
      BY <1>31 DEF DisposalPulls
    <3> QED BY <3>1, <3>2, <3>3 DEF ServerType
  <2> QED BY <2>1, <2>2, <2>3 DEF Types
<1>32. ASSUME DisposalDestroys PROVE Types'
  <2>1. NetType' /\ TableType' /\ ThreadType'
    BY <1>32 DEF NetType, TableType, ThreadType, DisposalDestroys
  <2>2. ServerType'
    BY <1>32 DEF ServerType, DisposalDestroys, DisposalOK
  <2> QED BY <2>1, <2>2 DEF Types
<1>33. ASSUME UNCHANGED vars PROVE Types'
  BY <1>33 DEF Types, NetType, TableType, ThreadType, ServerType, vars
<1> QED
  BY <1>1, <1>2, <1>3, <1>4, <1>5, <1>6, <1>7, <1>8, <1>9, <1>10, <1>11, <1>12, <1>13, <1>14,
     <1>15, <1>16, <1>17, <1>18, <1>19, <1>20, <1>21, <1>22, <1>23, <1>24, <1>25, <1>26, <1>27,
     <1>28, <1>29, <1>30, <1>31, <1>32, <1>33
     DEF Next, Client, ListenLoop, Reader, Writer, ServerLoop, WasteDisposalLoop

-------------------------------------------------------------------------------
(* The invariant                                                           *)

\* The variables the invariant is about, beside their types.
tcsSupport == <<sock, fd, lock, lpc, lconn, s2c, threads, sockList, served, incoming, reader,
                spc, sd, old, pushEvent, wpc, wconn>>

\* A step that changes none of those variables keeps it.
LEMMA QuietStep ==
    ASSUME ServerInv, TypeOK', UNCHANGED tcsSupport
    PROVE  ServerInv'
<1>1. LockOK' /\ ListenOK' /\ FdOK' /\ ReaderOK'
  BY DEF ServerInv, tcsSupport, LockOK, ListenOK, FdOK, ReaderOK
<1>2. ServerOK' /\ ItemsOK' /\ HandOK' /\ DisposalOK'
  BY DEF ServerInv, tcsSupport, ServerOK, ItemsOK, HandOK, DisposalOK, Present, Final
<1>3. TablesAgree' /\ EventMeansWork'
  BY DEF ServerInv, tcsSupport, TablesAgree, EventMeansWork
<1> QED BY <1>1, <1>2, <1>3 DEF ServerInv

\* A reader that goes from select or wait to select, close or done, or that has told its
\* writer, keeps the invariant.
LEMMA ReaderStep ==
    ASSUME ServerInv, TypeOK', NEW c \in Conns, NEW s,
           reader' = [reader EXCEPT ![c] = s],
           \/ reader[c] \in {"select", "wait"} /\ s \in {"select", "close", "done"}
           \/ reader[c] = "tell" /\ s = "done",
           UNCHANGED <<sock, fd, lock, lpc, lconn, s2c, threads, sockList, served, incoming,
                       spc, sd, old, pushEvent, wpc, wconn>>
    PROVE  ServerInv'
<1>0. reader \in [Conns -> {"none", "select", "wait", "close", "tell", "done"}] /\ reader'[c] = s
      /\ \A d \in Conns \ {c} : reader'[d] = reader[d]
  BY DEF ServerInv, TypeOK
<1>1. LockOK' /\ ListenOK' /\ FdOK' /\ ServerOK' /\ DisposalOK'
  BY <1>0 DEF ServerInv, LockOK, ListenOK, FdOK, ServerOK, DisposalOK
<1>2. ReaderOK'
  <2>1. threads \in [Names -> Conns \cup {NoConn}]
    BY DEF ServerInv, TypeOK
  <2>2. ReaderOK
    BY DEF ServerInv
  <2>3. \A n \in Names : threads[n] # NoConn => reader'[threads[n]] # "none"
    BY <1>0, <2>1, <2>2 DEF ReaderOK
  <2>4. \A d \in Conns : sock[d] = "none" => reader'[d] = "none"
    BY <1>0, <2>2 DEF ReaderOK
  <2>5. \A d \in Conns : reader'[d] \in {"select", "wait", "close"} => threads[ClientName[d]] = d
    BY <1>0, <2>2 DEF ReaderOK
  <2> QED BY <2>3, <2>4, <2>5 DEF ReaderOK
<1>3. TablesAgree' /\ EventMeansWork'
  BY DEF ServerInv, TablesAgree, EventMeansWork
<1>4. ASSUME NEW it, it \in Item, Final(it) PROVE Final(it)'
  BY <1>0, <1>4 DEF Final, Item
<1>5. ItemsOK'
  <2>1. \A i \in DOMAIN incoming : incoming[i] \in Item
    BY DEF ServerInv, TypeOK
  <2>2. \A i \in DOMAIN incoming : Final(incoming[i])'
    BY <1>4, <2>1 DEF ServerInv, ItemsOK
  <2> QED BY <2>2 DEF ServerInv, ItemsOK, Present
<1>6. HandOK'
  <2>1. spc # "idle" => sd \in Item
    BY DEF ServerInv, ServerOK, TypeOK
  <2> QED BY <1>4, <2>1 DEF ServerInv, HandOK, Present
<1> QED BY <1>1, <1>2, <1>3, <1>5, <1>6 DEF ServerInv

\* A reader that pushes an item of its own, and has not yet reported the connection closed.
LEMMA PushStep ==
    ASSUME ServerInv, TypeOK', NEW c \in Conns,
           \/ /\ reader[c] = "select"
              /\ incoming' = Append(incoming, Up(c, "PKT_READ"))
              /\ \E s \in {"select", "wait"} : reader' = [reader EXCEPT ![c] = s]
           \/ /\ reader[c] = "close"
              /\ incoming' = Append(incoming, Up(c, "CONNECTION_CLOSED"))
              /\ \E s \in {"tell", "done"} : reader' = [reader EXCEPT ![c] = s],
           UNCHANGED <<sock, fd, lock, lpc, lconn, s2c, threads, sockList, served,
                       spc, sd, old, pushEvent, wpc, wconn>>
    PROVE  ServerInv'
<1> PICK st \in {"PKT_READ", "CONNECTION_CLOSED"}, s \in {"select", "wait", "tell", "done"} :
        /\ reader[c] \in {"select", "close"}
        /\ reader' = [reader EXCEPT ![c] = s]
        /\ incoming' = Append(incoming, Up(c, st))
        /\ \/ st = "PKT_READ" /\ reader[c] = "select" /\ s \in {"select", "wait"}
           \/ st = "CONNECTION_CLOSED" /\ s \in {"tell", "done"}
  OBVIOUS
<1>0. reader \in [Conns -> {"none", "select", "wait", "close", "tell", "done"}] /\ reader'[c] = s
      /\ \A d \in Conns \ {c} : reader'[d] = reader[d]
  BY DEF ServerInv, TypeOK
<1>1. LockOK' /\ ListenOK' /\ FdOK' /\ ServerOK' /\ DisposalOK'
  BY <1>0 DEF ServerInv, LockOK, ListenOK, FdOK, ServerOK, DisposalOK
<1>2. ReaderOK'
  <2>1. threads \in [Names -> Conns \cup {NoConn}]
    BY DEF ServerInv, TypeOK
  <2>2. ReaderOK
    BY DEF ServerInv
  <2>3. \A n \in Names : threads[n] # NoConn => reader'[threads[n]] # "none"
    BY <1>0, <2>1, <2>2 DEF ReaderOK
  <2>4. \A d \in Conns : sock[d] = "none" => reader'[d] = "none"
    BY <1>0, <2>2 DEF ReaderOK
  <2>5. \A d \in Conns : reader'[d] \in {"select", "wait", "close"} => threads[ClientName[d]] = d
    BY <1>0, <2>2 DEF ReaderOK
  <2> QED BY <2>3, <2>4, <2>5 DEF ReaderOK
<1>3. TablesAgree' /\ EventMeansWork'
  BY DEF ServerInv, TablesAgree, EventMeansWork
<1>4. ASSUME NEW it, it \in Item, Final(it)
      PROVE  Final(it)' /\ (it.status = "CONNECTION_CLOSED" => it.from # c)
  BY <1>0, <1>4 DEF Final, Item
<1>5. Up(c, st).from = c /\ Up(c, st).status = st /\ Present(Up(c, st)) /\ Final(Up(c, st))'
  BY <1>0 DEF Up, Present, Final, ServerInv, ReaderOK
<1>6. incoming \in Seq(Item)
  BY DEF ServerInv, TypeOK
<1>7. /\ Len(incoming') = Len(incoming) + 1
      /\ \A i \in DOMAIN incoming : incoming[i] \in Item /\ incoming'[i] = incoming[i]
      /\ incoming'[Len(incoming) + 1] = Up(c, st)
      /\ DOMAIN incoming' = DOMAIN incoming \cup {Len(incoming) + 1}
      /\ DOMAIN incoming = 1 .. Len(incoming) /\ Len(incoming) \in Nat
  BY <1>6
<1>8. ItemsOK'
  <2>1. ASSUME NEW i \in DOMAIN incoming' PROVE (Present(incoming[i]) /\ Final(incoming[i]))'
    BY <1>4, <1>5, <1>7 DEF ServerInv, ItemsOK, Present
  <2>2. ASSUME NEW i \in DOMAIN incoming', NEW j \in DOMAIN incoming',
               i < j, incoming'[i].status = "CONNECTION_CLOSED"
        PROVE  incoming'[j].from # incoming'[i].from
    <3>1. i \in DOMAIN incoming
      BY <1>7, <2>2
    <3>2. CASE j \in DOMAIN incoming
      BY <1>7, <2>2, <3>1, <3>2 DEF ServerInv, ItemsOK
    <3>3. CASE j = Len(incoming) + 1
      <4>1. incoming[i].from # c
        BY <1>4, <1>7, <2>2, <3>1 DEF ServerInv, ItemsOK
      <4> QED BY <1>5, <1>7, <3>1, <3>3, <4>1
    <3> QED BY <1>7, <3>2, <3>3
  <2> QED BY <2>1, <2>2 DEF ItemsOK
<1>9. HandOK'
  <2>1. spc # "idle" => sd \in Item
    BY DEF ServerInv, ServerOK, TypeOK
  <2>2. ASSUME spc # "idle", sd.status = "CONNECTION_CLOSED", NEW j \in DOMAIN incoming'
        PROVE  incoming'[j].from # sd.from
    <3>1. sd.from # c
      BY <1>4, <2>1, <2>2 DEF ServerInv, HandOK
    <3> QED BY <1>5, <1>7, <2>2, <3>1 DEF ServerInv, HandOK
  <2>3. spc # "idle" => (Present(sd) /\ Final(sd))'
    BY <1>4, <2>1 DEF ServerInv, HandOK, Present
  <2> QED BY <2>2, <2>3 DEF HandOK
<1> QED BY <1>1, <1>2, <1>3, <1>8, <1>9 DEF ServerInv

\* A reader's steps keep the invariant.
LEMMA ReaderKeeps ==
    ASSUME ServerInv, TypeOK', NEW c \in Conns, Reader(c)
    PROVE  ServerInv'
<1> USE DEF netVars, sockVars, listenVars, tableVars, threadVars, serverVars, disposalVars
<1>1. CASE ReadPkt(c)
  <2>1. \E s \in {"select", "wait"} : reader' = [reader EXCEPT ![c] = s]
    BY <1>1 DEF ReadPkt
  <2>2. reader[c] = "select" /\ incoming' = Append(incoming, Up(c, "PKT_READ"))
    BY <1>1 DEF ReadPkt
  <2>3. UNCHANGED <<sock, fd, lock, lpc, lconn, s2c, threads, sockList, served, spc, sd, old,
                    pushEvent, wpc, wconn>>
    BY <1>1 DEF ReadPkt
  <2> QED BY <2>1, <2>2, <2>3, PushStep
<1>2. CASE ReadFails(c)
  BY <1>2, ReaderStep DEF ReadFails, ReaderReports
<1>3. CASE ClientTimeout(c)
  BY <1>3, ReaderStep DEF ClientTimeout, ReaderReports
<1>4. CASE SelectFails(c)
  BY <1>4, ReaderStep DEF SelectFails
<1>5. CASE AnswerClient(c)
  BY <1>5, ReaderStep DEF AnswerClient
<1>6. CASE ReportClosed(c)
  <2>1. \E s \in {"tell", "done"} : reader' = [reader EXCEPT ![c] = s]
    BY <1>6 DEF ReportClosed, AfterReport
  <2>2. reader[c] = "close" /\ incoming' = Append(incoming, Up(c, "CONNECTION_CLOSED"))
    BY <1>6 DEF ReportClosed
  <2>3. UNCHANGED <<sock, fd, lock, lpc, lconn, s2c, threads, sockList, served, spc, sd, old,
                    pushEvent, wpc, wconn>>
    BY <1>6 DEF ReportClosed
  <2> QED BY <2>1, <2>2, <2>3, PushStep
<1>7. CASE TellWriter(c)
  BY <1>7, ReaderStep DEF TellWriter
<1> QED BY <1>1, <1>2, <1>3, <1>4, <1>5, <1>6, <1>7 DEF Reader

\* What the invariant says of every entry of m_ClientThreads.
LEMMA EntryFacts ==
    ASSUME ServerInv, NEW n \in Names, threads[n] # NoConn
    PROVE  /\ threads[n] \in Conns
           /\ ClientName[threads[n]] = n
           /\ sock[threads[n]] = "open"
           /\ fd[threads[n]] \in Fds
           /\ s2c[fd[threads[n]]] = n
           /\ threads[n] \in sockList
           /\ reader[threads[n]] # "none"
<1>1. threads[n] \in Conns
  BY DEF ServerInv, TypeOK
<1> QED BY <1>1 DEF ServerInv, TablesAgree, FdOK, ReaderOK

\* The server thread drops the item it has, or keeps a packet for the round of fetching.
LEMMA SettleStep ==
    ASSUME ServerInv, TypeOK',
           \/ spc = "process" /\ spc' = "fetch" /\ sd' = sd
           \/ spc' = "idle" /\ sd' = NoItem,
           UNCHANGED <<sock, fd, lock, lpc, lconn, s2c, threads, sockList, served, incoming,
                       reader, old, pushEvent, wpc, wconn>>
    PROVE  ServerInv'
<1>1. LockOK' /\ ListenOK' /\ FdOK' /\ ReaderOK'
  BY DEF ServerInv, LockOK, ListenOK, FdOK, ReaderOK
<1>2. ServerOK' /\ HandOK' /\ DisposalOK'
  BY DEF ServerInv, ServerOK, HandOK, DisposalOK, Present, Final
<1>3. ItemsOK'
  BY DEF ServerInv, ItemsOK, Present, Final
<1>4. TablesAgree' /\ EventMeansWork'
  BY DEF ServerInv, TablesAgree, EventMeansWork
<1> QED BY <1>1, <1>2, <1>3, <1>4 DEF ServerInv

\* The oldest item is taken from the list; what it says of the list's rest now holds of the hand.
LEMMA ServerPullKeeps ==
    ASSUME ServerInv, TypeOK', ServerPull
    PROVE  ServerInv'
<1> USE DEF netVars, sockVars, listenVars, tableVars, threadVars, serverVars, disposalVars
<1>1. UNCHANGED <<sock, fd, lock, lpc, lconn, s2c, threads, sockList, served, reader, old,
                  pushEvent, wpc, wconn>>
  BY DEF ServerPull
<1>2. /\ incoming \in Seq(Item) /\ incoming # <<>>
      /\ sd' = Head(incoming) /\ incoming' = Tail(incoming)
  BY DEF ServerInv, TypeOK, ServerPull
<1>3. /\ 1 \in DOMAIN incoming /\ sd' = incoming[1] /\ sd' \in Item
      /\ \A i \in DOMAIN incoming' :
             i + 1 \in DOMAIN incoming /\ incoming'[i] = incoming[i + 1] /\ i \in Nat \ {0}
  BY <1>2
<1>4. \/ spc' = "process" /\ sd'.status = "PKT_READ"
      \/ spc' = "lock" /\ sd'.status = "CONNECTION_CLOSED"
  BY <1>3 DEF ServerPull, Item
<1>5. LockOK' /\ ListenOK' /\ FdOK' /\ ReaderOK' /\ ServerOK' /\ DisposalOK'
  BY <1>1, <1>3, <1>4 DEF ServerInv, LockOK, ListenOK, FdOK, ReaderOK, ServerOK, DisposalOK
<1>6. ASSUME NEW it, Present(it), Final(it) PROVE Present(it)' /\ Final(it)'
  BY <1>1, <1>6 DEF Present, Final
<1>7. ItemsOK'
  BY <1>3, <1>6 DEF ServerInv, ItemsOK
<1>8. HandOK'
  <2>1. (Present(sd) /\ Final(sd))'
    BY <1>3, <1>1 DEF ServerInv, ItemsOK, Present, Final
  <2>2. sd'.status = "CONNECTION_CLOSED" => \A j \in DOMAIN incoming' : incoming'[j].from # sd'.from
    <3>1. \A j \in DOMAIN incoming' : 1 < j + 1
      BY <1>3
    <3> QED BY <1>3, <3>1 DEF ServerInv, ItemsOK
  <2> QED BY <2>1, <2>2 DEF HandOK
<1>9. TablesAgree' /\ EventMeansWork'
  BY <1>1 DEF ServerInv, TablesAgree, EventMeansWork
<1> QED BY <1>5, <1>7, <1>8, <1>9 DEF ServerInv

\* The lock is taken for a disconnection: the listen thread is not between its own lock and unlock.
LEMMA ServerLockKeeps ==
    ASSUME ServerInv, TypeOK', ServerLock
    PROVE  ServerInv'
<1> USE DEF netVars, sockVars, listenVars, tableVars, threadVars, serverVars, disposalVars
<1>1. LockOK' /\ ListenOK' /\ FdOK' /\ ReaderOK'
  BY DEF ServerLock, ServerInv, LockOK, ListenOK, FdOK, ReaderOK
<1>2. ServerOK' /\ HandOK' /\ DisposalOK'
  BY DEF ServerLock, ServerInv, ServerOK, HandOK, DisposalOK, Present, Final
<1>3. ItemsOK'
  BY DEF ServerLock, ServerInv, ItemsOK, Present, Final
<1>4. TablesAgree' /\ EventMeansWork'
  BY DEF ServerLock, ServerInv, TablesAgree, EventMeansWork
<1> QED BY <1>1, <1>2, <1>3, <1>4 DEF ServerInv

\* The report of a closed connection: the one that is dropped is the one it came from, and
\* no item of it is left behind.
LEMMA DisconnectKeeps ==
    ASSUME ServerInv, TypeOK', OnClientDisconnect
    PROVE  ServerInv'
<1> USE DEF netVars, sockVars, listenVars, tableVars, threadVars, serverVars, disposalVars
<1> DEFINE c == threads[sd.name]
           n == sd.name
<1>1. /\ n \in Names /\ c \in Conns /\ c # NoConn
      /\ sd.from = c /\ ClientName[c] = n /\ reader[c] \in {"tell", "done"}
      /\ \A j \in DOMAIN incoming : incoming[j].from # c
  <2>1. sd \in Item /\ sd.status = "CONNECTION_CLOSED"
    BY DEF OnClientDisconnect, ServerInv, ServerOK
  <2>2. Present(sd) /\ Final(sd) /\ \A j \in DOMAIN incoming : incoming[j].from # sd.from
    BY <2>1 DEF OnClientDisconnect, ServerInv, HandOK
  <2> QED BY <2>1, <2>2 DEF Item, Present, Final, OnClientDisconnect
<1>2. sock[c] = "open" /\ fd[c] \in Fds /\ s2c[fd[c]] = n /\ c \in sockList
  BY <1>1, EntryFacts
<1>3. /\ lock = "server" /\ lock' = "none" /\ spc' = "idle" /\ sd' = NoItem
      /\ lpc \notin {"handshake", "welcome", "add"}
  BY DEF OnClientDisconnect, ServerInv, LockOK
<1>4. /\ sock' = [sock EXCEPT ![c] = "closed"]
      /\ s2c' = [s2c EXCEPT ![fd[c]] = NoName]
      /\ threads' = [threads EXCEPT ![n] = NoConn]
      /\ sockList' = sockList \ {c}
      /\ served' = served \ {n}
      /\ old' = Append(old, c)
      /\ UNCHANGED <<fd, lpc, lconn, incoming, reader, wpc, wconn>>
  BY <1>2 DEF OnClientDisconnect, StopAndCleanUpClientThread, BaseOnClientDisconnect
<1>5. /\ sock \in [Conns -> {"none", "open", "closed"}]
      /\ threads \in [Names -> Conns \cup {NoConn}]
      /\ s2c \in [Fds -> Names \cup {NoName}]
      /\ old \in Seq(Conns)
  BY DEF ServerInv, TypeOK
<1>6. /\ threads'[n] = NoConn /\ \A m \in Names \ {n} : threads'[m] = threads[m]
      /\ sock'[c] = "closed" /\ \A d \in Conns \ {c} : sock'[d] = sock[d]
      /\ \A f \in Fds \ {fd[c]} : s2c'[f] = s2c[f]
  BY <1>1, <1>4, <1>5
<1> HIDE DEF c, n
<1>7. LockOK' /\ ServerOK' /\ DisposalOK' /\ HandOK'
  BY <1>3, <1>4 DEF ServerInv, LockOK, ServerOK, DisposalOK, HandOK
<1>8. ListenOK'
  <2>1. lpc # "accept" => lconn # c
    BY <1>1 DEF ServerInv, ListenOK
  <2> QED BY <1>3, <1>4, <1>6, <2>1 DEF ServerInv, ListenOK
<1>9. FdOK'
  BY <1>4, <1>6 DEF ServerInv, FdOK
<1>10. ASSUME NEW d \in Conns, d # c, threads[ClientName[d]] = d PROVE threads'[ClientName[d]] = d
  BY <1>6, <1>10, ConnsAssumption DEF c, n
<1>11. ReaderOK'
  <2>1. \A d \in Conns : sock'[d] = "none" => reader[d] = "none"
    BY <1>6 DEF ServerInv, ReaderOK
  <2>2. \A d \in Conns : reader[d] \in {"select", "wait", "close"} => threads'[ClientName[d]] = d
    BY <1>1, <1>10 DEF ServerInv, ReaderOK
  <2>3. \A m \in Names : threads'[m] # NoConn => reader[threads'[m]] # "none"
    BY <1>6 DEF ServerInv, ReaderOK
  <2> QED BY <1>4, <2>1, <2>2, <2>3 DEF ReaderOK
<1>12. ItemsOK'
  <2>1. ASSUME NEW i \in DOMAIN incoming PROVE (Present(incoming[i]) /\ Final(incoming[i]))'
    <3>1. incoming[i] \in Item /\ incoming[i].from # c
      BY <1>1 DEF ServerInv, TypeOK
    <3>2. Present(incoming[i]) /\ Final(incoming[i])
      BY DEF ServerInv, ItemsOK
    <3>3. threads'[incoming[i].name] = incoming[i].from
      BY <1>10, <3>1, <3>2 DEF Present, Item
    <3> QED BY <1>4, <3>2, <3>3 DEF Present, Final
  <2> QED BY <1>4, <2>1 DEF ServerInv, ItemsOK
<1>13. TablesAgree'
  <2>1. ASSUME NEW m \in Names, threads'[m] # NoConn
        PROVE  /\ ClientName[threads'[m]] = m
               /\ sock'[threads'[m]] = "open"
               /\ s2c'[fd[threads'[m]]] = m
               /\ threads'[m] \in sockList'
    <3>1. m # n /\ threads'[m] = threads[m] /\ threads[m] # NoConn
      BY <1>6, <2>1
    <3>2. /\ threads[m] \in Conns /\ ClientName[threads[m]] = m /\ sock[threads[m]] = "open"
          /\ s2c[fd[threads[m]]] = m /\ threads[m] \in sockList /\ fd[threads[m]] \in Fds
      BY <3>1, EntryFacts
    <3>3. threads[m] # c /\ fd[threads[m]] # fd[c]
      BY <1>1, <1>2, <3>1, <3>2
    <3> QED BY <1>4, <1>6, <3>1, <3>2, <3>3
  <2>2. ASSUME NEW d \in sockList' PROVE threads'[ClientName[d]] = d
    <3>1. d \in sockList /\ d # c /\ d \in Conns
      BY <1>4, <2>2 DEF ServerInv, TypeOK
    <3> QED BY <1>10, <3>1 DEF ServerInv, TablesAgree
  <2>3. served' = {m \in Names : threads'[m] # NoConn}
    <3>1. served = {m \in Names : threads[m] # NoConn}
      BY <1>3 DEF ServerInv, TablesAgree
    <3> QED BY <1>4, <1>6, <3>1
  <2>4. served' = {m \in Names : threads'[m] # NoConn \/ (lpc' = "add" /\ ClientName[lconn'] = m)}
    BY <1>3, <1>4, <2>3
  <2>5. lpc' # "add"
    BY <1>3, <1>4
  <2> QED BY <1>4, <2>1, <2>2, <2>4, <2>5 DEF TablesAgree
<1>14. EventMeansWork'
  BY <1>4, <1>5, <1>1 DEF EventMeansWork
<1> QED BY <1>7, <1>8, <1>9, <1>11, <1>12, <1>13, <1>14 DEF ServerInv

\* The server thread's steps keep the invariant.
LEMMA ServerKeeps ==
    ASSUME ServerInv, TypeOK', ServerLoop
    PROVE  ServerInv'
<1> USE DEF netVars, sockVars, listenVars, tableVars, threadVars, serverVars, disposalVars
<1>1. CASE ServerPull
  BY <1>1, ServerPullKeeps
<1>2. CASE ProcessClient
  BY <1>2, SettleStep DEF ProcessClient
<1>3. CASE ProcessNothing
  BY <1>3, SettleStep DEF ProcessNothing
<1>4. CASE FetchAllMail
  BY <1>4, SettleStep DEF FetchAllMail
<1>5. CASE ServerLock
  BY <1>5, ServerLockKeeps
<1>6. CASE OnClientDisconnect
  BY <1>6, DisconnectKeeps
<1> QED BY <1>1, <1>2, <1>3, <1>4, <1>5, <1>6 DEF ServerLoop

\* The connection the listen thread works on is nobody's entry in m_ClientThreads, and it
\* shares its descriptor with no entry.
LEMMA NewcomerFacts ==
    ASSUME ServerInv, lpc # "accept"
    PROVE  /\ lconn \in Conns /\ sock[lconn] = "open" /\ fd[lconn] \in Fds
           /\ reader[lconn] = "none" /\ ClientName[lconn] \in Names
           /\ \A n \in Names : threads[n] # NoConn =>
                  threads[n] # lconn /\ fd[threads[n]] # fd[lconn]
<1>1. lconn \in Conns /\ sock[lconn] = "open" /\ reader[lconn] = "none"
  BY DEF ServerInv, ListenOK
<1>2. fd[lconn] \in Fds /\ ClientName[lconn] \in Names
  BY <1>1, ConnsAssumption DEF ServerInv, FdOK
<1>3. ASSUME NEW n \in Names, threads[n] # NoConn
      PROVE  threads[n] # lconn /\ fd[threads[n]] # fd[lconn]
  <2>1. threads[n] \in Conns /\ sock[threads[n]] = "open" /\ reader[threads[n]] # "none"
    BY <1>3, EntryFacts
  <2> QED BY <1>1, <2>1 DEF ServerInv, FdOK
<1> QED BY <1>1, <1>2, <1>3

\* A step that leaves m_ClientThreads, the readers and the list alone keeps what the
\* invariant says of the items.
LEMMA ItemsStay ==
    ASSUME ServerInv, UNCHANGED <<threads, reader, incoming, spc, sd, old, pushEvent, wpc, wconn>>
    PROVE  ItemsOK' /\ HandOK' /\ ServerOK' /\ DisposalOK' /\ EventMeansWork'
<1>1. ItemsOK'
  BY DEF ServerInv, ItemsOK, Present, Final
<1>2. HandOK' /\ ServerOK'
  BY DEF ServerInv, HandOK, ServerOK, Present, Final
<1>3. DisposalOK' /\ EventMeansWork'
  BY DEF ServerInv, DisposalOK, EventMeansWork
<1> QED BY <1>1, <1>2, <1>3

\* A new connection has a descriptor no open socket has, and no thread yet.
LEMMA AcceptKeeps ==
    ASSUME ServerInv, TypeOK', NEW c \in Conns, NEW f \in Fds, Accept(c, f)
    PROVE  ServerInv'
<1> USE DEF netVars, sockVars, listenVars, tableVars, threadVars, serverVars, disposalVars
<1>1. /\ lpc = "accept" /\ lpc' = "lock" /\ lconn' = c /\ sock[c] = "none"
      /\ sock' = [sock EXCEPT ![c] = "open"]
      /\ fd' = [fd EXCEPT ![c] = f]
      /\ \A d \in Conns : sock[d] = "open" => fd[d] # f
      /\ UNCHANGED <<lock, s2c, threads, sockList, served, incoming, reader, spc, sd, old,
                     pushEvent, wpc, wconn>>
  BY DEF Accept
<1>2. /\ sock'[c] = "open" /\ fd'[c] = f
      /\ \A d \in Conns \ {c} : sock'[d] = sock[d] /\ fd'[d] = fd[d]
  BY <1>1 DEF ServerInv, TypeOK
<1>3. reader[c] = "none"
  BY <1>1 DEF ServerInv, ReaderOK
<1>4. LockOK' /\ ListenOK'
  BY <1>1, <1>2, <1>3 DEF ServerInv, LockOK, ListenOK
<1>5. FdOK'
  BY <1>1, <1>2 DEF ServerInv, FdOK
<1>6. ReaderOK'
  BY <1>1, <1>2 DEF ServerInv, ReaderOK
<1>7. TablesAgree'
  <2>1. ASSUME NEW n \in Names, threads[n] # NoConn
        PROVE  /\ ClientName[threads[n]] = n /\ sock'[threads[n]] = "open"
               /\ s2c[fd'[threads[n]]] = n /\ threads[n] \in sockList
    <3>1. threads[n] # c
      BY <1>1, <2>1, EntryFacts
    <3> QED BY <1>2, <2>1, <3>1, EntryFacts
  <2>2. served' = {n \in Names : threads'[n] # NoConn \/ (lpc' = "add" /\ ClientName[lconn'] = n)}
    BY <1>1 DEF ServerInv, TablesAgree
  <2>3. \A d \in sockList : threads[ClientName[d]] = d
    BY DEF ServerInv, TablesAgree
  <2> QED BY <1>1, <2>1, <2>2, <2>3 DEF TablesAgree
<1>8. ItemsOK' /\ HandOK' /\ ServerOK' /\ DisposalOK' /\ EventMeansWork'
  BY <1>1, ItemsStay
<1> QED BY <1>4, <1>5, <1>6, <1>7, <1>8 DEF ServerInv

\* A client that is spurned was in no table that matters.
LEMMA SpurnKeeps ==
    ASSUME ServerInv, TypeOK', lpc \in {"handshake", "welcome"}, Spurn,
           UNCHANGED <<fd, s2c, threads, sockList, served, incoming, reader, spc, sd, old,
                       pushEvent, wpc, wconn>>
    PROVE  ServerInv'
<1>1. /\ lconn \in Conns
      /\ \A n \in Names : threads[n] # NoConn => threads[n] # lconn
  BY NewcomerFacts
<1>2. /\ sock'[lconn] = "closed" /\ \A d \in Conns \ {lconn} : sock'[d] = sock[d]
      /\ lpc' = "accept"
  BY <1>1 DEF ServerInv, TypeOK, Spurn
<1>3. LockOK' /\ ListenOK'
  BY <1>2 DEF ServerInv, LockOK, ListenOK, Spurn
<1>4. FdOK' /\ ReaderOK'
  BY <1>1, <1>2 DEF ServerInv, FdOK, ReaderOK
<1>5. TablesAgree'
  <2>1. ASSUME NEW n \in Names, threads[n] # NoConn
        PROVE  /\ ClientName[threads[n]] = n /\ sock'[threads[n]] = "open"
               /\ s2c[fd[threads[n]]] = n /\ threads[n] \in sockList
    BY <1>1, <1>2, <2>1, EntryFacts
  <2>2. served' = {n \in Names : threads'[n] # NoConn \/ (lpc' = "add" /\ ClientName[lconn'] = n)}
    BY <1>2 DEF ServerInv, TablesAgree
  <2>3. \A d \in sockList : threads[ClientName[d]] = d
    BY DEF ServerInv, TablesAgree
  <2> QED BY <1>2, <2>1, <2>2, <2>3 DEF TablesAgree
<1>6. ItemsOK' /\ HandOK' /\ ServerOK' /\ DisposalOK' /\ EventMeansWork'
  BY ItemsStay
<1> QED BY <1>3, <1>4, <1>5, <1>6 DEF ServerInv

\* The name is unique, so m_ClientThreads has no entry for it.
LEMMA NamesKeeps ==
    ASSUME ServerInv, TypeOK', HandShakeNames
    PROVE  ServerInv'
<1> USE DEF netVars, sockVars, listenVars, tableVars, threadVars, serverVars, disposalVars
<1>1. /\ lpc = "handshake" /\ lpc' = "welcome"
      /\ IsUniqueName(ClientName[lconn])
      /\ s2c' = [s2c EXCEPT ![fd[lconn]] = ClientName[lconn]]
      /\ UNCHANGED <<sock, fd, lock, lconn, threads, sockList, served, incoming, reader, spc, sd,
                     old, pushEvent, wpc, wconn>>
  BY DEF HandShakeNames
<1>2. /\ lconn \in Conns /\ sock[lconn] = "open" /\ fd[lconn] \in Fds
      /\ reader[lconn] = "none" /\ ClientName[lconn] \in Names
      /\ \A n \in Names : threads[n] # NoConn => fd[threads[n]] # fd[lconn]
  BY <1>1, NewcomerFacts
<1>3. threads[ClientName[lconn]] = NoConn
  BY <1>1, <1>2, EntryFacts DEF IsUniqueName
<1>4. s2c'[fd[lconn]] = ClientName[lconn] /\ \A f \in Fds \ {fd[lconn]} : s2c'[f] = s2c[f]
  BY <1>1, <1>2 DEF ServerInv, TypeOK
<1>5. LockOK' /\ ListenOK' /\ FdOK' /\ ReaderOK'
  BY <1>1, <1>2, <1>3, <1>4 DEF ServerInv, LockOK, ListenOK, FdOK, ReaderOK
<1>6. TablesAgree'
  <2>1. ASSUME NEW n \in Names, threads[n] # NoConn
        PROVE  /\ ClientName[threads[n]] = n /\ sock[threads[n]] = "open"
               /\ s2c'[fd[threads[n]]] = n /\ threads[n] \in sockList
    BY <1>2, <1>4, <2>1, EntryFacts
  <2>2. served' = {n \in Names : threads'[n] # NoConn \/ (lpc' = "add" /\ ClientName[lconn'] = n)}
    BY <1>1 DEF ServerInv, TablesAgree
  <2>3. \A d \in sockList : threads[ClientName[d]] = d
    BY DEF ServerInv, TablesAgree
  <2> QED BY <1>1, <2>1, <2>2, <2>3 DEF TablesAgree
<1>7. ItemsOK' /\ HandOK' /\ ServerOK' /\ DisposalOK' /\ EventMeansWork'
  BY <1>1, ItemsStay
<1> QED BY <1>5, <1>6, <1>7 DEF ServerInv

\* The connect callback is made for a name that nobody has.
LEMMA WelcomeKeeps ==
    ASSUME ServerInv, TypeOK', Welcome
    PROVE  ServerInv'
<1> USE DEF netVars, sockVars, listenVars, tableVars, threadVars, serverVars, disposalVars
<1>1. /\ lpc = "welcome" /\ lpc' = "add" /\ served' = served \cup {ClientName[lconn]}
      /\ UNCHANGED <<sock, fd, lock, lconn, s2c, threads, sockList, incoming, reader, spc, sd,
                     old, pushEvent, wpc, wconn>>
  BY DEF Welcome
<1>2. ClientName[lconn] \in Names /\ threads[ClientName[lconn]] = NoConn
  BY <1>1, NewcomerFacts DEF ServerInv, ListenOK
<1>3. LockOK' /\ ListenOK' /\ FdOK' /\ ReaderOK'
  BY <1>1 DEF ServerInv, LockOK, ListenOK, FdOK, ReaderOK
<1>4. TablesAgree'
  <2>1. served' = {n \in Names : threads[n] # NoConn \/ ClientName[lconn] = n}
    <3>1. served = {n \in Names : threads[n] # NoConn}
      BY <1>1 DEF ServerInv, TablesAgree
    <3> QED BY <1>1, <1>2, <3>1
  <2> QED BY <1>1, <1>2, <2>1 DEF ServerInv, TablesAgree
<1>5. ItemsOK' /\ HandOK' /\ ServerOK' /\ DisposalOK' /\ EventMeansWork'
  BY <1>1, ItemsStay
<1> QED BY <1>3, <1>4, <1>5 DEF ServerInv

\* The new entry is for a name that has none, so every older item keeps its connection.
LEMMA AddKeeps ==
    ASSUME ServerInv, TypeOK', AddAndStartClientThread
    PROVE  ServerInv'
<1> USE DEF netVars, sockVars, listenVars, tableVars, threadVars, serverVars, disposalVars
<1> DEFINE c == lconn
           n == ClientName[lconn]
<1>1. lpc = "add"
  BY DEF AddAndStartClientThread
<1>2. /\ c \in Conns /\ sock[c] = "open" /\ fd[c] \in Fds /\ reader[c] = "none" /\ n \in Names
      /\ \A m \in Names : threads[m] # NoConn => threads[m] # c
      /\ threads[n] = NoConn /\ s2c[fd[c]] = n /\ n = ClientName[c]
  BY <1>1, NewcomerFacts DEF ServerInv, ListenOK
<1>3. /\ threads' = [threads EXCEPT ![n] = c]
      /\ reader' = [reader EXCEPT ![c] = "select"]
      /\ sockList' = sockList \cup {c}
      /\ lock' = "none" /\ lpc' = "accept" /\ lconn' = NoConn
      /\ UNCHANGED <<sock, fd, s2c, incoming, spc, sd, old, pushEvent, wpc, wconn, served>>
  BY <1>2 DEF AddAndStartClientThread
<1>4. lock = "listen" /\ spc # "disconnect"
  BY <1>1 DEF ServerInv, LockOK
<1>5. /\ threads'[n] = c /\ \A m \in Names \ {n} : threads'[m] = threads[m]
      /\ reader'[c] = "select" /\ \A d \in Conns \ {c} : reader'[d] = reader[d]
  <2>1. threads \in [Names -> Conns \cup {NoConn}]
    BY DEF ServerInv, TypeOK
  <2>2. reader \in [Conns -> {"none", "select", "wait", "close", "tell", "done"}]
    BY DEF ServerInv, TypeOK
  <2> QED BY <1>2, <1>3, <2>1, <2>2
<1>6. c # NoConn /\ \A d \in Conns : d # NoConn
  BY <1>2, ConnsAssumption
<1> HIDE DEF c, n
<1>7. LockOK' /\ ListenOK' /\ FdOK'
  BY <1>3, <1>4 DEF ServerInv, LockOK, ListenOK, FdOK
<1>8. ASSUME NEW d \in Conns, threads[ClientName[d]] = d
      PROVE  threads'[ClientName[d]] = d /\ d # c
  <2>1. ClientName[d] \in Names /\ ClientName[d] # n
    BY <1>2, <1>6, <1>8, ConnsAssumption
  <2> QED BY <1>2, <1>5, <1>6, <1>8, <2>1
<1>9. ReaderOK'
  <2>1. ReaderOK
    BY DEF ServerInv
  <2>2. \A d \in Conns : sock[d] = "none" => reader'[d] = "none"
    BY <1>2, <1>5, <2>1 DEF ReaderOK
  <2>3. \A d \in Conns : reader'[d] \in {"select", "wait", "close"} => threads'[ClientName[d]] = d
    BY <1>2, <1>5, <1>8, <2>1 DEF ReaderOK
  <2>4. ASSUME NEW m \in Names, threads'[m] # NoConn PROVE reader'[threads'[m]] # "none"
    <3>1. CASE m = n
      BY <1>5, <3>1
    <3>2. CASE m # n
      <4>1. threads'[m] = threads[m] /\ threads[m] # NoConn
        BY <1>5, <2>4, <3>2
      <4>2. threads[m] \in Conns /\ reader[threads[m]] # "none" /\ threads[m] # c
        BY <1>2, <4>1, EntryFacts
      <4> QED BY <1>5, <4>1, <4>2
    <3> QED BY <3>1, <3>2
  <2> QED BY <1>3, <2>2, <2>3, <2>4 DEF ReaderOK
<1>10. ASSUME NEW it \in Item, Present(it), Final(it) PROVE Present(it)' /\ Final(it)'
  <2>1. it.from \in Conns /\ it.name = ClientName[it.from] /\ threads[it.name] = it.from
    BY <1>10 DEF Item, Present
  <2>2. threads'[it.name] = it.from /\ it.from # c
    BY <1>8, <2>1
  <2> QED BY <1>5, <1>10, <2>1, <2>2 DEF Present, Final
<1>11. ItemsOK'
  <2>1. \A i \in DOMAIN incoming : incoming[i] \in Item
    BY DEF ServerInv, TypeOK
  <2>2. \A i \in DOMAIN incoming : Present(incoming[i])' /\ Final(incoming[i])'
    BY <1>3, <1>10, <2>1 DEF ServerInv, ItemsOK
  <2> QED BY <1>3, <2>2 DEF ServerInv, ItemsOK
<1>12. HandOK'
  <2>1. spc # "idle" => sd \in Item
    BY DEF ServerInv, ServerOK, TypeOK
  <2>2. spc # "idle" => Present(sd)' /\ Final(sd)'
    BY <1>3, <1>10, <2>1 DEF ServerInv, HandOK
  <2> QED BY <1>3, <2>2 DEF ServerInv, HandOK
<1>13. TablesAgree'
  <2>1. ASSUME NEW m \in Names, threads'[m] # NoConn
        PROVE  /\ ClientName[threads'[m]] = m /\ sock[threads'[m]] = "open"
               /\ s2c[fd[threads'[m]]] = m /\ threads'[m] \in sockList'
    <3>1. CASE m = n
      BY <1>2, <1>3, <1>5, <3>1
    <3>2. CASE m # n
      <4>1. threads'[m] = threads[m] /\ threads[m] # NoConn
        BY <1>5, <2>1, <3>2
      <4> QED BY <1>3, <4>1, EntryFacts
    <3> QED BY <3>1, <3>2
  <2>2. ASSUME NEW d \in sockList' PROVE threads'[ClientName[d]] = d
    <3>1. CASE d = c
      BY <1>2, <1>5, <3>1
    <3>2. CASE d \in sockList
      BY <1>8, <3>2 DEF ServerInv, TablesAgree, TypeOK
    <3> QED BY <1>3, <3>1, <3>2
  <2>3. served = {m \in Names : threads'[m] # NoConn}
    <3>1. served = {m \in Names : threads[m] # NoConn \/ n = m}
      BY <1>1 DEF ServerInv, TablesAgree, n
    <3> QED BY <1>5, <1>6, <3>1
  <2> QED BY <1>3, <2>1, <2>2, <2>3 DEF TablesAgree
<1>14. ServerOK' /\ DisposalOK' /\ EventMeansWork'
  BY <1>3 DEF ServerInv, ServerOK, DisposalOK, EventMeansWork
<1> QED BY <1>7, <1>9, <1>11, <1>12, <1>13, <1>14 DEF ServerInv

\* The lock is taken, or left locked after an exception: nothing else changes.
LEMMA ListenMoves ==
    ASSUME ServerInv, TypeOK',
           \/ /\ lpc = "lock" /\ lpc' = "handshake" /\ lconn' = lconn
              /\ lock = "none" /\ lock' = "listen"
           \/ lpc = "handshake" /\ lpc' = "accept" /\ lock' = lock,
           UNCHANGED <<sock, fd, s2c, threads, sockList, served, incoming, reader, spc, sd, old,
                       pushEvent, wpc, wconn>>
    PROVE  ServerInv'
<1>1. LockOK' /\ ListenOK' /\ FdOK' /\ ReaderOK'
  BY DEF ServerInv, LockOK, ListenOK, FdOK, ReaderOK
<1>2. TablesAgree'
  BY DEF ServerInv, TablesAgree
<1>3. ItemsOK' /\ HandOK' /\ ServerOK' /\ DisposalOK' /\ EventMeansWork'
  BY ItemsStay
<1> QED BY <1>1, <1>2, <1>3 DEF ServerInv

\* The listen thread's steps keep the invariant.
LEMMA ListenKeeps ==
    ASSUME ServerInv, TypeOK', ListenLoop
    PROVE  ServerInv'
<1> USE DEF netVars, sockVars, listenVars, tableVars, threadVars, serverVars, disposalVars
<1>1. ASSUME NEW c \in Conns, NEW f \in Fds, Accept(c, f) PROVE ServerInv'
  BY <1>1, AcceptKeeps
<1>2. CASE ListenLock
  BY <1>2, ListenMoves DEF ListenLock
<1>3. CASE HandShakeFails
  BY <1>3, SpurnKeeps DEF HandShakeFails
<1>4. CASE HandShakeThrows
  BY <1>4, ListenMoves DEF HandShakeThrows
<1>5. CASE HandShakePoisons
  BY <1>5, SpurnKeeps DEF HandShakePoisons
<1>6. CASE HandShakeNames
  BY <1>6, NamesKeeps
<1>7. CASE WelcomeFails
  BY <1>7, SpurnKeeps DEF WelcomeFails
<1>8. CASE Welcome
  BY <1>8, WelcomeKeeps
<1>9. CASE AddAndStartClientThread
  BY <1>9, AddKeeps
<1> QED BY <1>1, <1>2, <1>3, <1>4, <1>5, <1>6, <1>7, <1>8, <1>9 DEF ListenLoop

\* The waste disposal thread's steps keep the invariant.  The event is reset whenever the
\* list is taken from, and set whenever it is added to.
LEMMA DisposalKeeps ==
    ASSUME ServerInv, TypeOK', WasteDisposalLoop
    PROVE  ServerInv'
<1> USE DEF netVars, sockVars, listenVars, tableVars, threadVars, serverVars, disposalVars
<1>1. UNCHANGED <<sock, fd, lock, lpc, lconn, s2c, threads, sockList, served, incoming, reader,
                  spc, sd>>
  BY DEF WasteDisposalLoop, DisposalWakes, DisposalPulls, DisposalDestroys
<1>2. LockOK' /\ ListenOK' /\ FdOK' /\ ReaderOK' /\ ServerOK'
  BY <1>1 DEF ServerInv, LockOK, ListenOK, FdOK, ReaderOK, ServerOK
<1>3. ItemsOK' /\ HandOK'
  BY <1>1 DEF ServerInv, ItemsOK, HandOK, Present, Final
<1>4. TablesAgree'
  BY <1>1 DEF ServerInv, TablesAgree
<1>5. DisposalOK' /\ EventMeansWork'
  <2>1. CASE DisposalWakes
    BY <2>1 DEF DisposalWakes, Woken, ServerInv, DisposalOK, EventMeansWork
  <2>2. CASE DisposalPulls
    <3>1. Head(old) \in Conns
      BY <2>2 DEF DisposalPulls, ServerInv, TypeOK
    <3> QED BY <2>2, <3>1 DEF DisposalPulls, DisposalOK, EventMeansWork
  <2>3. CASE DisposalDestroys
    BY <2>3 DEF DisposalDestroys, ServerInv, DisposalOK, EventMeansWork
  <2> QED BY <2>1, <2>2, <2>3 DEF WasteDisposalLoop
<1> QED BY <1>2, <1>3, <1>4, <1>5 DEF ServerInv

\* The clients and the writers change nothing the invariant is about.
LEMMA OthersKeep ==
    ASSUME ServerInv, TypeOK', NEW c \in Conns, Client(c) \/ Writer(c)
    PROVE  ServerInv'
<1> USE DEF netVars, sockVars, listenVars, tableVars, threadVars, serverVars, disposalVars
<1>1. UNCHANGED tcsSupport
  <2>1. CASE Client(c)
    BY <2>1 DEF Client, ClientConnect, ClientSend, ClientGoes, tcsSupport
  <2>2. CASE Writer(c)
    BY <2>2 DEF Writer, WriterPull, WriterSend, WriterSendFails, WriterQuits, tcsSupport
  <2> QED BY <2>1, <2>2
<1> QED BY <1>1, QuietStep

-------------------------------------------------------------------------------
(* Theorems                                                                *)

\* The inductive invariant holds when the server starts.
LEMMA ServerStarts == Init => ServerInv
<1> SUFFICES ASSUME Init PROVE ServerInv
  OBVIOUS
<1> USE ConnsAssumption DEF Init
<1>1. Types
  <2>1. NetType
    BY DEF NetType
  <2>2. TableType
    BY DEF TableType
  <2>3. ThreadType
    BY DEF ThreadType
  <2>4. ServerType
    <3>1. <<>> \in Seq(Conns) /\ FALSE \in BOOLEAN
      OBVIOUS
    <3>2. old = <<>> /\ pushEvent = FALSE /\ destroyed = {}
      BY Zenon
    <3>3. spc = "idle" /\ sd = NoItem /\ wpc = "wait" /\ wconn = NoConn
      OBVIOUS
    <3> HIDE DEF Init
    <3> QED BY <3>1, <3>2, <3>3 DEF ServerType
  <2> QED BY <2>1, <2>2, <2>3, <2>4 DEF Types
<1>2. TypeOK
  BY <1>1 DEF TypeOK, Types, NetType, TableType, ThreadType, ServerType
<1>3. LockOK /\ ListenOK /\ FdOK /\ ReaderOK
  BY DEF LockOK, ListenOK, FdOK, ReaderOK
<1>4. ServerOK /\ ItemsOK /\ HandOK /\ DisposalOK
  BY DEF ServerOK, ItemsOK, HandOK, DisposalOK
<1>5. TablesAgree /\ EventMeansWork
  BY DEF TablesAgree, EventMeansWork
<1> QED BY <1>2, <1>3, <1>4, <1>5 DEF ServerInv

\* Every step of every thread keeps it.
LEMMA ServerStep == ServerInv /\ [Next]_vars => ServerInv'
<1> SUFFICES ASSUME ServerInv, [Next]_vars PROVE ServerInv'
  OBVIOUS
<1>1. TypeOK'
  BY TypeStep DEF ServerInv
<1>2. CASE \E c \in Conns : Client(c) \/ Reader(c) \/ Writer(c)
  BY <1>1, <1>2, OthersKeep, ReaderKeeps
<1>3. CASE ListenLoop
  BY <1>1, <1>3, ListenKeeps
<1>4. CASE ServerLoop
  BY <1>1, <1>4, ServerKeeps
<1>5. CASE WasteDisposalLoop
  BY <1>1, <1>5, DisposalKeeps
<1>6. CASE UNCHANGED vars
  <2>1. UNCHANGED tcsSupport
    BY <1>6 DEF vars, tcsSupport, netVars, sockVars, listenVars, tableVars, threadVars,
                serverVars, disposalVars
  <2> QED BY <1>1, <2>1, QuietStep
<1> QED BY <1>2, <1>3, <1>4, <1>5, <1>6 DEF Next

\* The inductive invariant holds in every reachable state.
LEMMA ServerInvariance == Spec => []ServerInv
  BY ServerStarts, ServerStep, PTL DEF Spec

\* ServerTypes: the variables of the server keep their types, whatever happens on the
\* connections.
THEOREM ServerTypes == Spec => []TypeOK
<1>1. ServerInv => TypeOK
  BY DEF ServerInv
<1> QED BY <1>1, ServerInvariance, PTL

\* ItemsAreFromThePresent: whatever waits in m_SharedDataListFromClient, or is in the hands of
\* the server thread, comes from the connection m_ClientThreads has for its name: neither a
\* packet nor the report of a closed connection (ThreadedCommServer::ServerLoop) is ever
\* applied to a later client of the same name.
THEOREM ItemsAreFromThePresent == Spec => []FromThePresent
<1>1. ServerInv => FromThePresent
  <2> SUFFICES ASSUME ServerInv, NEW c \in Conns, NEW st \in {"PKT_READ", "CONNECTION_CLOSED"},
                      Pending(Up(c, st))
               PROVE  threads[ClientName[c]] = c
    BY DEF FromThePresent
  <2>1. Up(c, st).from = c /\ Up(c, st).name = ClientName[c] /\ Up(c, st).status = st
    BY DEF Up
  <2>2. CASE Up(c, st) = sd
    <3>1. sd # NoItem
      <4>1. NoItem.status = "NOT_INITIALISED"
        BY DEF NoItem
      <4> QED BY <2>1, <2>2, <4>1
    <3>2. Present(sd)
      BY <3>1 DEF ServerInv, ServerOK, HandOK
    <3> QED BY <2>1, <2>2, <3>2 DEF Present
  <2>3. CASE \E i \in DOMAIN incoming : Up(c, st) = incoming[i]
    BY <2>1, <2>3 DEF ServerInv, ItemsOK, Present
  <2> QED BY <2>2, <2>3 DEF Pending
<1> QED BY <1>1, ServerInvariance, PTL

\* TablesAlwaysAgree: m_ClientThreads, m_Socket2ClientMap, m_ClientSocketList and what the
\* database was told agree at every step, through handshakes that fail, names that are taken,
\* and disconnections that race with new connections.
THEOREM TablesAlwaysAgree == Spec => []TablesAgree
<1>1. ServerInv => TablesAgree
  BY DEF ServerInv
<1> QED BY <1>1, ServerInvariance, PTL

\* WasteDisposalHasWork: when WaitForPush returns true there is a ClientThread to pull, so
\* WasteDisposalLoop never uses a null pointer.
THEOREM WasteDisposalHasWork == Spec => []EventMeansWork
<1>1. ServerInv => EventMeansWork
  BY DEF ServerInv
<1> QED BY <1>1, ServerInvariance, PTL
===============================================================================
