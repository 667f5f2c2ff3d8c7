---------------------------- MODULE AsyncCommClient ----------------------------
(***************************************************************************)
(* The client's end of a connection: class MOOSAsyncCommClient and what it *)
(* inherits from CMOOSCommClient.  Its threads are                         *)
(*   - the writing thread, which connects, reconnects and sends;           *)
(*   - the reading thread, which fills the inbox and, when a read fails,   *)
(*     asks the writing thread to terminate the connection by a message in *)
(*     the outgoing queue;                                                 *)
(*   - the threads of the application, which post, register and fetch, and *)
(*     one that closes the client and may run it again.                    *)
(*                                                                         *)
(* Data.  Posted messages are numbered in the order Post gave them their   *)
(* m_nID and queues hold those numbers; Terminate is the number of the     *)
(* MOOS_TERMINATE_CONNECTION message.  Mail from the database is numbered  *)
(* too; TimingMsg is the message in front of a packet.  Connections are    *)
(* numbered by m_dfLastConnectionTime, the time at which they were made.   *)
(***************************************************************************)
EXTENDS Integers, Sequences, FiniteSets

CONSTANTS
    Users,      \* threads of the application
    Vars,       \* variables they register for
    Recurrent,  \* m_RecurrentSubscriptions
    OldDB,      \* the database is the single threaded one
    OutLimit,   \* OUTBOX_PENDING_LIMIT
    InLimit,    \* m_nInPendingLimit
    Breakable,  \* connections that the network or the database may break
    MaxConns,   \* bound: connections made
    MaxRuns,    \* bound: times the client is run again after Close
    MaxPosts,   \* bound: messages the application posts
    MaxMail     \* bound: mail the database sends

ASSUME ClientAssumption ==
    /\ Recurrent \subseteq Vars
    /\ OldDB \in BOOLEAN
    /\ {OutLimit, InLimit, MaxConns, MaxRuns, MaxPosts, MaxMail} \subseteq Nat
    /\ Breakable \subseteq 1..MaxConns
    /\ "writer" \notin Users

VARIABLES
    link,       \* the connections: "none", "up", "down" (broken) or "closed" (by the client)
    nconn,      \* the last socket made
    sock,       \* m_pSocket: a connection, or Null
    connected,  \* m_bConnected
    lastConn,   \* m_dfLastConnectionTime
    quit,       \* m_bQuit
    wpc, todo,  \* the writing thread; recurrent subscriptions it has yet to apply
    stuff,      \* StuffToSend
    wquit,      \* quit flag of the writing thread
    rpc, rsock, \* the reading thread and the socket ReadPkt was called with
    rstart,     \* StartTimeOfConnectionToTerminate
    pkt,        \* PktRx
    rquit,      \* quit flag of the reading thread
    posted,     \* the messages posted: what they ask and the connection they were posted on
    outbox,     \* m_OutBox
    out,        \* OutGoingQueue_
    registered, \* m_Registered
    upc, ureq,  \* the threads that post and the message each is posting
    inbox,      \* m_InBox
    mailPresent,\* m_bMailPresent
    nmail,      \* mail sent by the database
    fetched,    \* mail the application has fetched
    cpc, runs,  \* the thread that calls Close and Run, and how often it has run it again
    sent,       \* history: messages that reached the database, and on which connection
    poisoned,   \* history: the database refused the client's name
    crashed     \* the process has died: undefined behaviour, or an exception nobody catches

connVars   == <<link, nconn, sock, connected, lastConn>>
writerVars == <<wpc, todo, stuff>>
readerVars == <<rpc, rsock, rstart, pkt>>
quitVars   == <<quit, wquit, rquit>>
outVars    == <<posted, outbox, out, registered>>
userVars   == <<upc, ureq>>
inVars     == <<inbox, mailPresent, nmail, fetched>>
history    == <<sent, poisoned, crashed>>
vars == <<connVars, writerVars, readerVars, quitVars, outVars, userVars, inVars, cpc, runs, history>>

\* The writing thread posts too, for ApplyRecurrentSubscriptions.
WritingThread == "writer"

Posters == Users \cup {WritingThread}

Null == 0
Terminate == 0
TimingMsg == 0

Conns == 1..MaxConns

Kinds == {"notify", "register", "unregister"}

Request == [kind : Kinds, var : Vars, on : Conns]

NoRequest == [kind |-> "none"]

\* IsType(MOOS_TERMINATE_CONNECTION), IsNullMsg
IsMsg(n) == n # 0

Elements(s) == {s[i] : i \in DOMAIN s}

\* remove_if(IsNullMsg)
WithoutNull(s) ==
    LET kept[n \in 0..Len(s)] ==
            IF n = 0 THEN <<>>
            ELSE IF IsMsg(s[n]) THEN Append(kept[n - 1], s[n]) ELSE kept[n - 1]
    IN  kept[Len(s)]

--------------------------------------------------------------------------------
(* The network and the database                                            *)

LinkBreaks(c) ==
    /\ c \in Breakable
    /\ link[c] = "up"
    /\ link' = [link EXCEPT ![c] = "down"]
    /\ UNCHANGED <<nconn, sock, connected, lastConn, writerVars, readerVars, quitVars, outVars,
                   userVars, inVars, cpc, runs, history>>

--------------------------------------------------------------------------------
(* Resources shared by the threads                                         *)

ClearResources ==
    /\ outbox' = <<>>
    /\ inbox' = <<>>
    /\ registered' = {}

\* Post under the first lock: the message takes the next number and joins m_OutBox, which
\* drops its oldest when too full.
Boxed == LET box == Append(outbox, Len(posted) + 1)
         IN  IF Len(box) > OutLimit THEN Tail(box) ELSE box

\* Post under the second lock: when OutGoingQueue_ is too full half of it is ditched.
Ditched(q) == IF Len(q) > OutLimit THEN SubSeq(q, Len(q) - OutLimit \div 2 + 1, Len(q)) ELSE q

\* mutant of Spliced: the new messages overtake the old.
SplicedInFront(box) == box \o Ditched(out)

Spliced(box) == Ditched(out) \o box

\* Thread u calls Post, which goes on only while the client is connected.
CallPost(u, kind, v) ==
    /\ upc[u] = "idle"
    /\ connected
    /\ ureq' = [ureq EXCEPT ![u] = [kind |-> kind, var |-> v, on |-> nconn]]
    /\ upc' = [upc EXCEPT ![u] = "box"]

--------------------------------------------------------------------------------
(* The writing thread: WritingLoop, ConnectToServer, DoWriting             *)

WriterUnchanged == UNCHANGED <<readerVars, userVars, nmail, fetched, cpc, runs, wquit, rquit>>

\* A new socket for a new connection.
NewSocket ==
    /\ wpc = "new"
    /\ ~wquit
    /\ nconn < MaxConns
    /\ nconn' = nconn + 1
    /\ sock' = nconn + 1
    /\ wpc' = "connect"
    /\ WriterUnchanged
    /\ UNCHANGED <<link, connected, lastConn, todo, stuff, quit, outVars, inbox, mailPresent,
                   history>>

\* mutant of Abandoned: only success ends the connect loop.
NeverAbandoned == FALSE

Abandoned == quit

\* vConnect succeeds at some try.
Connect ==
    /\ wpc = "connect"
    /\ ~Abandoned
    /\ link' = [link EXCEPT ![sock] = "up"]
    /\ wpc' = "connected"
    /\ WriterUnchanged
    /\ UNCHANGED <<nconn, sock, connected, lastConn, todo, stuff, quit, outVars, inbox,
                   mailPresent, history>>

\* ConnectToServer returns false: OnCloseConnection, and the thread ends.
GiveUp ==
    /\ link' = [link EXCEPT ![sock] = IF @ = "up" THEN "closed" ELSE @]
    /\ sock' = Null
    /\ connected' = FALSE
    /\ ClearResources
    /\ wpc' = "done"
    /\ WriterUnchanged
    /\ UNCHANGED <<nconn, lastConn, todo, stuff, posted, out, mailPresent, sent, crashed>>

ConnectQuits ==
    /\ wpc \in {"connect", "connected"}
    /\ Abandoned
    /\ GiveUp
    /\ UNCHANGED <<quit, poisoned>>

\* The m_bQuit test after the connect loop lets the handshake begin.
BeginHandShake ==
    /\ wpc = "connected"
    /\ ~Abandoned
    /\ wpc' = "handshake"
    /\ WriterUnchanged
    /\ UNCHANGED <<connVars, todo, stuff, quit, outVars, inbox, mailPresent, history>>

\* The protocol string is sent by the socket itself, which throws an XPCException: HandShake
\* catches only CMOOSException, and nothing above it catches any.
GreetingThrows ==
    /\ wpc = "handshake"
    /\ link[sock] = "down"
    /\ crashed' = TRUE
    /\ WriterUnchanged
    /\ UNCHANGED <<connVars, writerVars, quit, outVars, inbox, mailPresent, sent, poisoned>>

\* A later send or read of the handshake throws.
HandShakeThrows ==
    /\ wpc = "handshake"
    /\ link[sock] = "down"
    /\ quit' = TRUE
    /\ GiveUp
    /\ UNCHANGED poisoned

\* The welcome is MOOS_POISON.
HandShakePoisoned ==
    /\ wpc = "handshake"
    /\ link[sock] = "up"
    /\ quit' = TRUE
    /\ poisoned' = TRUE
    /\ GiveUp

HandShake ==
    /\ wpc = "handshake"
    /\ link[sock] = "up"
    /\ connected' = TRUE
    /\ wpc' = "stamp"
    /\ WriterUnchanged
    /\ UNCHANGED <<link, nconn, sock, lastConn, todo, stuff, quit, outVars, inbox, mailPresent,
                   history>>

\* The time of the connection is set after m_bConnected.
Stamp ==
    /\ wpc = "stamp"
    /\ lastConn' = sock
    /\ todo' = Recurrent
    /\ wpc' = "apply"
    /\ WriterUnchanged
    /\ UNCHANGED <<link, nconn, sock, connected, stuff, quit, outVars, inbox, mailPresent,
                   history>>

\* ApplyRecurrentSubscriptions registers for one variable after another.
ApplyRecurrentSubscription(v) ==
    /\ wpc = "apply"
    /\ v \in todo
    /\ CallPost(WritingThread, "register", v)
    /\ todo' = todo \ {v}
    /\ UNCHANGED <<connVars, readerVars, quitVars, wpc, stuff, outVars, inVars, cpc, runs, history>>

EndApply ==
    /\ wpc = "apply"
    /\ todo = {}
    /\ upc[WritingThread] = "idle"
    /\ wpc' = "write"
    /\ WriterUnchanged
    /\ UNCHANGED <<connVars, todo, stuff, quit, outVars, inbox, mailPresent, history>>

\* mutant of TerminateRequested: only the first message is looked at.
TerminateFirst == out # <<>> /\ Head(out) = Terminate

TerminateRequested == Terminate \in Elements(out)

\* mutant of OnFailure: the result of DoWriting is ignored.
OnFailureIgnored == "write"

\* DoWriting has returned false: OnCloseConnection.
OnFailure == "close"

\* DoWriting takes the whole queue.  With nothing to send it waits, and sends a timing
\* message of its own when one is due.
DoWriting ==
    /\ wpc = "write"
    /\ ~wquit
    /\ out' = <<>>
    /\ IF TerminateRequested
       THEN wpc' = OnFailure /\ UNCHANGED stuff
       ELSE wpc' = "send" /\ stuff' = out
    /\ WriterUnchanged
    /\ UNCHANGED <<connVars, todo, quit, posted, outbox, registered, inbox, mailPresent, history>>

\* What is sent on a broken connection is lost, though SendPkt may not notice.
Arrived == IF link[sock] = "up"
           THEN [i \in DOMAIN stuff |-> [id |-> stuff[i], on |-> sock]]
           ELSE <<>>

SendPkt ==
    /\ wpc = "send"
    /\ sent' = sent \o Arrived
    /\ stuff' = <<>>
    /\ wpc' = "write"
    /\ WriterUnchanged
    /\ UNCHANGED <<connVars, todo, quit, outVars, inbox, mailPresent, poisoned, crashed>>

SendPktThrows ==
    /\ wpc = "send"
    /\ link[sock] = "down"
    /\ stuff' = <<>>
    /\ wpc' = OnFailure
    /\ WriterUnchanged
    /\ UNCHANGED <<connVars, todo, quit, outVars, inbox, mailPresent, history>>

\* OnCloseConnection, step by step: the socket is closed, deleted and set to NULL ...
CloseSocket ==
    /\ wpc = "close"
    /\ link' = [link EXCEPT ![sock] = IF @ = "up" THEN "closed" ELSE @]
    /\ sock' = Null
    /\ wpc' = "disconnect"
    /\ WriterUnchanged
    /\ UNCHANGED <<nconn, connected, lastConn, todo, stuff, quit, outVars, inbox, mailPresent,
                   history>>

\* ... then m_bConnected is reset ...
Disconnect ==
    /\ wpc = "disconnect"
    /\ connected' = FALSE
    /\ wpc' = "clear"
    /\ WriterUnchanged
    /\ UNCHANGED <<link, nconn, sock, lastConn, todo, stuff, quit, outVars, inbox, mailPresent,
                   history>>

\* ... and the boxes are emptied, but not OutGoingQueue_.
ClearAfterClose ==
    /\ wpc = "clear"
    /\ ClearResources
    /\ wpc' = "new"
    /\ WriterUnchanged
    /\ UNCHANGED <<connVars, todo, stuff, quit, posted, out, mailPresent, history>>

\* The thread is asked to quit: it deletes the socket it has, if any.
WriterQuits ==
    /\ wpc \in {"new", "write"}
    /\ wquit
    /\ link' = [c \in Conns |-> IF c = sock /\ link[c] = "up" THEN "closed" ELSE link[c]]
    /\ sock' = Null
    /\ connected' = FALSE
    /\ wpc' = "done"
    /\ WriterUnchanged
    /\ UNCHANGED <<nconn, lastConn, todo, stuff, quit, outVars, inbox, mailPresent, history>>

--------------------------------------------------------------------------------
(* The reading thread: ReadingLoop, DoReading                              *)

ReaderUnchanged == UNCHANGED <<connVars, writerVars, quitVars, posted, outbox, registered,
                               userVars, cpc, runs, sent, poisoned>>

\* The reading thread waits until it is connected, and reads.
ReaderLoops ==
    /\ rpc = "loop"
    /\ ~rquit
    /\ connected
    /\ rpc' = "enter"
    /\ ReaderUnchanged
    /\ UNCHANGED <<rsock, rstart, pkt, out, inVars, crashed>>

ReaderQuits ==
    /\ rpc = "loop"
    /\ rquit
    /\ rpc' = "done"
    /\ ReaderUnchanged
    /\ UNCHANGED <<rsock, rstart, pkt, out, inVars, crashed>>

\* ReadPkt is called with the pointer as it is now.
CallReadPkt ==
    /\ rpc = "enter"
    /\ rsock' = sock
    /\ rpc' = "read"
    /\ ReaderUnchanged
    /\ UNCHANGED <<rstart, pkt, out, inVars, crashed>>

\* The socket that ReadPkt was called with has been deleted.
Dangling == rsock # Null /\ rsock # sock

\* The connection that ReadPkt reads from.  A deleted socket still has its descriptor, which
\* the next connection is likely to be given.
ReadsFrom == rsock # Null /\ sock # Null /\ link[sock] = "up"

\* A packet: a timing message, mail, or both.  The single threaded database puts a null
\* message in front of every packet.
Packets == {<<TimingMsg>>} \cup
           (IF nmail < MaxMail
            THEN {<<TimingMsg, nmail + 1>>} \cup (IF OldDB THEN {} ELSE {<<nmail + 1>>})
            ELSE {})

ReadPkt(p) ==
    /\ rpc = "read"
    /\ ReadsFrom
    /\ pkt' = p
    /\ nmail' = IF IsMsg(p[Len(p)]) THEN nmail + 1 ELSE nmail
    /\ rsock' = Null
    /\ rpc' = "deliver"
    /\ ReaderUnchanged
    /\ UNCHANGED <<rstart, out, inbox, mailPresent, fetched, crashed>>

\* The connection is broken, or was closed by the writing thread.
ReadPktThrows ==
    /\ rpc = "read"
    /\ rsock # Null
    /\ link[rsock] # "up"
    /\ rsock' = Null
    /\ rpc' = "fail"
    /\ ReaderUnchanged
    /\ UNCHANGED <<rstart, pkt, out, inVars, crashed>>

\* Reading through a null or a dangling pointer may also end the process.
ReadPktCrashes ==
    /\ rpc = "read"
    /\ rsock = Null \/ Dangling
    /\ crashed' = TRUE
    /\ ReaderUnchanged
    /\ UNCHANGED <<readerVars, out, inVars>>

Purged == IF Len(inbox) > InLimit THEN <<>> ELSE inbox

\* The packet without the timing message in front of it.
Untimed == IF Head(pkt) = TimingMsg THEN Tail(pkt) ELSE pkt

\* mutant of Delivered: mail is put in front.
DeliveredInFront == Untimed \o Purged

\* The packet joins the inbox.  A timing message is taken out again where it is; for a null
\* message it is the front of the inbox that goes.
Delivered ==
    IF OldDB THEN Tail(Purged \o pkt) ELSE Purged \o Untimed

\* mutant of Announced: off by one.
AnnouncedLate(box) == Len(box) > 1

Announced(box) == box # <<>>

Deliver ==
    /\ rpc = "deliver"
    /\ inbox' = Delivered
    /\ mailPresent' = Announced(Delivered)
    /\ pkt' = <<>>
    /\ rpc' = "loop"
    /\ ReaderUnchanged
    /\ UNCHANGED <<rsock, rstart, out, nmail, fetched, crashed>>

\* DoReading has failed: the connection to terminate is the one of now ...
NoteConnection ==
    /\ rpc = "fail"
    /\ rstart' = lastConn
    /\ rpc' = "tell"
    /\ ReaderUnchanged
    /\ UNCHANGED <<rsock, pkt, out, inVars, crashed>>

\* ... the writing thread is asked to terminate it ...
RequestTerminate ==
    /\ rpc = "tell"
    /\ out' = Append(out, Terminate)
    /\ rpc' = "wait"
    /\ ReaderUnchanged
    /\ UNCHANGED <<rsock, rstart, pkt, inVars, crashed>>

\* mutant of Terminated: only a client that is not connected has terminated the connection.
TerminatedIfSeen == ~connected

\* The connection has terminated, even when the next one is made before anyone looks.
Terminated == ~connected \/ lastConn # rstart

\* ... and the reading thread waits until it has.
ReaderWaits ==
    /\ rpc = "wait"
    /\ Terminated
    /\ rstart' = Null
    /\ rpc' = "loop"
    /\ ReaderUnchanged
    /\ UNCHANGED <<rsock, pkt, out, inVars, crashed>>

--------------------------------------------------------------------------------
(* The application                                                         *)

UserUnchanged == UNCHANGED <<connVars, writerVars, readerVars, quitVars, cpc, runs, history>>

\* The messages that are posted or about to be.
Begun == Len(posted) + Cardinality({u \in Users : upc[u] = "box"})

\* Register, UnRegister and Notify; UnRegister posts only for what is registered.
Post(u, kind, v) ==
    /\ Begun < MaxPosts
    /\ kind = "unregister" => v \in registered
    /\ CallPost(u, kind, v)
    /\ UserUnchanged
    /\ UNCHANGED <<outVars, inVars>>

\* Post under its first lock, connected or not by now.
Box(u) ==
    /\ upc[u] = "box"
    /\ outbox' = Boxed
    /\ posted' = Append(posted, ureq[u])
    /\ upc' = [upc EXCEPT ![u] = "splice"]
    /\ UserUnchanged
    /\ UNCHANGED <<out, registered, ureq, inVars>>

\* The rest of Post: m_OutBox is spliced to OutGoingQueue_.
Splice(u) ==
    /\ upc[u] = "splice"
    /\ out' = Spliced(outbox)
    /\ outbox' = <<>>
    /\ upc' = [upc EXCEPT ![u] = "note"]
    /\ UserUnchanged
    /\ UNCHANGED <<posted, registered, ureq, inVars>>

\* Register and UnRegister note it once Post has returned true.
NoteRegistration(u) ==
    /\ upc[u] = "note"
    /\ registered' = CASE ureq[u].kind = "register"   -> registered \cup {ureq[u].var}
                       [] ureq[u].kind = "unregister" -> registered \ {ureq[u].var}
                       [] OTHER                       -> registered
    /\ upc' = [upc EXCEPT ![u] = "idle"]
    /\ ureq' = [ureq EXCEPT ![u] = NoRequest]
    /\ UserUnchanged
    /\ UNCHANGED <<posted, outbox, out, inVars>>

\* Fetch removes null messages and takes the rest.
Fetch ==
    /\ mailPresent
    /\ fetched' = fetched \o WithoutNull(inbox)
    /\ inbox' = <<>>
    /\ mailPresent' = FALSE
    /\ UserUnchanged
    /\ UNCHANGED <<outVars, userVars, nmail>>

CloserUnchanged == UNCHANGED <<runs, connVars, writerVars, posted, userVars, mailPresent, nmail,
                               fetched, history>>

\* Close: m_bQuit, ClearResources, and the reading thread is asked to stop ...
Close ==
    /\ cpc = "running"
    /\ quit' = TRUE
    /\ ClearResources
    /\ rquit' = TRUE
    /\ cpc' = "reader"
    /\ CloserUnchanged
    /\ UNCHANGED <<readerVars, out, wquit>>

\* ... once it has, the writing thread is woken by a request to terminate ...
JoinReader ==
    /\ cpc = "reader"
    /\ rpc = "done"
    /\ out' = Append(out, Terminate)
    /\ cpc' = "stop"
    /\ CloserUnchanged
    /\ UNCHANGED <<readerVars, quitVars, outbox, registered, inbox>>

\* ... asked to stop ...
StopWriter ==
    /\ cpc = "stop"
    /\ wquit' = TRUE
    /\ cpc' = "writer"
    /\ CloserUnchanged
    /\ UNCHANGED <<readerVars, quit, rquit, out, outbox, registered, inbox>>

\* ... and waited for.
JoinWriter ==
    /\ cpc = "writer"
    /\ wpc = "done"
    /\ cpc' = "closed"
    /\ CloserUnchanged
    /\ UNCHANGED <<readerVars, quitVars, out, outbox, registered, inbox>>

\* Run starts the client again; OutGoingQueue_ is as it was left.
Run ==
    /\ cpc = "closed"
    /\ runs < MaxRuns
    /\ runs' = runs + 1
    /\ quit' = FALSE
    /\ wquit' = FALSE
    /\ rquit' = FALSE
    /\ wpc' = "new"
    /\ rpc' = "loop"
    /\ cpc' = "running"
    /\ UNCHANGED <<connVars, todo, stuff, rsock, rstart, pkt, outVars, userVars, inVars, history>>

--------------------------------------------------------------------------------
Init ==
    /\ link = [c \in Conns |-> "none"]
    /\ nconn = 0
    /\ sock = Null
    /\ connected = FALSE
    /\ lastConn = Null
    /\ quit = FALSE
    /\ wpc = "new"
    /\ todo = {}
    /\ stuff = <<>>
    /\ wquit = FALSE
    /\ rpc = "loop"
    /\ rsock = Null
    /\ rstart = Null
    /\ pkt = <<>>
    /\ rquit = FALSE
    /\ posted = <<>>
    /\ outbox = <<>>
    /\ out = <<>>
    /\ registered = {}
    /\ upc = [u \in Posters |-> "idle"]
    /\ ureq = [u \in Posters |-> NoRequest]
    /\ inbox = <<>>
    /\ mailPresent = FALSE
    /\ nmail = 0
    /\ fetched = <<>>
    /\ cpc = "running"
    /\ runs = 0
    /\ sent = <<>>
    /\ poisoned = FALSE
    /\ crashed = FALSE

Writer ==
    \/ NewSocket \/ ConnectQuits \/ BeginHandShake
    \/ GreetingThrows \/ HandShakeThrows \/ HandShakePoisoned \/ HandShake \/ Stamp
    \/ \E v \in Vars : ApplyRecurrentSubscription(v)
    \/ EndApply
    \/ DoWriting \/ SendPkt \/ SendPktThrows
    \/ CloseSocket \/ Disconnect \/ ClearAfterClose \/ WriterQuits

Reader ==
    \/ ReaderLoops \/ ReaderQuits \/ CallReadPkt
    \/ \E p \in Packets : ReadPkt(p)
    \/ ReadPktThrows \/ ReadPktCrashes \/ Deliver
    \/ NoteConnection \/ RequestTerminate \/ ReaderWaits

User(u) == \E kind \in Kinds, v \in Vars : Post(u, kind, v)

InPost(u) == Box(u) \/ Splice(u) \/ NoteRegistration(u)

Closer == Close \/ JoinReader \/ StopWriter \/ JoinWriter \/ Run

Next ==
    /\ ~crashed
    /\ \/ Connect
       \/ Writer
       \/ Reader
       \/ \E u \in Users : User(u)
       \/ \E u \in Posters : InPost(u)
       \/ Fetch
       \/ Closer
       \/ \E c \in Conns : LinkBreaks(c)

Spec == Init /\ [][Next]_vars

\* The threads run.  A database need never be there to connect to, but one that has accepted
\* a connection shakes hands or goes.  A send on a broken connection fails in the end, though
\* TCP may take some first; the database answers every timing message, so that a read on a
\* sound connection returns; whoever has called Close or Post goes through with it.
Fairness ==
    /\ WF_vars(~crashed /\ Writer)
    /\ SF_vars(~crashed /\ SendPktThrows)
    /\ WF_vars(~crashed /\ Reader)
    /\ \A u \in Posters : WF_vars(~crashed /\ InPost(u))
    /\ WF_vars(~crashed /\ (JoinReader \/ StopWriter \/ JoinWriter))

FairSpec == Spec /\ Fairness

--------------------------------------------------------------------------------
(* Properties                                                              *)

Increasing(s) == \A i, j \in DOMAIN s : i < j => s[i] < s[j]

Ids(s) == [i \in DOMAIN s |-> s[i].id]

\* The messages among s, leaving aside requests to terminate and null messages, ascend.
InOrder(s) == \A i, j \in DOMAIN s : i < j /\ IsMsg(s[i]) /\ IsMsg(s[j]) => s[i] < s[j]

\* What waits to be sent, the oldest first.
Unsent == stuff \o out \o outbox

\* TypeOK: the type of the state.
TypeOK ==
    /\ link \in [Conns -> {"none", "up", "down", "closed"}]
    /\ nconn \in 0..MaxConns
    /\ {sock, lastConn, rsock, rstart} \subseteq 0..nconn
    /\ {connected, quit, wquit, rquit, mailPresent, poisoned, crashed} \subseteq BOOLEAN
    /\ wpc \in {"new", "connect", "connected", "handshake", "stamp", "apply", "write", "send",
                "close", "disconnect", "clear", "done"}
    /\ wpc \in {"connect", "connected", "handshake", "stamp", "apply", "write", "send", "close"}
           => sock # Null
    /\ rpc \in {"loop", "enter", "read", "deliver", "fail", "tell", "wait", "done"}
    /\ cpc \in {"running", "reader", "stop", "writer", "closed"}
    /\ runs \in 0..MaxRuns
    /\ todo \subseteq Vars
    /\ registered \subseteq Vars
    /\ posted \in Seq(Request)
    /\ {stuff, out, outbox} \subseteq Seq(0..Len(posted))
    /\ upc \in [Posters -> {"idle", "box", "splice", "note"}]
    /\ ureq \in [Posters -> Request \cup {NoRequest}]
    /\ nmail \in 0..MaxMail
    /\ {pkt, inbox, fetched} \subseteq Seq(0..nmail)
    /\ sent \in Seq([id : 1..Len(posted), on : Conns])

\* PostsKeepTheirOrder: whatever threads post, and however often the connection is lost, the
\* database receives messages in the order in which they were posted and none twice; what
\* waits to be sent comes after what was sent (Post, DoWriting).
PostsKeepTheirOrder == Increasing(Ids(sent)) /\ InOrder(Ids(sent) \o Unsent)

\* MailKeepsItsOrder: the application fetches mail in the order in which the database sent
\* it, and none twice, across connections (DoReading, Fetch).
MailKeepsItsOrder == Increasing(fetched) /\ InOrder(fetched \o inbox \o pkt)

\* MailIsAnnounced: mail in the inbox is never hidden from Fetch by the flag it tests before
\* it takes the lock.
MailIsAnnounced == inbox # <<>> => mailPresent

\* BrokenConnectionsAreLeft: a connection that breaks is eventually given up, whichever of
\* the two threads finds out first.
BrokenConnectionsAreLeft ==
    \A c \in Conns : (sock = c /\ link[c] = "down") ~> (sock # c \/ crashed)

\* ReaderComesBack: the reading thread does not wait for ever for a connection to terminate
\* (ReadingLoop).
ReaderComesBack == rpc = "wait" ~> (rpc # "wait" \/ crashed)

\* CloseReturns: Close, which waits for both threads, returns.
CloseReturns == cpc = "reader" ~> (cpc = "closed" \/ crashed)

\* NobodyWaitsForEver: neither the reading thread nor Close waits for ever for the other threads.
NobodyWaitsForEver == ReaderComesBack /\ CloseReturns

\* QuitsOnlyWhenPoisoned: the client stops trying to connect only when it was refused or
\* closed.
QuitsOnlyWhenPoisoned == wpc = "done" => poisoned \/ cpc # "running"

\* PostedIsTransmitted: a message that Post accepted is sent or waits to be, unless its
\* connection broke or the client was closed.
PostedIsTransmitted ==
    \A id \in DOMAIN posted :
        \/ id \in Elements(Ids(sent)) \cup Elements(Unsent)
        \/ link[posted[id].on] = "down"
        \/ cpc # "running"

\* RegisteredMeansAsked: while the client is connected, a variable it says it is registered
\* for has been asked of the database on this connection, or will be.
RegisteredMeansAsked ==
    connected /\ cpc = "running" => \A v \in registered : \E id \in DOMAIN posted :
        /\ posted[id].kind = "register"
        /\ posted[id].var = v
        /\ \/ id \in Elements(Unsent)
           \/ \E i \in DOMAIN sent : sent[i] = [id |-> id, on |-> nconn]
           \/ link[nconn] = "down"

\* ReaderHasSocket: a client that is connected has a socket for its reading thread to read.
ReaderHasSocket == rpc = "read" => rsock # Null

\* MailIsKept: mail that was received is not dropped before the application has fetched it,
\* unless there is too much of it or the connection ends.
MailIsKept ==
    [][ rpc = "deliver" /\ rpc' = "loop" /\ Len(inbox) <= InLimit =>
          WithoutNull(inbox') = WithoutNull(inbox \o pkt) ]_vars

================================================================================
