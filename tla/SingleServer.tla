---------------------------- MODULE SingleServer ----------------------------
(***************************************************************************)
(* CMOOSCommServer as it runs in a database without threads per client:    *)
(* the listen thread, the server thread that selects over all sockets and  *)
(* answers each packet, and the timer thread that drops clients not heard  *)
(* of.  They share m_ClientSocketList under m_SocketListLock.  The listen  *)
(* thread holds the lock through the whole hand shake; the server thread   *)
(* does not hold it during select, so the set of descriptors it selected   *)
(* may be out of date, and a descriptor may be in use by another client by *)
(* the time it is looked at.                                               *)
(***************************************************************************)
EXTENDS Integers, Sequences, SequencesExt

CONSTANTS SSClients,     \* clients, each with its own name
          Fds,           \* descriptors, a set of positive integers
          MaxAccepts     \* bound: connections

VARIABLES ssList,        \* m_ClientSocketList
          ssWho,         \* m_Socket2ClientMap
          ssMax,         \* m_nMaxSocketFD
          ssPeer,        \* the open sockets: their descriptors, and the client at the other end
          ssLpc,         \* the listen thread
          ssFd,          \* pNewSocket
          ssHeld,        \* m_SocketListLock is locked by the listen thread
          ssPc,          \* the server thread
          ssSet,         \* fdset
          ssTodo,        \* sockets the server thread has yet to look at
          ssWaiting,     \* sockets with a packet to be read
          ssEof,         \* sockets whose client has closed its end
          ssSilent,      \* sockets whose read time is too long ago
          ssAccepts,
          told,          \* history: per client, connect callbacks minus disconnect callbacks
          jilted         \* history: descriptors named in a hand shake whose welcome failed

ssSockets == <<ssPeer, ssWaiting, ssEof, ssSilent>>
ssListen == <<ssLpc, ssFd, ssHeld, ssAccepts>>
ssServer == <<ssPc, ssSet, ssTodo>>
ssTables == <<ssList, ssWho, ssMax, told, jilted>>
ssVars == <<ssTables, ssSockets, ssListen, ssServer>>

SSInit ==
    /\ ssList = <<>> /\ ssWho = <<>> /\ ssMax = 0 /\ ssPeer = <<>>
    /\ ssLpc = "accept" /\ ssFd = 0 /\ ssHeld = FALSE
    /\ ssPc = "top" /\ ssSet = {} /\ ssTodo = <<>>
    /\ ssWaiting = {} /\ ssEof = {} /\ ssSilent = {} /\ ssAccepts = 0
    /\ told = [c \in SSClients |-> 0] /\ jilted = {}

Open == DOMAIN ssPeer
Listed == ToSet(ssList)
ListFree == ~ssHeld /\ ssPc # "serve"           \* m_SocketListLock
GetMaxSocketFD(list) == IF list = <<>> THEN 0 ELSE CHOOSE f \in ToSet(list) : \A g \in ToSet(list) : g <= f

With(table, f, c) == [g \in DOMAIN table \cup {f} |-> IF g = f THEN c ELSE table[g]]

\* vCloseSocket: what the client sent is gone, and the descriptor may be given out again.
CloseSocket(f) ==
    /\ ssPeer' = [g \in Open \ {f} |-> ssPeer[g]]
    /\ ssWaiting' = ssWaiting \ {f} /\ ssEof' = ssEof \ {f} /\ ssSilent' = ssSilent \ {f}

----------------------------------------------------------------------------
(* The listen thread.  Anyone may call: a client that has a socket already, or one that never says
   what it wants. *)

ListenAccept(c, f) ==
    /\ ssLpc = "accept" /\ ssAccepts < MaxAccepts /\ f \in Fds \ Open
    /\ ssPeer' = With(ssPeer, f, c)
    /\ ssLpc' = "lock" /\ ssFd' = f /\ ssAccepts' = ssAccepts + 1
    /\ UNCHANGED <<ssTables, ssWaiting, ssEof, ssSilent, ssHeld, ssServer>>

ListenLock ==
    /\ ssLpc = "lock" /\ ListFree
    /\ ssHeld' = TRUE /\ ssLpc' = "protocol"
    /\ UNCHANGED <<ssTables, ssSockets, ssFd, ssAccepts, ssServer>>

\* CheckProtocol reads without a time limit: this step need not come.
CheckProtocol ==
    /\ ssLpc = "protocol"
    /\ ssLpc' = "name"
    /\ UNCHANGED <<ssTables, ssSockets, ssFd, ssHeld, ssAccepts, ssServer>>

\* recv fails otherwise than by a reset: HandShake does not catch an XPCException, ListenLoop catches
\* it past the UnLock, and the socket stays open in nobody's hands.
HandShakeThrows ==
    /\ ssLpc = "protocol"
    /\ ssLpc' = "accept"
    /\ UNCHANGED <<ssTables, ssSockets, ssFd, ssHeld, ssAccepts, ssServer>>

\* OnNewClient closes the socket of a hand shake that returned false, and ListenLoop unlocks.
Spurn ==
    /\ CloseSocket(ssFd)
    /\ ssLpc' = "accept" /\ ssHeld' = FALSE
    /\ UNCHANGED <<ssList, ssWho, ssMax, told, ssFd, ssAccepts, ssServer>>

\* A wrong protocol, a client that goes, no name within five seconds: nothing was entered yet.
HandShakeFails == ssLpc \in {"protocol", "name"} /\ Spurn /\ UNCHANGED jilted

IsUniqueName(c) == \A f \in DOMAIN ssWho : ssWho[f] # c

\* A client of this name already exists: PoisonClient, whether it can be sent or not.
HandShakePoisons == ssLpc = "name" /\ ~IsUniqueName(ssPeer[ssFd]) /\ Spurn /\ UNCHANGED jilted

\* The name is entered before the welcome is sent.
HandShakeNames ==
    /\ ssLpc = "name" /\ IsUniqueName(ssPeer[ssFd])
    /\ ssWho' = With(ssWho, ssFd, ssPeer[ssFd]) /\ jilted' = jilted \ {ssFd}
    /\ ssLpc' = "welcome"
    /\ UNCHANGED <<ssList, ssMax, told, ssSockets, ssFd, ssHeld, ssAccepts, ssServer>>

\* SendMsg throws: the hand shake has failed, and what it put in m_Socket2ClientMap stays there.
WelcomeFails == ssLpc = "welcome" /\ Spurn /\ jilted' = jilted \cup {ssFd}

\* Mutant: the largest descriptor is worked out before the new one is in the list.
MaxBefore(f) == GetMaxSocketFD(ssList)

MaxWith(f) == GetMaxSocketFD(<<f>> \o ssList)

\* The welcome is sent and the connect callback run; the socket joins the front of the list.
Welcome ==
    /\ ssLpc = "welcome"
    /\ ssList' = <<ssFd>> \o ssList /\ ssMax' = MaxWith(ssFd)
    /\ told' = [told EXCEPT ![ssWho[ssFd]] = @ + 1]
    /\ ssLpc' = "accept" /\ ssHeld' = FALSE
    /\ UNCHANGED <<ssWho, jilted, ssSockets, ssFd, ssAccepts, ssServer>>

----------------------------------------------------------------------------
(* The clients, from the welcome on. *)

ClientSends(f) ==
    /\ f \in Listed \ (ssWaiting \cup ssEof)
    /\ ssWaiting' = ssWaiting \cup {f}
    /\ UNCHANGED <<ssTables, ssPeer, ssEof, ssSilent, ssListen, ssServer>>

ClientCloses(f) ==
    /\ f \in Listed \ ssEof
    /\ ssEof' = ssEof \cup {f}
    /\ UNCHANGED <<ssTables, ssPeer, ssWaiting, ssSilent, ssListen, ssServer>>

\* The time since the last read, not since the last arrival, passes the limit.
GrowsSilent(f) ==
    /\ f \in Listed \ ssSilent
    /\ ssSilent' = ssSilent \cup {f}
    /\ UNCHANGED <<ssTables, ssPeer, ssWaiting, ssEof, ssListen, ssServer>>

----------------------------------------------------------------------------
(* The server thread. *)

Rotated(list) == <<Last(list)>> \o Front(list)

SetUpSelect ==
    /\ ssPc = "top" /\ ~ssHeld /\ ssList # <<>>
    /\ ssList' = Rotated(ssList)
    /\ ssSet' = {f \in Listed : f <= ssMax}
    /\ ssPc' = "select"
    /\ UNCHANGED <<ssWho, ssMax, told, jilted, ssSockets, ssListen, ssTodo>>

(* select returns: a descriptor closed meanwhile is tolerated, a time out changes nothing, and
   otherwise the readable descriptors are left in the set; one given out again meanwhile is readable
   when the new client has begun its hand shake. *)
SelectReturns ==
    /\ ssPc = "select"
    /\ \E ready \in SUBSET ssSet :
          /\ ready \cap Listed = ssSet \cap Listed \cap (ssWaiting \cup ssEof)
          /\ IF ready = {} \/ ~(ssSet \subseteq Open)
             THEN ssPc' = "top" /\ ssSet' = {}
             ELSE ssPc' = "ready" /\ ssSet' = ready
    /\ UNCHANGED <<ssTables, ssSockets, ssListen, ssTodo>>

BeginServe ==
    /\ ssPc = "ready" /\ ~ssHeld
    /\ ssPc' = "serve" /\ ssTodo' = ssList
    /\ UNCHANGED <<ssTables, ssSockets, ssListen, ssSet>>

Skip ==
    /\ ssPc = "serve" /\ ssTodo # <<>> /\ Head(ssTodo) \notin ssSet
    /\ ssTodo' = Tail(ssTodo)
    /\ UNCHANGED <<ssTables, ssSockets, ssListen, ssPc, ssSet>>

\* ProcessClient: the read blocks until there is a packet; the answer goes out at once.
ProcessClient ==
    /\ ssPc = "serve" /\ ssTodo # <<>> /\ Head(ssTodo) \in ssSet \cap ssWaiting
    /\ ssWaiting' = ssWaiting \ {Head(ssTodo)} /\ ssSilent' = ssSilent \ {Head(ssTodo)}
    /\ ssTodo' = Tail(ssTodo)
    /\ UNCHANGED <<ssTables, ssPeer, ssEof, ssListen, ssPc, ssSet>>

\* Mutant: a client that is dropped keeps its name.
KeepName(f) == ssWho

Forget(f) == [g \in DOMAIN ssWho \ {f} |-> ssWho[g]]

\* Where the socket with descriptor f is in the list.
Place(f) == CHOOSE i \in DOMAIN ssList : ssList[i] = f

(* OnClientDisconnect and OnAbsentClient: the name goes, the largest descriptor is worked out
   (with the socket still in the list), the socket is closed, the callback run; the caller
   erases the socket from the list. *)
Drop(f) ==
    /\ ssWho' = Forget(f)
    /\ ssMax' = GetMaxSocketFD(ssList)
    /\ CloseSocket(f)
    /\ told' = [told EXCEPT ![ssWho[f]] = @ - 1]
    /\ ssList' = RemoveAt(ssList, Place(f))
    /\ UNCHANGED <<jilted, ssListen>>

\* The read fails or the answer cannot be sent; the loop is left.
OnClientDisconnect ==
    /\ ssPc = "serve" /\ ssTodo # <<>> /\ Head(ssTodo) \in ssSet \cap ssEof
    /\ Drop(Head(ssTodo))
    /\ ssPc' = "top" /\ ssTodo' = <<>>
    /\ UNCHANGED ssSet

EndServe ==
    /\ ssPc = "serve" /\ ssTodo = <<>>
    /\ ssPc' = "top"
    /\ UNCHANGED <<ssTables, ssSockets, ssListen, ssSet, ssTodo>>

----------------------------------------------------------------------------
(* The timer thread drops the clients it has not heard of, one pass of its loop for each. *)
OnAbsentClient(f) ==
    /\ ListFree /\ f \in Listed \cap ssSilent
    /\ Drop(f)
    /\ UNCHANGED ssServer

ServerLoop == \/ SetUpSelect \/ SelectReturns \/ BeginServe \/ Skip \/ ProcessClient
              \/ OnClientDisconnect \/ EndServe

\* The hand shake once the protocol string has come: its reads have a time limit.
Greeting == HandShakePoisons \/ HandShakeNames \/ WelcomeFails \/ Welcome

SSNext ==
    \/ ServerLoop \/ Greeting
    \/ \E c \in SSClients, f \in Fds : ListenAccept(c, f)
    \/ ListenLock \/ CheckProtocol \/ HandShakeThrows \/ HandShakeFails
    \/ \E f \in Fds : ClientSends(f) \/ ClientCloses(f) \/ GrowsSilent(f) \/ OnAbsentClient(f)

(* The server thread runs, and so does the listen thread where it does not wait for its caller; a
   client calls in again and again, as ClientLoop does. *)
SSSpec == /\ SSInit /\ [][SSNext]_ssVars /\ WF_ssVars(ServerLoop) /\ WF_ssVars(Greeting)
          /\ \A f \in Fds : WF_ssVars(ClientSends(f))

----------------------------------------------------------------------------
\* An exception went past the UnLock.
LeftLocked == ssHeld /\ ssLpc \in {"accept", "lock"}

(* Each socket in the list is open and there once; no open socket is in nobody's hands, unless an
   exception has left the listen thread with the lock. *)
SocketsAreKept ==
    /\ IsInjective(ssList) /\ Listed \subseteq Open
    /\ Open \ Listed # {} => LeftLocked \/ (ssLpc # "accept" /\ Open \ Listed = {ssFd})

(* The name of a listed socket is that of the client at its other end, although descriptors are
   given out again; no two sockets have one name; and a name without a listed socket is being
   welcomed or was welcomed in vain. *)
NamesAreTrue ==
    /\ \A f \in Listed : f \in DOMAIN ssWho /\ ssWho[f] = ssPeer[f]
    /\ \A f, g \in DOMAIN ssWho : ssWho[f] = ssWho[g] => f = g
    /\ DOMAIN ssWho \ Listed = IF ssLpc = "welcome" THEN jilted \cup {ssFd} ELSE jilted

(* The list and the table of names stay in step through hand shakes that fail half way and drops by
   either thread, and the database has been told of exactly the clients that have a socket. *)
ServerTablesAgree ==
    /\ SocketsAreKept /\ NamesAreTrue
    /\ \A c \in SSClients : told[c] = IF \E f \in Listed : ssPeer[f] = c THEN 1 ELSE 0

(* False: a name that IsUniqueName refuses has a socket.  The hand shake enters it before the welcome
   is sent and leaves it when that fails, so the client is poisoned each time it comes back. *)
NamesHaveSockets == ssLpc # "welcome" => DOMAIN ssWho = Listed

\* A caller that does not say its protocol string, or an exception, keeps the list locked.
KeptLocked == ssHeld /\ ssLpc \in {"accept", "lock", "protocol"}

(* A client that calls in is answered or dropped, whatever the other clients do, although its
   socket may join while the server thread is inside select and may have the descriptor of a
   client that left - unless the list is locked for good by a hand shake that waits for its
   caller without a limit, or by an exception. *)
CallIsAnswered == (\A f \in Fds : (f \in ssWaiting) ~> (f \notin ssWaiting)) \/ <>[]KeptLocked

(* False: a client is answered whoever else calls in.  One mute caller stops all. *)
CallIsAlwaysAnswered == \A f \in Fds : (f \in ssWaiting) ~> (f \notin ssWaiting)
=============================================================================
