----------------------------- MODULE SyncClient -----------------------------
(***************************************************************************)
(* The synchronous client, CMOOSCommClient: a thread that connects and     *)
(* then calls the database in at a fixed rate, sending the outbox and      *)
(* reading one packet back, and a user thread that posts, fetches, flushes *)
(* (which calls the database in from the user's thread), makes server      *)
(* requests, closes the client and runs it again.  m_WorkLock keeps the    *)
(* two threads' exchanges apart.  The database notes the registrations in  *)
(* a packet and answers it with the mail it has and with the replies to    *)
(* the requests in it.  Everything that is posted, registrations too,      *)
(* waits in an outbox that loses its oldest message at its limit.          *)
(***************************************************************************)
EXTENDS Integers, Sequences, SequencesExt, FiniteSets

CONSTANTS OutLimit,      \* OUTBOX_PENDING_LIMIT
          OutLimits,     \* the limits ExpectOutboxOverflow is called with
          InLimit,       \* m_nInPendingLimit
          Subs,          \* names of recurrent subscriptions
          MaxSyncPosts, MaxSyncMail, MaxRequests, MaxConnections   \* bounds

\* An outbox of limit 0 keeps nothing that is posted, a server request neither.
ASSUME SyncAssumption == OutLimit \in Nat \ {0} /\ OutLimits \subseteq Nat \ {0}

VARIABLES loopPc,        \* the client thread
          userPc,        \* the user thread
          ex,            \* per thread: where it is in DoClientWork
          worker,        \* who holds m_WorkLock
          got,           \* per thread: the packet it has read
          scUp,          \* m_bConnected
          scQuit,        \* m_bQuit
          scStop,        \* the client thread's quit request
          scOut, scIn,   \* m_OutBox, m_InBox
          outLimit,      \* m_nOutPendingLimit
          mailPresent,   \* m_bMailPresent
          recurrent,     \* m_RecurrentSubscriptions, each with the connection in which it was added
          toApply,       \* those that ApplyRecurrentSubscriptions has still to register
          scReg,         \* registrations the database has for this connection
          flight,        \* packets sent and not yet answered
          answers,       \* packets the database has sent
          posts, mailNo, requests, epoch,  \* how many so far
          askedIn,       \* the connection in which the last request was posted; 0 once its
                         \* reply may have been purged
          scLost,        \* history: what the outbox has lost at its limit in this connection
          seen           \* history: what has left the inbox, given to the user or discarded

Threads == {"loop", "user"}
Nobody == "nobody"
Request == <<"request">>                 \* every request has the same ID
Registration(s) == <<"register", s>>
Reply == 0                               \* in the inbox, to a request

subs  == <<recurrent, toApply, scLost>>
boxes == <<scOut, scIn, mailPresent, outLimit>>
conn  == <<scUp, flight, answers, scReg>>
count == <<posts, mailNo, requests, epoch>>
scVars == <<loopPc, userPc, ex, worker, got, boxes, conn, scQuit, scStop, recurrent, toApply,
            count, askedIn, scLost, seen>>

SCInit ==
    /\ loopPc = "none" /\ userPc = "idle" /\ ex = [t \in Threads |-> "none"] /\ worker = Nobody
    /\ got = [t \in Threads |-> <<>>] /\ scUp = FALSE /\ scQuit = FALSE /\ scStop = FALSE
    /\ scOut = <<>> /\ scIn = <<>> /\ mailPresent = FALSE /\ outLimit = OutLimit
    /\ recurrent = <<>> /\ toApply = {} /\ scReg = {} /\ scLost = {}
    /\ flight = <<>> /\ answers = <<>> /\ posts = 0 /\ mailNo = 0 /\ requests = 0 /\ epoch = 0
    /\ askedIn = 0 /\ seen = <<>>

----------------------------------------------------------------------------
(* The client thread outside DoClientWork. *)

Run ==
    /\ loopPc = "none" /\ userPc = "idle"
    /\ loopPc' = "connect" /\ scQuit' = FALSE /\ scStop' = FALSE
    /\ UNCHANGED <<userPc, ex, worker, got, boxes, conn, subs, count, askedIn, seen>>

(* ConnectToServer: it retries until it gets through; a hand shake that fails sets m_bQuit, and
   with m_bQuit set it returns at once. *)
ConnectToServer ==
    /\ loopPc = "connect" /\ ~scStop /\ ~scQuit
    /\ \/ /\ epoch < MaxConnections
          /\ scUp' = TRUE /\ loopPc' = "hook" /\ flight' = <<>> /\ answers' = <<>> /\ scReg' = {}
          /\ epoch' = epoch + 1 /\ scLost' = {}
          /\ UNCHANGED scQuit
       \/ scQuit' = TRUE /\ UNCHANGED <<loopPc, conn, epoch, scLost>>
    /\ UNCHANGED <<userPc, ex, worker, got, boxes, scStop, recurrent, toApply, posts, mailNo,
                   requests, askedIn, seen>>

\* Post: an outbox over its limit loses its oldest message.
Overflows == Len(scOut) + 1 > outLimit
Posted(msg) == LET box == Append(scOut, msg) IN IF Overflows THEN Tail(box) ELSE box
Discarded(msg) == IF Overflows THEN {Head(Append(scOut, msg))} ELSE {}

\* ApplyRecurrentSubscriptions takes RecurrentSubscriptionLock.
StartToApply ==
    /\ loopPc = "hook"
    /\ toApply' = DOMAIN recurrent
    /\ loopPc' = "apply"
    /\ UNCHANGED <<userPc, ex, worker, got, boxes, conn, scQuit, scStop, recurrent, scLost, count,
                   askedIn, seen>>

\* Register posts; it fails once the connection is gone, and then the others are not tried.
ApplyRecurrentSubscriptions(s) ==
    /\ loopPc = "apply" /\ scUp /\ s \in toApply
    /\ toApply' = toApply \ {s}
    /\ scOut' = Posted(Registration(s))
    /\ scLost' = scLost \cup Discarded(Registration(s))
    /\ UNCHANGED <<loopPc, userPc, ex, worker, got, scIn, mailPresent, outLimit, conn, scQuit,
                   scStop, recurrent, count, askedIn, seen>>

\* Mutant: the last one is left out.
AllButOne == Cardinality(toApply) <= 1

AllApplied == toApply = {}

Applied ==
    /\ loopPc = "apply" /\ (AllApplied \/ ~scUp)
    /\ toApply' = {}
    /\ loopPc' = "work"
    /\ UNCHANGED <<userPc, ex, worker, got, boxes, conn, scQuit, scStop, recurrent, scLost, count,
                   askedIn, seen>>

Tick ==
    /\ loopPc = "tick"
    /\ loopPc' = IF scQuit THEN "connect" ELSE "work"
    /\ UNCHANGED <<userPc, ex, worker, got, boxes, conn, scQuit, scStop, subs, count, askedIn,
                   seen>>

EndLoop ==
    /\ loopPc = "connect" /\ scStop
    /\ loopPc' = "ended" /\ scUp' = FALSE
    /\ UNCHANGED <<userPc, ex, worker, got, boxes, flight, answers, scReg, scQuit, scStop, subs,
                   count, askedIn, seen>>

----------------------------------------------------------------------------
(* DoClientWork, by either thread. *)

\* What the thread goes on with when DoClientWork returns b.
BackIn(t, b) ==
    IF t = "loop"
    THEN loopPc' = (IF b THEN "tick" ELSE "connect") /\ UNCHANGED userPc
    ELSE /\ userPc' = CASE userPc = "flush" -> "idle"
                        [] userPc = "request" -> IF b THEN "poll" ELSE "idle"
         /\ UNCHANGED loopPc

Calls(t) == ex[t] = "none" /\ IF t = "loop" THEN loopPc = "work" ELSE userPc \in {"flush", "request"}

\* Mutant: the exchange is not a critical section.
NoWorkLock(t) == TRUE

WorkLockFree(t) == worker = Nobody

BeginWork(t) ==
    /\ Calls(t) /\ WorkLockFree(t)
    /\ IF scUp
       THEN ex' = [ex EXCEPT ![t] = "send"] /\ worker' = t /\ UNCHANGED <<loopPc, userPc>>
       ELSE BackIn(t, FALSE) /\ UNCHANGED <<ex, worker>>
    /\ UNCHANGED <<got, boxes, conn, scQuit, scStop, subs, count, askedIn, seen>>

\* The outbox, or a NULL message if there is nothing in it, goes out as one packet.
SendOutBox(t) ==
    /\ ex[t] = "send" /\ scUp
    /\ flight' = Append(flight, scOut) /\ scOut' = <<>>
    /\ ex' = [ex EXCEPT ![t] = "read"]
    /\ UNCHANGED <<loopPc, userPc, worker, got, scIn, mailPresent, outLimit, scUp, answers, scReg,
                   scQuit, scStop, subs, count, askedIn, seen>>

\* The database notes the registrations in the packet; it answers with the replies to the
\* requests in it, then perhaps with mail.
RequestsIn(pkt) == {i \in 1 .. Len(pkt) : pkt[i] = Request}
Answer(r, n) == [i \in 1 .. r + n |-> IF i <= r THEN Reply ELSE mailNo + (i - r)]

RegisteredIn(pkt) == {s \in Subs : Registration(s) \in ToSet(pkt)}

ServerReplies(n) ==
    /\ flight # <<>> /\ mailNo + n <= MaxSyncMail
    /\ answers' = Append(answers, Answer(Cardinality(RequestsIn(Head(flight))), n))
    /\ mailNo' = mailNo + n
    /\ scReg' = scReg \cup RegisteredIn(Head(flight))
    /\ flight' = Tail(flight)
    /\ UNCHANGED <<loopPc, userPc, ex, worker, got, boxes, scUp, scQuit, scStop, subs, posts,
                   requests, epoch, askedIn, seen>>

ReadReply(t) ==
    /\ ex[t] = "read" /\ answers # <<>>
    /\ got' = [got EXCEPT ![t] = Head(answers)] /\ answers' = Tail(answers)
    /\ ex' = [ex EXCEPT ![t] = "deliver"]
    /\ UNCHANGED <<loopPc, userPc, worker, boxes, scUp, flight, scReg, scQuit, scStop, subs,
                   count, askedIn, seen>>

\* An inbox over its limit is purged before the packet is added to it.
Purged == IF Len(scIn) > InLimit THEN <<>> ELSE scIn

\* Mutant: the flag is only ever set when the inbox was empty.
PresentIfWasEmpty(box) == scIn = <<>> /\ box # <<>>

Present(box) == box # <<>>

Deliver(t) ==
    /\ ex[t] = "deliver"
    /\ scIn' = Purged \o got[t]
    /\ mailPresent' = Present(scIn')
    /\ seen' = seen \o (IF Purged = scIn THEN <<>> ELSE scIn)
    /\ got' = [got EXCEPT ![t] = <<>>]
    /\ ex' = [ex EXCEPT ![t] = "none"] /\ worker' = Nobody
    /\ BackIn(t, TRUE)
    /\ askedIn' = IF Purged = scIn THEN askedIn ELSE 0
    /\ UNCHANGED <<scOut, outLimit, conn, scQuit, scStop, subs, count>>

\* ClearResources; what is lost is put into seen only to account for the order.
ClearResources == /\ scOut' = <<>> /\ scIn' = <<>> /\ UNCHANGED <<mailPresent, outLimit>>
                  /\ seen' = seen \o scIn

\* The send or the read throws: OnCloseConnection.
Lose(t) ==
    /\ ex[t] \in {"send", "read"}
    /\ scUp' = FALSE /\ flight' = <<>> /\ answers' = <<>> /\ scReg' = {}
    /\ scLost' = {}
    /\ ClearResources
    /\ ex' = [ex EXCEPT ![t] = "none"] /\ worker' = Nobody
    /\ BackIn(t, FALSE)
    /\ UNCHANGED <<got, scQuit, scStop, recurrent, toApply, count, askedIn>>

----------------------------------------------------------------------------
(* The user thread. *)

Post ==
    /\ userPc = "idle" /\ scUp /\ posts < MaxSyncPosts
    /\ posts' = posts + 1 /\ scOut' = Posted(<<"post", posts'>>)
    /\ scLost' = scLost \cup Discarded(<<"post", posts'>>)
    /\ UNCHANGED <<loopPc, userPc, ex, worker, got, scIn, mailPresent, outLimit, conn, scQuit,
                   scStop, recurrent, toApply, mailNo, requests, epoch, askedIn, seen>>

\* ExpectOutboxOverflow: the oldest messages go until the outbox is within its new limit.
Newest(box, k) == IF Len(box) > k THEN SubSeq(box, Len(box) - k + 1, Len(box)) ELSE box
Oldest(box, k) == {box[i] : i \in 1 .. Len(box) - k}

ExpectOutboxOverflow(k) ==
    /\ userPc = "idle"
    /\ outLimit' = k /\ scOut' = Newest(scOut, k)
    /\ scLost' = scLost \cup Oldest(scOut, k)
    /\ UNCHANGED <<loopPc, userPc, ex, worker, got, scIn, mailPresent, conn, scQuit, scStop,
                   recurrent, toApply, count, askedIn, seen>>

Fetch ==
    /\ userPc = "idle" /\ mailPresent
    /\ seen' = seen \o scIn /\ scIn' = <<>> /\ mailPresent' = FALSE
    /\ UNCHANGED <<loopPc, userPc, ex, worker, got, scOut, outLimit, conn, scQuit, scStop, subs,
                   count, askedIn>>

Flush ==
    /\ userPc = "idle" /\ loopPc # "none" /\ scUp
    /\ userPc' = "flush"
    /\ UNCHANGED <<loopPc, ex, worker, got, boxes, conn, scQuit, scStop, subs, count, askedIn,
                   seen>>

\* ServerRequest posts, flushes, and looks for the reply until its time is up.
ServerRequest ==
    /\ userPc = "idle" /\ scUp /\ requests < MaxRequests
    /\ scOut' = Posted(Request) /\ scLost' = (scLost \cup Discarded(Request)) \ {Request}
    /\ requests' = requests + 1 /\ askedIn' = epoch
    /\ userPc' = "request"
    /\ UNCHANGED <<loopPc, ex, worker, got, scIn, mailPresent, outLimit, conn, scQuit, scStop,
                   recurrent, toApply, posts, mailNo, epoch, seen>>

Replies == {i \in 1 .. Len(scIn) : scIn[i] = Reply}

\* Peek with bClear: the replies are taken, everything else in the inbox is discarded.
Peek ==
    /\ userPc \in {"poll", "pollAgain"}
    /\ userPc' \in IF Replies # {} THEN {"idle"} ELSE {"pollAgain", "idle"}
    /\ scIn' = <<>> /\ seen' = seen \o scIn
    /\ UNCHANGED <<loopPc, ex, worker, got, scOut, mailPresent, outLimit, conn, scQuit, scStop,
                   subs, count, askedIn>>

AddRecurrentSubscription(s) ==
    /\ userPc = "idle" /\ s \notin DOMAIN recurrent /\ loopPc # "apply"
    /\ recurrent' = [r \in DOMAIN recurrent \cup {s} |-> IF r = s THEN epoch ELSE recurrent[r]]
    /\ UNCHANGED <<loopPc, userPc, ex, worker, got, boxes, conn, scQuit, scStop, toApply, scLost,
                   count, askedIn, seen>>

RemoveRecurrentSubscription(s) ==
    /\ userPc = "idle" /\ s \in DOMAIN recurrent /\ loopPc # "apply"
    /\ recurrent' = [r \in DOMAIN recurrent \ {s} |-> recurrent[r]]
    /\ UNCHANGED <<loopPc, userPc, ex, worker, got, boxes, conn, scQuit, scStop, toApply, scLost,
                   count, askedIn, seen>>

\* Mutant: the thread is told to stop, but m_bQuit stays.
StopOnly == UNCHANGED scQuit

SetQuit == scQuit' = TRUE

\* Close sets m_bQuit, stops and joins the thread if it runs, and clears the boxes.
Close ==
    /\ userPc = "idle"
    /\ SetQuit /\ scStop' = TRUE /\ userPc' = "join"
    /\ UNCHANGED <<loopPc, ex, worker, got, boxes, conn, subs, count, askedIn, seen>>

Closed ==
    /\ userPc = "join" /\ loopPc \in {"none", "ended"}
    /\ ClearResources /\ userPc' = "idle" /\ loopPc' = "none"
    /\ UNCHANGED <<ex, worker, got, conn, scQuit, scStop, subs, count, askedIn>>

----------------------------------------------------------------------------
DoClientWork(t) == BeginWork(t) \/ SendOutBox(t) \/ ReadReply(t) \/ Deliver(t)
Hook == StartToApply \/ Applied \/ \E s \in Subs : ApplyRecurrentSubscriptions(s)
ClientLoop == ConnectToServer \/ Hook \/ Tick \/ EndLoop \/ DoClientWork("loop")
UserThread == DoClientWork("user") \/ Closed
Server == \E n \in 0..1 : ServerReplies(n)

SCNext ==
    \/ Run \/ ClientLoop \/ UserThread \/ Server \/ \E t \in Threads : Lose(t)
    \/ Post \/ Fetch \/ Flush \/ ServerRequest \/ Peek \/ Close
    \/ \E k \in OutLimits : ExpectOutboxOverflow(k)
    \/ \E s \in Subs : AddRecurrentSubscription(s) \/ RemoveRecurrentSubscription(s)

\* The threads run, and the database answers what it is sent.
SCSpec == SCInit /\ [][SCNext]_scVars /\ WF_scVars(ClientLoop) /\ WF_scVars(UserThread) /\ WF_scVars(Server)

----------------------------------------------------------------------------
(* Mail reaches the user in the order in which the database sent it and none twice, although
   two threads exchange packets over one socket. *)
SyncMailInOrder ==
    LET all == seen \o scIn IN
    \A i, j \in 1 .. Len(all) : i < j /\ all[i] # Reply /\ all[j] # Reply => all[i] < all[j]

(* Unread mail is announced: Fetch, which looks at a flag before it locks the inbox, does not
   overlook it. *)
UnreadIsPresent == scIn # <<>> => mailPresent

(* A request that was flushed has its reply in the inbox when ServerRequest looks for the first
   time, whichever thread carried the request, unless the connection was lost on the way or the
   outbox, into which the client thread posts registrations meanwhile, lost the request. *)
FlushBringsTheReply ==
    userPc = "poll" /\ scUp /\ askedIn = epoch /\ Request \notin scLost => Replies # {}

(* Recurrent subscriptions are registered again with every connection after the one in which
   they were added: the database has them when the client thread has first called it in, whoever
   else used the connection in between, except those the outbox lost at its limit. *)
SubscriptionsRecur ==
    loopPc = "tick" /\ scUp =>
        \A s \in DOMAIN recurrent : recurrent[s] < epoch => s \in scReg \/ Registration(s) \in scLost

(* False: they are registered in any case.  A registration is posted like everything else, and a
   full outbox loses it, and then for the whole connection. *)
SubscriptionsAlwaysRecur ==
    loopPc = "tick" /\ scUp => \A s \in DOMAIN recurrent : recurrent[s] < epoch => s \in scReg

(* False: a flushed request has its reply as long as the connection lasts. *)
FlushAlwaysBringsTheReply == userPc = "poll" /\ scUp /\ askedIn = epoch => Replies # {}

(* Close comes to an end, also while the thread is waiting for the database or has none. *)
CloseEnds == (userPc = "join") ~> (userPc = "idle")

(* The safety of the synchronous client while two threads share its socket: mail in order and
   announced, replies that are there when they are looked for, and subscriptions that outlive a
   connection. *)
SyncClientIsSound == SyncMailInOrder /\ UnreadIsPresent /\ FlushBringsTheReply /\ SubscriptionsRecur
=============================================================================
