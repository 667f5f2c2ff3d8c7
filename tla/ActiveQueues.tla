---------------------------- MODULE ActiveQueues ----------------------------
(***************************************************************************)
(* The active mail queues of CMOOSCommClient: routes from message names to *)
(* queues, each with a thread that runs a callback (ActiveMailQueue on a   *)
(* CMOOSThread and a SafeList).  The client thread dispatches the inbox; a *)
(* user thread adds, routes, removes queues, fetches the rest of the mail, *)
(* closes the client and runs it again.  ActiveQueuesLock_ is held while a *)
(* queue is stopped, which joins its thread.  A dispatch that finds no     *)
(* queue throws what nothing catches: the process ends.                    *)
(***************************************************************************)
EXTENDS Integers, Sequences, SequencesExt, FiniteSets

CONSTANTS QNames,     \* names of queues
          Keys,       \* names of messages
          MaxMail,    \* bound: messages that arrive
          MaxCalls    \* bound: calls of the user thread that change the routing

VARIABLES aqMap,      \* ActiveQueueMap_: the queues that exist
          aqThread,   \* per queue: "none", "waiting", "callback", "ended"
          aqItems,    \* per queue: its SafeList; 0 is the message that ends the thread
          aqNow,      \* per queue: the message its callback is working on
          aqQuit,     \* per queue: m_bQuitRequested of its thread
          handled,    \* per queue: messages its callbacks have finished with
          routes,     \* Msg2ActiveQueueName_: a function on the names that have an entry
          patterns,   \* WildcardQueuePatterns_: a pattern is the set of names it matches
          checked,    \* WildcardCheckSet_
          inbox,      \* m_InBox; messages are numbered as they arrive
          keyOf,      \* the names of the messages that have arrived
          fetched,    \* messages the user has fetched
          user,       \* the user thread: what it is in the middle of
          aqOpen,     \* the thread that dispatches is running
          aqCalls,    \* number of calls, for the bound
          unrouted,   \* history: names RemoveMessageRouteToActiveQueue was called for, since Close
          orphans,    \* history: queues with a pattern that Close deleted, until they are made again
          gone        \* history: messages that were in a queue that was removed

aqVars == <<aqMap, aqThread, aqItems, aqNow, aqQuit, handled, routes, patterns, checked, inbox,
            keyOf, fetched, user, aqOpen, aqCalls, unrouted, orphans, gone>>

Idle == <<"idle">>
NoMessage == 0
Terminate == 0        \* MOOS_TERMINATE_CONNECTION
Crashed == user[1] = "crashed"      \* std::terminate

AQInit ==
    /\ aqMap = {} /\ aqThread = [q \in QNames |-> "none"] /\ aqItems = [q \in QNames |-> <<>>]
    /\ aqNow = [q \in QNames |-> NoMessage] /\ aqQuit = [q \in QNames |-> FALSE]
    /\ handled = [q \in QNames |-> <<>>]
    /\ routes = <<>> /\ patterns = <<>> /\ checked = {} /\ inbox = <<>> /\ keyOf = <<>>
    /\ fetched = <<>> /\ user = Idle /\ aqOpen = FALSE /\ aqCalls = 0 /\ unrouted = {}
    /\ orphans = {} /\ gone = {}

\* ActiveQueuesLock_ is held by the user thread while it stops a queue.
LockFree == user[1] \notin {"removing", "closing"}

----------------------------------------------------------------------------
(* DispatchInBoxToActiveThreads, called under ActiveQueuesLock_ whenever mail arrives. *)

Route(k) == IF k \in DOMAIN routes THEN routes[k] ELSE {}
WildMatches(k) == {q \in DOMAIN patterns : k \in patterns[q]}
Unchecked(k) == k \notin DOMAIN routes \/ k \notin checked

Targets(k) == Route(k) \cup (IF Unchecked(k) THEN WildMatches(k) ELSE {})

\* "nothing to do": the function returns, whatever comes after this message in the inbox.
NobodyWants(k) == k \notin DOMAIN routes /\ WildMatches(k) = {}

\* The number of messages of box that are looked at before the function returns.
Reach(box, key) ==
    LET stops == {i \in DOMAIN box : NobodyWants(key[box[i]])} IN
    IF stops = {} THEN Len(box) ELSE (CHOOSE i \in stops : \A j \in stops : i <= j) - 1

\* Mutant: a message that went to a queue stays in the inbox.
NotTaken(i, n, k) == TRUE

StaysInBox(i, n, k) == i > n \/ Targets(k) = {}

\* The members of messages that are in box, in the order of box.
Sifted(box, messages) ==
    LET kept[i \in 0..Len(box)] ==
            IF i = 0 THEN <<>>
            ELSE IF box[i] \in messages THEN Append(kept[i - 1], box[i]) ELSE kept[i - 1]
    IN  kept[Len(box)]

PushedTo(q, box, key) == {box[i] : i \in {j \in 1..Reach(box, key) : q \in Targets(key[box[j]])}}
LeftIn(box, key) ==
    {box[i] : i \in {j \in DOMAIN box : StaysInBox(j, Reach(box, key), key[box[j]])}}

Dispatch(box, key) ==
    LET n    == Reach(box, key)
        K(i) == key[box[i]]
        new  == {k \in {K(i) : i \in 1..n} : Unchecked(k) /\ WildMatches(k) # {}}
    IN  /\ routes' = [k \in DOMAIN routes \cup new |-> IF k \in new THEN Targets(k) ELSE routes[k]]
        /\ checked' = checked \cup {K(i) : i \in 1..(IF n < Len(box) THEN n + 1 ELSE n)}
        /\ aqItems' = [q \in QNames |-> aqItems[q] \o Sifted(box, PushedTo(q, box, key))]
        /\ inbox' = Sifted(box, LeftIn(box, key))

\* The dispatch of box gets to its i-th message and looks for a queue that does not exist.
NoQueueFor(i, box, key) == i \in 1..Reach(box, key) /\ ~(Targets(key[box[i]]) \subseteq aqMap)

(* A packet with one message for the client arrives; the inbox is already under the limit
   that would purge it. *)
Arrives(k) == /\ aqOpen /\ LockFree /\ Len(keyOf) < MaxMail
              /\ keyOf' = Append(keyOf, k)
Arrived == Append(inbox, Len(keyOf) + 1)

ReceiveMail(k) ==
    /\ Arrives(k)
    /\ \A i \in DOMAIN Arrived : ~NoQueueFor(i, Arrived, keyOf')
    /\ Dispatch(Arrived, keyOf')
    /\ UNCHANGED <<aqMap, aqThread, aqNow, aqQuit, handled, patterns, fetched, user, aqOpen,
                   aqCalls, unrouted, orphans, gone>>

(* std::runtime_error leaves the thread; with the process, everything else stops where it is.
   The packet is left in the inbox. *)
DispatchThrows(k) ==
    /\ Arrives(k)
    /\ \E i \in DOMAIN Arrived :
          /\ NoQueueFor(i, Arrived, keyOf') /\ \A j \in 1 .. i - 1 : ~NoQueueFor(j, Arrived, keyOf')
          /\ user' = <<"crashed", keyOf'[Arrived[i]]>>
    /\ inbox' = Arrived /\ aqOpen' = FALSE
    /\ UNCHANGED <<aqMap, aqThread, aqItems, aqNow, aqQuit, handled, routes, patterns, checked,
                   fetched, aqCalls, unrouted, orphans, gone>>

QueueFetch == /\ user = Idle /\ inbox # <<>>
         /\ fetched' = fetched \o inbox /\ inbox' = <<>>
         /\ UNCHANGED <<aqMap, aqThread, aqItems, aqNow, aqQuit, handled, routes, patterns,
                        checked, keyOf, user, aqOpen, aqCalls, unrouted, orphans, gone>>

----------------------------------------------------------------------------
(* The user's calls. *)

MayCall == user = Idle /\ aqCalls < MaxCalls
Called  == aqCalls' = aqCalls + 1

\* new ActiveMailQueue, SetCallback, Start.
NewQueue(q) ==
    /\ q \notin aqMap
    /\ aqMap' = aqMap \cup {q}
    /\ aqThread' = [aqThread EXCEPT ![q] = "waiting"]
    /\ aqItems' = [aqItems EXCEPT ![q] = <<>>]
    /\ aqQuit' = [aqQuit EXCEPT ![q] = FALSE]
    /\ orphans' = orphans \ {q}
    /\ UNCHANGED <<aqNow, handled, routes, patterns, checked, inbox, keyOf, fetched, aqOpen,
                   unrouted, gone>>

AddActiveQueue(q) == MayCall /\ Called /\ NewQueue(q) /\ UNCHANGED user

\* The queue is made in one critical section and its pattern noted in the next.
AddWildcardActiveQueue(q, p) ==
    MayCall /\ Called /\ NewQueue(q) /\ user' = <<"pattern", q, p>>

\* Mutant: the names seen so far are not compared with the new pattern.
NoOldNames(p) == {}

NamesSeen(p) == checked \cap p

NotePattern ==
    /\ user[1] = "pattern"
    /\ LET q == user[2]  p == user[3] IN
       /\ patterns' = [r \in DOMAIN patterns \cup {q} |-> IF r = q THEN p ELSE patterns[r]]
       /\ routes' = [k \in DOMAIN routes \cup NamesSeen(p) |->
                        Route(k) \cup (IF k \in NamesSeen(p) THEN {q} ELSE {})]
    /\ user' = Idle
    /\ UNCHANGED <<aqMap, aqThread, aqItems, aqNow, aqQuit, handled, checked, inbox, keyOf,
                   fetched, aqOpen, aqCalls, unrouted, orphans, gone>>

RoutesWith(q, k) ==
    [j \in DOMAIN routes \cup {k} |-> Route(j) \cup (IF j = k THEN {q} ELSE {})]

\* With a callback: the queue is made first if need be, the route follows.
AddMessageCallBack(q, k) == MayCall /\ Called /\ NewQueue(q) /\ user' = <<"route", q, k>>

NoteRoute ==
    /\ user[1] = "route"
    /\ routes' = RoutesWith(user[2], user[3])
    /\ user' = Idle
    /\ UNCHANGED <<aqMap, aqThread, aqItems, aqNow, aqQuit, handled, patterns, checked, inbox,
                   keyOf, fetched, aqOpen, aqCalls, unrouted, orphans, gone>>

AddMessageRouteToActiveQueue(q, k) ==
    /\ MayCall /\ Called
    /\ q \in aqMap
    /\ routes' = RoutesWith(q, k)
    /\ UNCHANGED <<aqMap, aqThread, aqItems, aqNow, aqQuit, handled, patterns, checked, inbox,
                   keyOf, fetched, user, aqOpen, unrouted, orphans, gone>>

\* The whole entry of the name goes, the routes of other queues with it.
RemoveMessageRouteToActiveQueue(q, k) ==
    /\ MayCall /\ Called
    /\ q \in aqMap /\ k \in DOMAIN routes
    /\ routes' = [j \in DOMAIN routes \ {k} |-> routes[j]]
    /\ unrouted' = unrouted \cup {k}
    /\ UNCHANGED <<aqMap, aqThread, aqItems, aqNow, aqQuit, handled, patterns, checked, inbox,
                   keyOf, fetched, user, aqOpen, orphans, gone>>

\* Mutant: the quit flag alone is to end the thread.
StopQueueByFlag(q) == aqQuit' = [aqQuit EXCEPT ![q] = TRUE] /\ UNCHANGED aqItems

\* ActiveMailQueue::Stop: the last message is pushed, the quit flag set; then the join.
StopQueue(q) == /\ aqItems' = [aqItems EXCEPT ![q] = Append(@, Terminate)]
                /\ aqQuit' = [aqQuit EXCEPT ![q] = TRUE]

\* Mutant: the routes of the queue stay.
KeepRoutes(q) == routes

WithoutQueue(q) == [k \in DOMAIN routes |-> routes[k] \ {q}]

RemoveActiveQueue(q) ==
    /\ MayCall /\ Called
    /\ q \in aqMap
    /\ routes' = WithoutQueue(q)
    /\ StopQueue(q)
    /\ user' = <<"removing", q>>
    /\ UNCHANGED <<aqMap, aqThread, aqNow, handled, patterns, checked, inbox, keyOf, fetched,
                   aqOpen, unrouted, orphans, gone>>

\* Mutant: the thread is not waited for.
NotJoined(q) == TRUE

Joined(q) == aqThread[q] = "ended"

Gone(q) == gone \cup ToSet(aqItems[q]) \cup {aqNow[q]}

Removed ==
    /\ user[1] = "removing"
    /\ LET q == user[2] IN
       /\ Joined(q)
       /\ aqMap' = aqMap \ {q}
       /\ aqThread' = [aqThread EXCEPT ![q] = "none"]
       /\ gone' = Gone(q)
       /\ aqItems' = [aqItems EXCEPT ![q] = <<>>]
       /\ patterns' = [r \in DOMAIN patterns \ {q} |-> patterns[r]]
    /\ user' = Idle
    /\ UNCHANGED <<aqNow, aqQuit, handled, routes, checked, inbox, keyOf, fetched, aqOpen,
                   aqCalls, unrouted, orphans>>

\* Run and StartThreads.
QueueRun ==
    /\ user = Idle /\ ~aqOpen
    /\ aqOpen' = TRUE
    /\ UNCHANGED <<aqMap, aqThread, aqItems, aqNow, aqQuit, handled, routes, patterns, checked, inbox,
                   keyOf, fetched, user, aqCalls, unrouted, orphans, gone>>

(* Close: the client thread is stopped and the boxes cleared, then every queue is stopped in
   turn.  The patterns stay.  The asynchronous client has no such thread; its reading thread,
   which dispatches, is stopped when all that is done. *)
QueueClose ==
    /\ user = Idle
    /\ aqOpen' \in {FALSE, aqOpen}
    /\ inbox' = <<>>
    /\ fetched' = fetched \o inbox          \* only to account for them
    /\ user' = <<"closing">>
    /\ UNCHANGED <<aqMap, aqThread, aqItems, aqNow, aqQuit, handled, routes, patterns, checked,
                   keyOf, aqCalls, unrouted, orphans, gone>>

CloseStop(q) ==
    /\ user[1] = "closing" /\ q \in aqMap
    /\ \A r \in aqMap : ~aqQuit[r]          \* one after the other
    /\ StopQueue(q)
    /\ UNCHANGED <<aqMap, aqThread, aqNow, handled, routes, patterns, checked, inbox, keyOf,
                   fetched, user, aqOpen, aqCalls, unrouted, orphans, gone>>

CloseDelete(q) ==
    /\ user[1] = "closing" /\ q \in aqMap /\ aqQuit[q] /\ Joined(q)
    /\ aqMap' = aqMap \ {q}
    /\ aqThread' = [aqThread EXCEPT ![q] = "none"]
    /\ gone' = Gone(q)
    /\ aqItems' = [aqItems EXCEPT ![q] = <<>>]
    /\ orphans' = orphans \cup ({q} \cap DOMAIN patterns)
    /\ UNCHANGED <<aqNow, aqQuit, handled, routes, patterns, checked, inbox, keyOf, fetched,
                   user, aqOpen, aqCalls, unrouted>>

QueuesClosed ==
    /\ user[1] = "closing" /\ aqMap = {}
    /\ routes' = <<>> /\ checked' = {} /\ unrouted' = {}
    /\ user' = <<"stopping">>
    /\ UNCHANGED <<aqMap, aqThread, aqItems, aqNow, aqQuit, handled, patterns, inbox, keyOf,
                   fetched, aqOpen, aqCalls, orphans, gone>>

ReaderStopped ==
    /\ user[1] = "stopping"
    /\ aqOpen' = FALSE
    /\ user' = Idle
    /\ UNCHANGED <<aqMap, aqThread, aqItems, aqNow, aqQuit, handled, routes, patterns, checked,
                   inbox, keyOf, fetched, aqCalls, unrouted, orphans, gone>>

----------------------------------------------------------------------------
(* ActiveMailQueue::DoWork.  The wait for a push is limited to a second, so a thread that
   finds its list not empty always gets on. *)

Take(q) ==
    /\ ~Crashed /\ aqThread[q] = "waiting" /\ aqItems[q] # <<>>
    /\ aqItems' = [aqItems EXCEPT ![q] = Tail(@)]
    /\ IF Head(aqItems[q]) = Terminate
       THEN aqThread' = [aqThread EXCEPT ![q] = "ended"] /\ UNCHANGED aqNow
       ELSE /\ aqThread' = [aqThread EXCEPT ![q] = "callback"]
            /\ aqNow' = [aqNow EXCEPT ![q] = Head(aqItems[q])]
    /\ UNCHANGED <<aqMap, aqQuit, handled, routes, patterns, checked, inbox, keyOf, fetched,
                   user, aqOpen, aqCalls, unrouted, orphans, gone>>

\* Mutant: the thread ends when its list is empty.
EndWhenEmpty(q) == IF aqItems[q] = <<>> THEN "ended" ELSE "waiting"

AfterCallback(q) == IF aqQuit[q] THEN "ended" ELSE "waiting"

\* The callback returns; the quit flag is looked at before the list.
Return(q) ==
    /\ ~Crashed /\ aqThread[q] = "callback"
    /\ handled' = [handled EXCEPT ![q] = Append(@, aqNow[q])]
    /\ aqNow' = [aqNow EXCEPT ![q] = NoMessage]
    /\ aqThread' = [aqThread EXCEPT ![q] = AfterCallback(q)]
    /\ UNCHANGED <<aqMap, aqItems, aqQuit, routes, patterns, checked, inbox, keyOf, fetched,
                   user, aqOpen, aqCalls, unrouted, orphans, gone>>

QueueThread(q) == Take(q) \/ Return(q)
Remover == Removed \/ NotePattern \/ NoteRoute \/ QueuesClosed \/ ReaderStopped
           \/ \E q \in QNames : CloseStop(q) \/ CloseDelete(q)

AQNext ==
    \/ \E k \in Keys : ReceiveMail(k) \/ DispatchThrows(k)
    \/ QueueFetch \/ QueueRun \/ QueueClose \/ Remover
    \/ \E q \in QNames : AddActiveQueue(q) \/ RemoveActiveQueue(q) \/ QueueThread(q)
    \/ \E q \in QNames, p \in (SUBSET Keys) \ {{}} : AddWildcardActiveQueue(q, p)
    \/ \E q \in QNames, k \in Keys : AddMessageRouteToActiveQueue(q, k) \/ AddMessageCallBack(q, k)
                                     \/ RemoveMessageRouteToActiveQueue(q, k)

\* The queues' threads run, and a call that removes a queue goes on.
AQSpec == AQInit /\ [][AQNext]_aqVars /\ WF_aqVars(Remover) /\ \A q \in QNames : WF_aqVars(QueueThread(q))

----------------------------------------------------------------------------
(* A name is routed to queues that exist, through removals and while queues are added, closed
   and made again.  DispatchInBoxToActiveThreads looks in vain only for a queue that Close
   deleted and whose pattern, which Close leaves, matches the message. *)
RoutesHaveQueues ==
    /\ LockFree => \A k \in DOMAIN routes : routes[k] \subseteq aqMap
    /\ Crashed => \E q \in orphans : user[2] \in patterns[q]

(* False: the lookup never throws.  It does after Close, once Run has been called again or while
   the asynchronous client's reading thread has still to be stopped. *)
DispatchNeverThrows == ~Crashed

(* A queue works through the messages of one name in the order in which they arrived, and sees
   none of any name twice, although messages may wait in the inbox behind one that nobody wants,
   or until their name is routed.  Messages of different names may overtake one another. *)
QueueKeepsOrder ==
    \A q \in QNames : \A i, j \in DOMAIN handled[q] : i < j =>
        LET a == handled[q][i]  b == handled[q][j] IN a # b /\ (keyOf[a] = keyOf[b] => a < b)

(* A message goes to queues or to the user, not to both, and is not lost on the way, except
   with a queue that is removed while it holds it. *)
WithQueues == gone \cup UNION {ToSet(handled[q]) \cup ToSet(aqItems[q]) \cup {aqNow[q]} : q \in QNames}
EachMessageOnce ==
    \A m \in DOMAIN keyOf :
        Cardinality({w \in {"box", "user", "queue"} :
            \/ w = "box" /\ m \in ToSet(inbox)
            \/ w = "user" /\ m \in ToSet(fetched)
            \/ w = "queue" /\ m \in WithQueues}) = 1

(* A wildcard queue is a target of every name it matches that has been seen, whether the
   queue or the name came first, unless the routes of the name were removed. *)
WildcardsAreRouted ==
    \A q \in DOMAIN patterns : LockFree =>
        \A k \in (checked \cap patterns[q]) \ unrouted : q \in Targets(k)

(* When RemoveActiveQueue or Close has returned no callback of the queue is running. *)
NoCallbackAfterRemove == \A q \in QNames \ aqMap : aqThread[q] = "none" /\ aqNow[q] = NoMessage

(* Removing a queue and closing the client come to an end: the join does not wait for a
   thread that waits for mail. *)
RemovalEnds == (user[1] \in {"removing", "closing", "stopping"}) ~> (user = Idle \/ Crashed)

(* What is pushed to a queue is handled, or the queue is removed, or the process has ended. *)
PushedIsHandled == \A q \in QNames :
    (aqItems[q] # <<>>) ~> (aqItems[q] = <<>> \/ aqQuit[q] \/ Crashed)

(* The safety of the active queues: routes that lead to queues, each message in one place, those
   of a name in order, and no callback after a removal. *)
QueuesAreFaithful ==
    /\ RoutesHaveQueues /\ QueueKeepsOrder /\ EachMessageOnce
    /\ WildcardsAreRouted /\ NoCallbackAfterRemove
=============================================================================
