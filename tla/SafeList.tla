------------------------------ MODULE SafeList ------------------------------
(***************************************************************************)
(* SafeList with Poco's event as it is built from a mutex, a condition     *)
(* variable and a flag.  Producers push one element or splice several; one *)
(* consumer waits for a push when it finds the list empty and then either  *)
(* pulls one element (as the server's threads do) or takes all of them (as *)
(* the client's writing thread does).  The list's mutex is held across the *)
(* two halves of a push and of a pull; the consumer waits without it.      *)
(***************************************************************************)
EXTENDS Integers, Sequences, FiniteSets

CONSTANTS Pushers, MaxPushed      \* MaxPushed bounds the elements pushed

ASSUME SafeListAssumption == MaxPushed \in Nat /\ "consumer" \notin Pushers /\ "none" \notin Pushers

VARIABLES slList,        \* _List, elements numbered in the order they are pushed
          slMutex,       \* who holds _mutex, or "none"
          slState,       \* _state of the event
          slPc,          \* per pusher: "idle" or "set"; the consumer is "consumer"
          slNew,         \* elements appended whose event is not yet set
          slTaken        \* elements the consumer has

slVars == <<slList, slMutex, slState, slPc, slNew, slTaken>>

SLInit ==
    /\ slList = <<>> /\ slMutex = "none" /\ slState = FALSE /\ slNew = 0 /\ slTaken = <<>>
    /\ slPc = [t \in Pushers \cup {"consumer"} |-> IF t \in Pushers THEN "idle" ELSE "test"]

\* Mutant: the list has no mutex.
Unguarded == TRUE

MutexFree == slMutex = "none"
Pushed == Len(slTaken) + Len(slList)
Numbered(n) == [i \in 1 .. n |-> Pushed + i]

----------------------------------------------------------------------------
(* Push (n = 1) and AppendToMeInConstantTime: append under the mutex ... *)
PushBack(p, n) ==
    /\ MutexFree /\ slPc[p] = "idle" /\ Pushed + n <= MaxPushed
    /\ slMutex' = p /\ slList' = slList \o Numbered(n) /\ slNew' = n
    /\ slPc' = [slPc EXCEPT ![p] = "set"]
    /\ UNCHANGED <<slState, slTaken>>

\* ... then setImpl: the flag, and every waiter looks at it again.
SetEvent(p) ==
    /\ slPc[p] = "set"
    /\ slState' = TRUE /\ slMutex' = "none" /\ slNew' = 0
    /\ slPc' = [slPc EXCEPT ![p] = "idle"]
    /\ UNCHANGED <<slList, slTaken>>

----------------------------------------------------------------------------
At(l) == slPc["consumer"] = l
Goto(l) == slPc' = [slPc EXCEPT !["consumer"] = l]

IsEmpty ==
    /\ At("test") /\ MutexFree
    /\ Goto(IF slList = <<>> THEN "lock" ELSE "take")
    /\ UNCHANGED <<slList, slMutex, slState, slNew, slTaken>>

\* Mutant: the event is reset before the wait.
ResetAndWait == slState' = FALSE

LockAndWait == slState' = slState

\* waitImpl takes the event's mutex and, the flag clear, gives it up inside pthread_cond_wait.
WaitForPush ==
    /\ At("lock") /\ LockAndWait /\ Goto("wait")
    /\ UNCHANGED <<slList, slMutex, slNew, slTaken>>

\* The flag is found set: it is cleared, the event being auto-reset, and the wait returns.
Woken ==
    /\ At("wait") /\ slState
    /\ slState' = FALSE /\ Goto("test")
    /\ UNCHANGED <<slList, slMutex, slNew, slTaken>>

\* waitImpl(milliseconds): ETIMEDOUT leaves the flag alone.
TimedOut ==
    /\ At("wait") /\ ~slState /\ Goto("test")
    /\ UNCHANGED <<slList, slMutex, slState, slNew, slTaken>>

\* Pull: reset the event, then take the front, under the mutex.
Reset ==
    /\ At("take") /\ MutexFree
    /\ slMutex' = "consumer" /\ slState' = FALSE /\ Goto("pop")
    /\ UNCHANGED <<slList, slNew, slTaken>>

PopFront ==
    /\ At("pop")
    /\ slTaken' = IF slList = <<>> THEN slTaken ELSE Append(slTaken, Head(slList))
    /\ slList' = IF slList = <<>> THEN slList ELSE Tail(slList)
    /\ slMutex' = "none" /\ Goto("test")
    /\ UNCHANGED <<slState, slNew>>

\* AppendToOtherInConstantTime leaves the event as it is, so the next wait may return at once.
AppendToOther ==
    /\ At("take") /\ MutexFree
    /\ slTaken' = slTaken \o slList /\ slList' = <<>> /\ Goto("test")
    /\ UNCHANGED <<slMutex, slState, slNew>>

Consumer == IsEmpty \/ WaitForPush \/ Woken \/ Reset \/ PopFront \/ AppendToOther

SLNext ==
    \/ \E p \in Pushers : \/ \E n \in 1 .. 2 : PushBack(p, n)
                          \/ SetEvent(p)
    \/ Consumer
    \/ TimedOut

\* The threads run.  Time outs are not counted on: the property must hold for the untimed wait.
SLSpec == SLInit /\ [][SLNext]_slVars /\ WF_slVars(Consumer) /\ \A p \in Pushers : WF_slVars(SetEvent(p))

----------------------------------------------------------------------------
(* The list with its mutex and event implements the list whose operations are instantaneous,
   which is how the other modules use it: a push happens when its event is set, a pull when it
   clears the event. *)
Popping == At("pop") /\ slList # <<>>
Waitable == INSTANCE WaitableList WITH
    list <- IF Popping THEN Tail(slList) ELSE SubSeq(slList, 1, Len(slList) - slNew),
    event <- slState,
    taken <- IF Popping THEN Append(slTaken, Head(slList)) ELSE slTaken
SafeListIsWaitable == Waitable!WSpec

(* No wake-up is lost: whatever is pushed is taken, although the consumer tests and waits in two
   steps, without the mutex in between, and never counts on its time out. *)
PushedIsTaken == \A n \in 1 .. MaxPushed : (n <= Pushed) ~> (n <= Len(slTaken))
=============================================================================
