---------------------------- MODULE WaitableList ----------------------------
(***************************************************************************)
(* What SafeList promises the threads that share one: every operation on   *)
(* the list happens at once, together with its effect on the event, and a  *)
(* wait ends only by consuming the event or by timing out.  The models of  *)
(* the server, the client and the active queues use lists of this kind.    *)
(***************************************************************************)
EXTENDS Integers, Sequences

VARIABLES list,      \* the elements
          event,     \* the push event is set
          taken      \* what has been taken from the list, in order

waitableVars == <<list, event, taken>>

WInit == list = <<>> /\ event = FALSE /\ taken = <<>>

\* Push and AppendToMeInConstantTime: elements join the end and the event is set.
WPush == event' = TRUE /\ taken' = taken
         /\ Len(list') > Len(list) /\ SubSeq(list', 1, Len(list)) = list

\* Pull and Pop: the event is cleared whether or not there is an element to take.
WTake == event' = FALSE
         /\ \/ list = <<>> /\ UNCHANGED <<list, taken>>
            \/ list # <<>> /\ taken' = Append(taken, Head(list)) /\ list' = Tail(list)

\* AppendToOtherInConstantTime: everything is taken and the event stays as it is.
WDrain == list # <<>> /\ taken' = taken \o list /\ list' = <<>> /\ event' = event

\* WaitForPush returns.
WWake == event /\ event' = FALSE /\ UNCHANGED <<list, taken>>

WNext == WPush \/ WTake \/ WDrain \/ WWake

WSpec == WInit /\ [][WNext]_waitableVars
=============================================================================
