---------------------------- MODULE ServiceProofs ----------------------------
(***************************************************************************)
(* Proofs about the list that threads share, which with its mutex and its  *)
(* event implements the list whose operations happen at once; about the    *)
(* logger of the database, whose thread waits on such a list; and about    *)
(* the server with a single thread.                                        *)
(***************************************************************************)
EXTENDS SafeList, DBLogger, SingleServer, SequenceTheorems, TLAPS

-----------------------------------------------------------------------------
(* The list                                                                *)

\* Who holds the mutex is in the middle of a push or a pull, and nobody else is.
MutexOK ==
    /\ slMutex \in Pushers \cup {"consumer", "none"}
    /\ \A p \in Pushers : slPc[p] \in {"idle", "set"} /\ (slPc[p] = "set" <=> slMutex = p)
    /\ slPc["consumer"] = "pop" <=> slMutex = "consumer"

\* What is appended but not yet announced is at the end of the list.
NewOK ==
    /\ slNew \in 0 .. Len(slList)
    /\ slNew # 0 <=> slMutex \in Pushers

\* The consumer takes only from a list it has found not to be empty.
TakeOK == slPc["consumer"] \in {"take", "pop"} => slList # <<>>

\* The inductive invariant.
ListInv ==
    /\ slList \in Seq(Nat) /\ slTaken \in Seq(Nat)
    /\ DOMAIN slPc = Pushers \cup {"consumer"}
    /\ MutexOK /\ NewOK /\ TakeOK

-----------------------------------------------------------------------------
\* The list is empty at the start and nobody holds its mutex.
LEMMA ListStarts == SLInit => ListInv
<1> SUFFICES ASSUME SLInit PROVE ListInv
  OBVIOUS
<1> USE SafeListAssumption
<1>1. slList = <<>> /\ slTaken = <<>> /\ slMutex = "none" /\ slNew = 0
  BY DEF SLInit
<1>2. slPc = [t \in Pushers \cup {"consumer"} |-> IF t \in Pushers THEN "idle" ELSE "test"]
  BY DEF SLInit
<1>3. slPc["consumer"] = "test" /\ \A p \in Pushers : slPc[p] = "idle" /\ p # "none"
  BY <1>2
<1>4. MutexOK
  BY <1>1, <1>3 DEF MutexOK
<1>5. NewOK /\ TakeOK
  BY <1>1, <1>3 DEF NewOK, TakeOK
<1> QED BY <1>1, <1>2, <1>4, <1>5 DEF ListInv

\* The numbers a push appends.
LEMMA NumberedFacts ==
    ASSUME slList \in Seq(Nat), slTaken \in Seq(Nat), NEW n \in 1 .. 2
    PROVE  Numbered(n) \in Seq(Nat) /\ Len(Numbered(n)) = n
<1>1. Pushed \in Nat
  BY DEF Pushed
<1> HIDE DEF Pushed
<1> QED BY <1>1 DEF Numbered

\* The first half of a push.
LEMMA PushBackStep ==
    ASSUME ListInv, NEW p \in Pushers, NEW n \in 1 .. 2, PushBack(p, n)
    PROVE  /\ ListInv'
           /\ slList' = slList \o Numbered(n) /\ slList' \in Seq(Nat)
           /\ Len(slList') = Len(slList) + n
           /\ slNew = 0 /\ ~At("pop") /\ ~At("pop")'
<1> USE SafeListAssumption
<1>1. /\ slMutex = "none" /\ slMutex' = p /\ slList' = slList \o Numbered(n) /\ slNew' = n
      /\ slPc' = [slPc EXCEPT ![p] = "set"] /\ UNCHANGED <<slState, slTaken>>
  BY DEF PushBack, MutexFree
<1>2. slList \in Seq(Nat) /\ slTaken \in Seq(Nat) /\ DOMAIN slPc = Pushers \cup {"consumer"}
  BY DEF ListInv
<1>3. slList' \in Seq(Nat) /\ Len(slList') = Len(slList) + n /\ Len(slList) \in Nat
  <2>1. Numbered(n) \in Seq(Nat) /\ Len(Numbered(n)) = n
    BY <1>2, NumberedFacts
  <2> HIDE DEF Numbered
  <2> QED BY <1>1, <1>2, <2>1
<1>4. /\ slPc'[p] = "set" /\ DOMAIN slPc' = DOMAIN slPc
      /\ \A t \in (Pushers \cup {"consumer"}) \ {p} : slPc'[t] = slPc[t]
  BY <1>1, <1>2
<1>5. p # "consumer" /\ p # "none"
  OBVIOUS
<1>6. MutexOK'
  BY <1>1, <1>4, <1>5 DEF ListInv, MutexOK
<1>7. NewOK'
  BY <1>1, <1>3 DEF NewOK
<1>8. slNew = 0 /\ slPc["consumer"] # "pop" /\ slPc'["consumer"] = slPc["consumer"]
  BY <1>1, <1>4, <1>5 DEF ListInv, MutexOK, NewOK
<1>9. TakeOK'
  BY <1>3 DEF TakeOK
<1> QED BY <1>1, <1>2, <1>3, <1>4, <1>6, <1>7, <1>8, <1>9 DEF ListInv, At

\* The second half of a push.
LEMMA SetEventStep ==
    ASSUME ListInv, NEW p \in Pushers, SetEvent(p)
    PROVE  /\ ListInv'
           /\ slState' = TRUE /\ UNCHANGED <<slList, slTaken>>
           /\ slNew \in 1 .. Len(slList) /\ slNew' = 0 /\ ~At("pop") /\ ~At("pop")'
<1> USE SafeListAssumption
<1>1. /\ slPc[p] = "set" /\ slState' = TRUE /\ slMutex' = "none" /\ slNew' = 0
      /\ slPc' = [slPc EXCEPT ![p] = "idle"] /\ UNCHANGED <<slList, slTaken>>
  BY DEF SetEvent
<1>2. slMutex = p /\ DOMAIN slPc = Pushers \cup {"consumer"} /\ p # "consumer" /\ p # "none"
  BY <1>1 DEF ListInv, MutexOK
<1>3. slPc'[p] = "idle" /\ \A t \in (Pushers \cup {"consumer"}) \ {p} : slPc'[t] = slPc[t]
  BY <1>1, <1>2
<1>4. slNew \in 1 .. Len(slList) /\ Len(slList) \in Nat
  BY <1>2 DEF ListInv, NewOK
<1>5. MutexOK'
  <2>1. \A t \in Pushers : t # "none" /\ (t # p => slPc[t] # "set")
    BY <1>2 DEF ListInv, MutexOK
  <2> QED BY <1>1, <1>2, <1>3, <2>1 DEF ListInv, MutexOK
<1>6. NewOK'
  BY <1>1, <1>4 DEF NewOK
<1>7. slPc["consumer"] # "pop" /\ slPc'["consumer"] = slPc["consumer"]
  BY <1>2, <1>3 DEF ListInv, MutexOK
<1>8. TakeOK'
  BY <1>1, <1>7 DEF ListInv, TakeOK
<1> QED BY <1>1, <1>2, <1>4, <1>5, <1>6, <1>7, <1>8 DEF ListInv, At

\* The consumer's own steps.
LEMMA ConsumerStep ==
    ASSUME ListInv, Consumer \/ TimedOut
    PROVE  ListInv'
<1> USE SafeListAssumption
<1>1. /\ slList \in Seq(Nat) /\ slTaken \in Seq(Nat)
      /\ DOMAIN slPc = Pushers \cup {"consumer"} /\ MutexOK /\ NewOK /\ TakeOK
  BY DEF ListInv
<1>2. ASSUME NEW l, Goto(l)
      PROVE  /\ slPc'["consumer"] = l /\ \A p \in Pushers : slPc'[p] = slPc[p]
             /\ DOMAIN slPc' = Pushers \cup {"consumer"}
  BY <1>1, <1>2 DEF Goto
<1>3. CASE IsEmpty
  <2>1. PICK l \in {"lock", "take"} : Goto(l) /\ (l = "take" => slList # <<>>)
    BY <1>3 DEF IsEmpty
  <2>2. UNCHANGED <<slList, slMutex, slNew, slTaken>> /\ slPc["consumer"] = "test"
    BY <1>3 DEF IsEmpty, At
  <2>3. MutexOK' /\ NewOK' /\ TakeOK'
    BY <1>1, <1>2, <2>1, <2>2 DEF MutexOK, NewOK, TakeOK
  <2> QED BY <1>1, <1>2, <2>1, <2>2, <2>3 DEF ListInv
<1>4. CASE WaitForPush \/ Woken \/ TimedOut
  <2>1. PICK l \in {"wait", "test"} : Goto(l)
    BY <1>4 DEF WaitForPush, Woken, TimedOut
  <2>2. UNCHANGED <<slList, slMutex, slNew, slTaken>> /\ slPc["consumer"] \in {"lock", "wait"}
    BY <1>4 DEF WaitForPush, Woken, TimedOut, At
  <2>3. MutexOK' /\ NewOK' /\ TakeOK'
    BY <1>1, <1>2, <2>1, <2>2 DEF MutexOK, NewOK, TakeOK
  <2> QED BY <1>1, <1>2, <2>1, <2>2, <2>3 DEF ListInv
<1>5. CASE Reset
  <2>1. /\ Goto("pop") /\ slPc["consumer"] = "take" /\ slMutex = "none" /\ slMutex' = "consumer"
        /\ UNCHANGED <<slList, slNew, slTaken>>
    BY <1>5 DEF Reset, At, MutexFree
  <2>2. MutexOK' /\ NewOK' /\ TakeOK'
    BY <1>1, <1>2, <2>1 DEF MutexOK, NewOK, TakeOK
  <2> QED BY <1>1, <1>2, <2>1, <2>2 DEF ListInv
<1>6. CASE PopFront
  <2>1. /\ Goto("test") /\ slPc["consumer"] = "pop" /\ slMutex' = "none" /\ slNew' = slNew
        /\ slList # <<>> /\ slTaken' = Append(slTaken, Head(slList)) /\ slList' = Tail(slList)
    BY <1>1, <1>6 DEF PopFront, At, TakeOK
  <2>2. slMutex = "consumer" /\ slNew = 0
    BY <1>1, <2>1 DEF MutexOK, NewOK
  <2>3. slList' \in Seq(Nat) /\ slTaken' \in Seq(Nat) /\ Len(slList') \in Nat
    BY <1>1, <2>1
  <2>4. MutexOK' /\ NewOK' /\ TakeOK'
    BY <1>1, <1>2, <2>1, <2>2, <2>3 DEF MutexOK, NewOK, TakeOK
  <2> QED BY <1>2, <2>1, <2>3, <2>4 DEF ListInv
<1>7. CASE AppendToOther
  <2>1. /\ Goto("test") /\ slPc["consumer"] = "take" /\ slMutex = "none"
        /\ slTaken' = slTaken \o slList /\ slList' = <<>> /\ UNCHANGED <<slMutex, slNew>>
    BY <1>7 DEF AppendToOther, At, MutexFree
  <2>2. slNew = 0
    BY <1>1, <2>1 DEF NewOK
  <2>3. slList' \in Seq(Nat) /\ slTaken' \in Seq(Nat) /\ Len(slList') = 0
    BY <1>1, <2>1
  <2>4. MutexOK' /\ NewOK' /\ TakeOK'
    BY <1>1, <1>2, <2>1, <2>2, <2>3 DEF MutexOK, NewOK, TakeOK
  <2> QED BY <1>2, <2>1, <2>3, <2>4 DEF ListInv
<1> QED BY <1>3, <1>4, <1>5, <1>6, <1>7 DEF Consumer

\* The invariant is kept by every step.
LEMMA ListStep == ListInv /\ [SLNext]_slVars => ListInv'
<1>1. ListInv /\ SLNext => ListInv'
  BY PushBackStep, SetEventStep, ConsumerStep DEF SLNext
<1>2. ListInv /\ UNCHANGED slVars => ListInv'
  BY DEF ListInv, MutexOK, NewOK, TakeOK, slVars
<1> QED BY <1>1, <1>2

-----------------------------------------------------------------------------
(* The refinement                                                          *)

\* What the abstract list holds while nobody is in the middle of anything.
LEMMA WholeList ==
    ASSUME ListInv, slNew = 0
    PROVE  SubSeq(slList, 1, Len(slList) - slNew) = slList
<1>1. slList \in Seq(Nat) /\ Len(slList) - slNew = Len(slList)
  BY DEF ListInv
<1> QED BY <1>1, SubSeqFull

\* Every step of the list with mutex and event is a step of the abstract list, or none.
LEMMA StepIsWaitable == ListInv /\ ListInv' /\ [SLNext]_slVars => [Waitable!WNext]_(Waitable!waitableVars)
<1> SUFFICES ASSUME ListInv, ListInv', [SLNext]_slVars
             PROVE  [Waitable!WNext]_(Waitable!waitableVars)
  OBVIOUS
<1> DEFINE list == IF Popping THEN Tail(slList) ELSE SubSeq(slList, 1, Len(slList) - slNew)
           taken == IF Popping THEN Append(slTaken, Head(slList)) ELSE slTaken
<1>0. slList \in Seq(Nat) /\ slTaken \in Seq(Nat) /\ Len(slList) \in Nat
  BY DEF ListInv
<1>1. ASSUME NEW p \in Pushers, NEW n \in 1 .. 2, PushBack(p, n)
      PROVE  UNCHANGED Waitable!waitableVars
  <2>1. /\ slList' = slList \o Numbered(n) /\ slNew = 0 /\ slNew' = n
        /\ Len(slList') = Len(slList) + n /\ UNCHANGED <<slState, slTaken>>
        /\ ~Popping /\ ~Popping'
    BY <1>1, PushBackStep DEF PushBack, Popping
  <2>2. list = slList
    BY <2>1, WholeList
  <2>3. list' = slList
    <3>1. Len(slList') - slNew' = Len(slList)
      BY <1>0, <2>1
    <3>2. list' = SubSeq(slList', 1, Len(slList))
      BY <2>1, <3>1
    <3>3. Numbered(n) \in Seq(Nat) /\ Len(Numbered(n)) = n
      BY <1>0, NumberedFacts
    <3>4. SubSeq(slList \o Numbered(n), 1, Len(slList)) = slList
      BY <1>0, <3>3
    <3> QED BY <2>1, <3>2, <3>4
  <2> QED BY <2>1, <2>2, <2>3 DEF Waitable!waitableVars
<1>2. ASSUME NEW p \in Pushers, SetEvent(p) PROVE Waitable!WPush
  <2>1. /\ slState' = TRUE /\ UNCHANGED <<slList, slTaken>>
        /\ slNew \in 1 .. Len(slList) /\ slNew' = 0 /\ ~Popping /\ ~Popping'
    BY <1>2, SetEventStep DEF Popping
  <2>2. list' = slList
    BY <1>0, <2>1, SubSeqFull
  <2>3. list = SubSeq(slList, 1, Len(slList) - slNew)
    BY <2>1
  <2>4. Len(list) = Len(slList) - slNew /\ Len(slList) > Len(slList) - slNew
    BY <1>0, <2>1, <2>3
  <2>5. Len(list') > Len(list) /\ SubSeq(list', 1, Len(list)) = list
    BY <2>2, <2>3, <2>4
  <2> QED BY <2>1, <2>5 DEF Waitable!WPush
<1>3. CASE IsEmpty \/ WaitForPush \/ TimedOut
  <2>1. /\ UNCHANGED <<slList, slState, slNew, slTaken>>
        /\ slPc["consumer"] # "pop"
    BY <1>3 DEF IsEmpty, WaitForPush, LockAndWait, TimedOut, At
  <2>2. slPc'["consumer"] # "pop"
    BY <1>3 DEF IsEmpty, WaitForPush, TimedOut, Goto, ListInv
  <2> QED BY <2>1, <2>2 DEF Waitable!waitableVars, Popping, At
<1>4. CASE Woken
  <2>1. /\ UNCHANGED <<slList, slNew, slTaken>> /\ slState /\ slState' = FALSE
        /\ slPc["consumer"] # "pop"
    BY <1>4 DEF Woken, At
  <2>2. slPc'["consumer"] # "pop"
    BY <1>4 DEF Woken, Goto, ListInv
  <2>3. ~Popping /\ ~Popping'
    BY <2>1, <2>2 DEF Popping, At
  <2>4. UNCHANGED <<list, taken>>
    BY <2>1, <2>3
  <2> QED BY <2>1, <2>4 DEF Waitable!WWake, Waitable!WNext
<1>5. CASE Reset
  <2>1. /\ UNCHANGED <<slList, slNew, slTaken>> /\ slState' = FALSE
        /\ slPc["consumer"] = "take" /\ slMutex = "none"
    BY <1>5 DEF Reset, At, MutexFree
  <2>2. slPc'["consumer"] = "pop"
    BY <1>5 DEF Reset, Goto, ListInv
  <2>3. slList # <<>> /\ slNew = 0
    BY <2>1, SafeListAssumption DEF ListInv, TakeOK, NewOK
  <2>4. list = slList /\ taken = slTaken
    BY <2>1, <2>3, WholeList DEF Popping, At
  <2>5. list' = Tail(slList) /\ taken' = Append(slTaken, Head(slList))
    <3>1. Popping'
      BY <2>1, <2>2, <2>3 DEF Popping, At
    <3> QED BY <2>1, <3>1
  <2> QED BY <2>1, <2>3, <2>4, <2>5 DEF Waitable!WTake, Waitable!WNext
<1>6. CASE PopFront
  <2>1. slPc["consumer"] = "pop" /\ slState' = slState /\ slNew' = slNew
    BY <1>6 DEF PopFront, At
  <2>2. slList # <<>> /\ slNew = 0
    BY <2>1, SafeListAssumption DEF ListInv, TakeOK, NewOK, MutexOK
  <2>3. slTaken' = Append(slTaken, Head(slList)) /\ slList' = Tail(slList)
    BY <1>6, <2>2 DEF PopFront
  <2>4. slPc'["consumer"] # "pop"
    BY <1>6 DEF PopFront, Goto, ListInv
  <2>5. list = Tail(slList) /\ taken = Append(slTaken, Head(slList))
    BY <2>1, <2>2 DEF Popping, At
  <2>6. SubSeq(slList', 1, Len(slList') - slNew') = slList'
    <3>1. slList' \in Seq(Nat) /\ slNew' = 0 /\ Len(slList') - 0 = Len(slList')
      BY <1>0, <2>1, <2>2, <2>3
    <3> QED BY <3>1, SubSeqFull
  <2>7. list' = slList' /\ taken' = slTaken'
    BY <2>4, <2>6 DEF Popping, At
  <2> QED BY <2>1, <2>3, <2>5, <2>7 DEF Waitable!waitableVars
<1>7. CASE AppendToOther
  <2>1. /\ slPc["consumer"] = "take" /\ slMutex = "none" /\ slState' = slState /\ slNew' = slNew
        /\ slTaken' = slTaken \o slList /\ slList' = <<>>
    BY <1>7 DEF AppendToOther, At, MutexFree
  <2>2. slList # <<>> /\ slNew = 0
    BY <2>1, SafeListAssumption DEF ListInv, TakeOK, NewOK
  <2>3. slPc'["consumer"] # "pop"
    BY <1>7 DEF AppendToOther, Goto, ListInv
  <2>4. list = slList /\ taken = slTaken
    BY <2>1, <2>2, WholeList DEF Popping, At
  <2>5. list' = <<>> /\ taken' = slTaken \o slList
    <3>1. ~Popping'
      BY <2>1, <2>3 DEF Popping, At
    <3>2. list' = SubSeq(slList', 1, Len(slList') - slNew') /\ taken' = slTaken'
      BY <3>1
    <3>3. slList' \in Seq(Nat) /\ Len(slList') - slNew' = Len(slList')
      BY <2>1, <2>2
    <3>4. SubSeq(slList', 1, Len(slList')) = slList'
      BY <3>3, SubSeqFull
    <3> QED BY <2>1, <3>2, <3>3, <3>4
  <2> QED BY <2>1, <2>2, <2>4, <2>5 DEF Waitable!WDrain, Waitable!WNext
<1>8. CASE UNCHANGED slVars
  BY <1>8 DEF slVars, Waitable!waitableVars, Popping, At
<1> QED
  BY <1>1, <1>2, <1>3, <1>4, <1>5, <1>6, <1>7, <1>8 DEF SLNext, Consumer, Waitable!WNext

\* SafeListImplements: with its mutex held across the two halves of a push and of a pull, and a
\* consumer that waits without it, SafeList is the list whose operations happen at once: what is
\* taken is what was pushed, in its order, none twice and none lost, and the event is set by a
\* push and cleared only by a pull or by the wait it ends.
THEOREM SafeListImplements == SLSpec => SafeListIsWaitable
<1>1. SLInit => Waitable!WInit
  BY DEF SLInit, Waitable!WInit, Popping, At
<1>2. SLSpec => []ListInv
  BY ListStarts, ListStep, PTL DEF SLSpec
<1> QED BY <1>1, <1>2, StepIsWaitable, PTL DEF SLSpec, SafeListIsWaitable, Waitable!WSpec

-----------------------------------------------------------------------------
(* The logger's thread, which waits on such a list                         *)

LogTypes ==
    /\ logFile \in Seq(Nat) /\ logAccepted \in Seq(Nat) /\ logOffered \in Nat
    /\ DOMAIN logList = {"events", "set"} /\ logList.events \in Seq(Nat) /\ logList.set \in BOOLEAN

\* The event is set only while something is listed, and the thread pulls only then.
PullsSomething ==
    /\ logList.set = TRUE => logList.events # <<>>
    /\ logPc = "pull" => logList.events # <<>>

\* The inductive invariant.
LogInv == LogTypes /\ PullsSomething /\ FileFollowsEvents

LEMMA LogStart == LogInit => LogInv
<1> SUFFICES ASSUME LogInit PROVE LogInv
  OBVIOUS
<1>1. DOMAIN logList = {"events", "set"} /\ logList.events = <<>> /\ logList.set = FALSE
  BY DEF LogInit
<1> QED BY <1>1 DEF LogInit, LogInv, LogTypes, PullsSomething, FileFollowsEvents

\* An element that joins the second of two sequences.
LEMMA AppendToTheSecond ==
    ASSUME NEW a \in Seq(Nat), NEW b \in Seq(Nat), NEW x \in Nat
    PROVE  a \o Append(b, x) = Append(a \o b, x)
<1> DEFINE l == a \o Append(b, x)
           r == Append(a \o b, x)
<1>1. l \in Seq(Nat) /\ r \in Seq(Nat) /\ Len(l) = Len(r)
  OBVIOUS
<1>2. ASSUME NEW i \in 1 .. Len(l) PROVE l[i] = r[i]
  OBVIOUS
<1> HIDE DEF l, r
<1>3. l = r
  BY <1>1, <1>2, SeqEqual
<1> QED BY <1>3 DEF l, r

\* And one that moves from the second sequence to the first.
LEMMA MovesToTheFirst ==
    ASSUME NEW a \in Seq(Nat), NEW b \in Seq(Nat), b # <<>>
    PROVE  /\ Append(a, Head(b)) \in Seq(Nat) /\ Tail(b) \in Seq(Nat)
           /\ Append(a, Head(b)) \o Tail(b) = a \o b
<1>1. /\ Len(b) \in Nat \ {0} /\ Head(b) = b[1] /\ b[1] \in Nat /\ Tail(b) \in Seq(Nat)
      /\ Len(Tail(b)) = Len(b) - 1 /\ \A i \in 1 .. Len(b) - 1 : Tail(b)[i] = b[i + 1]
  OBVIOUS
<1> DEFINE c == Append(a, Head(b))
           l == c \o Tail(b)
           r == a \o b
<1>2. c \in Seq(Nat) /\ Len(c) = Len(a) + 1 /\ c[Len(a) + 1] = b[1] /\ \A i \in 1 .. Len(a) : c[i] = a[i]
  BY <1>1
<1> HIDE DEF c
<1>3. l \in Seq(Nat) /\ Len(l) = Len(c) + Len(Tail(b))
      /\ \A i \in 1 .. Len(c) + Len(Tail(b)) : l[i] = IF i <= Len(c) THEN c[i] ELSE Tail(b)[i - Len(c)]
  BY <1>1, <1>2, ConcatProperties
<1>4. r \in Seq(Nat) /\ Len(r) = Len(a) + Len(b)
      /\ \A i \in 1 .. Len(a) + Len(b) : r[i] = IF i <= Len(a) THEN a[i] ELSE b[i - Len(a)]
  BY ConcatProperties
<1> HIDE DEF l, r
<1>5. Len(l) = Len(r) /\ Len(a) \in Nat
  BY <1>1, <1>2, <1>3, <1>4
<1>6. ASSUME NEW i \in 1 .. Len(r) PROVE l[i] = r[i]
  <2>1. /\ i \in 1 .. Len(a) + Len(b) /\ i \in 1 .. Len(c) + Len(Tail(b)) /\ Len(c) = Len(a) + 1
        /\ Len(a) \in Nat /\ Len(b) \in Nat \ {0} /\ Len(Tail(b)) = Len(b) - 1
    BY <1>1, <1>2, <1>4, <1>5
  <2>2. /\ l[i] = IF i <= Len(c) THEN c[i] ELSE Tail(b)[i - Len(c)]
        /\ r[i] = IF i <= Len(a) THEN a[i] ELSE b[i - Len(a)]
    BY <1>3, <1>4, <2>1
  <2>3. CASE i <= Len(a)
    <3>1. i \in 1 .. Len(a) /\ i <= Len(c)
      BY <2>1, <2>3
    <3> QED BY <1>2, <2>2, <2>3, <3>1
  <2>4. CASE i = Len(a) + 1
    <3>1. i <= Len(c) /\ ~(i <= Len(a)) /\ i - Len(a) = 1
      BY <2>1, <2>4
    <3> QED BY <1>2, <2>2, <2>4, <3>1
  <2>5. CASE Len(a) + 1 < i
    <3>1. /\ ~(i <= Len(c)) /\ ~(i <= Len(a))
          /\ i - Len(c) \in 1 .. Len(b) - 1 /\ (i - Len(c)) + 1 = i - Len(a)
      BY <2>1, <2>5
    <3> QED BY <1>1, <2>2, <3>1
  <2> QED BY <2>1, <2>3, <2>4, <2>5
<1>7. l = r
  BY <1>3, <1>4, <1>5, <1>6, SeqEqual
<1> QED BY <1>1, <1>2, <1>7 DEF c, l, r

LEMMA LogPreserved ==
    ASSUME LogInv, [LogNext]_logVars
    PROVE  LogInv'
<1> USE DEF LogInv, LogTypes, PullsSomething, FileFollowsEvents
<1>1. ASSUME UNCHANGED <<logList, logFile, logOffered, logAccepted>>, logPc' = "pull" => logPc = "pull"
      PROVE  LogInv'
  BY <1>1
<1>2. CASE AddEvent
  <2> DEFINE e == logOffered + 1
  <2>1. e \in Nat /\ logOffered' = e /\ UNCHANGED <<logFile, logPc>>
    BY <1>2 DEF AddEvent
  <2>2. CASE logRunning
    <3>1. /\ logList' = [events |-> Append(logList.events, e), set |-> TRUE]
          /\ logAccepted' = Append(logAccepted, e)
      BY <1>2, <2>2 DEF AddEvent
    <3>2. /\ DOMAIN logList' = {"events", "set"} /\ logList'.events = Append(logList.events, e)
          /\ logList'.set = TRUE
      BY <3>1
    <3> HIDE DEF e
    <3>3. /\ Append(logList.events, e) \in Seq(Nat) /\ Append(logList.events, e) # <<>>
          /\ Append(logAccepted, e) \in Seq(Nat)
      <4>1. Append(logList.events, e) \in Seq(Nat) /\ Append(logList.events, e) # <<>>
        BY <2>1, SMTT(20)
      <4>2. Append(logAccepted, e) \in Seq(Nat)
        BY <2>1, SMTT(20)
      <4> QED BY <4>1, <4>2
    <3>4. logFile \o Append(logList.events, e) = Append(logFile \o logList.events, e)
      BY <2>1, AppendToTheSecond
    <3> QED BY <2>1, <3>1, <3>2, <3>3, <3>4
  <2>3. CASE ~logRunning
    BY <1>2, <2>1, <2>3 DEF AddEvent
  <2> QED BY <2>2, <2>3
<1>3. CASE LogWait
  <2>1. /\ logPc = "wait" /\ logPc' = IF logList.set THEN "pull" ELSE "test"
        /\ logList' = [logList EXCEPT !.set = FALSE] /\ UNCHANGED <<logFile, logOffered, logAccepted>>
    BY <1>3 DEF LogWait, LogStep
  <2>2. DOMAIN logList' = {"events", "set"} /\ logList'.events = logList.events /\ logList'.set = FALSE
    BY <2>1
  <2>3. logPc' = "pull" => logList.events # <<>>
    BY <2>1
  <2> QED BY <2>1, <2>2, <2>3
<1>4. CASE LogWrite
  <2>1. /\ logList.events # <<>> /\ logPc' = "test"
        /\ logFile' = Append(logFile, Head(logList.events)) /\ logList' = [events |-> Tail(logList.events), set |-> FALSE]
        /\ UNCHANGED <<logOffered, logAccepted>>
    BY <1>4 DEF LogWrite, LogStep, Pulled
  <2>2. DOMAIN logList' = {"events", "set"} /\ logList'.events = Tail(logList.events) /\ logList'.set = FALSE
    BY <2>1
  <2>3. logFile' \in Seq(Nat) /\ Tail(logList.events) \in Seq(Nat) /\ logFile' \o logList'.events = logFile \o logList.events
    BY <2>1, <2>2, MovesToTheFirst
  <2> QED BY <2>1, <2>2, <2>3
<1>5. CASE TestQuit
  <2>1. /\ logPc' = IF logQuit THEN "ending" ELSE IF logList.events = <<>> THEN "wait" ELSE "pull"
        /\ UNCHANGED <<logList, logFile, logOffered, logAccepted>>
    BY <1>5 DEF TestQuit, LogStep
  <2> QED BY <2>1
<1>6. CASE Run \/ Destroy \/ LoggerJoined \/ OpenFile \/ LogEnd \/ UNCHANGED logVars
  BY <1>1, <1>6 DEF Run, Destroy, LoggerJoined, OpenFile, LogEnd, LogStep, logVars
<1> QED BY <1>2, <1>3, <1>4, <1>5, <1>6 DEF LogNext, LoggerThread

\* For any number of events and runs of the logger: nothing is written but the events that were
\* accepted, once each and in their order, and what is not written is still listed.
THEOREM LogHasEveryEvent == LogSpec => []FileFollowsEvents
<1>1. LogInv /\ [LogNext]_logVars => LogInv'
  BY LogPreserved
<1>2. LogInv => FileFollowsEvents
  BY DEF LogInv
<1> QED BY LogStart, <1>1, <1>2, PTL DEF LogSpec

-----------------------------------------------------------------------------
(* The server with a single thread                                         *)

Distinct(s) == \A i, j \in 1 .. Len(s) : s[i] = s[j] => i = j

ListOK == ssList \in Seq(Fds) /\ Distinct(ssList) /\ Listed \subseteq Open /\ Open \subseteq Fds

\* Names are those of the clients, each held once; a name without a listed socket is explained.
NamesOK == /\ \A f \in Open : ssPeer[f] \in SSClients
           /\ NamesAreTrue

\* The listen thread: its new socket is open and not in the list, and it has the lock for the hand
\* shake, which the server thread then has not.
CallerOK ==
    /\ ssLpc \in {"accept", "lock", "protocol", "name", "welcome"}
    /\ ssLpc # "accept" => ssFd \in Open \ Listed
    /\ ssLpc \notin {"accept", "lock"} => ssHeld
    /\ ssLpc = "welcome" => ssFd \in DOMAIN ssWho /\ ssWho[ssFd] = ssPeer[ssFd] /\ ssFd \notin jilted
    /\ ssHeld => ssPc # "serve"

KeptOK == Open \ Listed # {} => LeftLocked \/ (ssLpc # "accept" /\ Open \ Listed = {ssFd})

\* The database has been told of the clients that have a socket.
ToldOK == /\ told \in [SSClients -> Int]
          /\ \A c \in SSClients : told[c] = IF \E f \in Listed : ssPeer[f] = c THEN 1 ELSE 0

\* The sockets the server thread has yet to look at are still there, for it holds the lock.
TodoOK == ssTodo \in Seq(Fds) /\ (ssPc = "serve" => ToSet(ssTodo) \subseteq Listed)

\* The inductive invariant.
SSInv == ListOK /\ NamesOK /\ CallerOK /\ KeptOK /\ ToldOK /\ TodoOK

\* A socket that joins the front of the list.
LEMMA JoinsTheFront ==
    ASSUME NEW S, NEW s \in Seq(S), Distinct(s), NEW f \in S, f \notin ToSet(s)
    PROVE  /\ <<f>> \o s \in Seq(S) /\ Distinct(<<f>> \o s)
           /\ ToSet(<<f>> \o s) = ToSet(s) \cup {f}
<1> DEFINE t == <<f>> \o s
<1>1. /\ t \in Seq(S) /\ Len(t) = Len(s) + 1 /\ t[1] = f /\ Len(s) \in Nat
      /\ \A i \in 2 .. Len(t) : i - 1 \in 1 .. Len(s) /\ t[i] = s[i - 1]
      /\ \A i \in 1 .. Len(s) : i + 1 \in 2 .. Len(t) /\ t[i + 1] = s[i]
  OBVIOUS
<1> HIDE DEF t
<1>2. \A i \in 1 .. Len(s) : s[i] # f
  BY DEF ToSet
<1>3. Distinct(t)
  <2> SUFFICES ASSUME NEW i \in 1 .. Len(t), NEW j \in 1 .. Len(t), t[i] = t[j] PROVE i = j
    BY DEF Distinct
  <2>1. i = 1 \/ i \in 2 .. Len(t)
    BY <1>1
  <2>2. j = 1 \/ j \in 2 .. Len(t)
    BY <1>1
  <2>3. CASE i \in 2 .. Len(t) /\ j \in 2 .. Len(t)
    <3>1. i - 1 \in 1 .. Len(s) /\ j - 1 \in 1 .. Len(s) /\ s[i - 1] = s[j - 1]
      BY <1>1, <2>3
    <3>2. i - 1 = j - 1
      BY <3>1 DEF Distinct
    <3> QED BY <1>1, <2>3, <3>2
  <2> QED BY <1>1, <1>2, <2>1, <2>2, <2>3
<1>4. ToSet(t) \subseteq ToSet(s) \cup {f}
  <2> SUFFICES ASSUME NEW i \in 1 .. Len(t) PROVE t[i] \in ToSet(s) \cup {f}
    BY <1>1 DEF ToSet
  <2>1. i = 1 \/ i \in 2 .. Len(t)
    BY <1>1
  <2> QED BY <1>1, <2>1 DEF ToSet
<1>5. ToSet(s) \cup {f} \subseteq ToSet(t)
  <2>1. f \in ToSet(t)
    BY <1>1 DEF ToSet
  <2>2. ASSUME NEW i \in 1 .. Len(s) PROVE s[i] \in ToSet(t)
    <3>1. i + 1 \in DOMAIN t /\ t[i + 1] = s[i]
      BY <1>1
    <3> QED BY <3>1 DEF ToSet
  <2> QED BY <2>1, <2>2 DEF ToSet
<1> QED BY <1>1, <1>3, <1>4, <1>5 DEF t

\* One that is erased from it.
LEMMA Erased ==
    ASSUME NEW S, NEW s \in Seq(S), Distinct(s), NEW k \in 1 .. Len(s)
    PROVE  /\ RemoveAt(s, k) \in Seq(S) /\ Distinct(RemoveAt(s, k))
           /\ ToSet(RemoveAt(s, k)) = ToSet(s) \ {s[k]}
<1> DEFINE t == RemoveAt(s, k)
           a == SubSeq(s, 1, k - 1)
           b == SubSeq(s, k + 1, Len(s))
<1>0. Len(s) \in Nat /\ k \in Nat /\ 1 <= k /\ k <= Len(s)
  OBVIOUS
<1>1. a \in Seq(S) /\ Len(a) = k - 1 /\ \A i \in 1 .. k - 1 : a[i] = s[i]
  BY <1>0
<1>2. b \in Seq(S) /\ Len(b) = Len(s) - k /\ \A i \in 1 .. Len(s) - k : b[i] = s[k + i]
  BY <1>0
<1>3. t = a \o b
  BY DEF RemoveAt
<1> HIDE DEF a, b, t
<1>4. /\ t \in Seq(S) /\ Len(t) = Len(s) - 1
      /\ \A i \in 1 .. Len(t) : t[i] = IF i < k THEN s[i] ELSE s[i + 1]
  <2>1. /\ t \in Seq(S) /\ Len(t) = (k - 1) + (Len(s) - k)
        /\ \A i \in 1 .. (k - 1) + (Len(s) - k) : t[i] = IF i <= k - 1 THEN a[i] ELSE b[i - (k - 1)]
    <3>1. /\ t \in Seq(S) /\ Len(t) = Len(a) + Len(b)
          /\ \A i \in 1 .. Len(a) + Len(b) : t[i] = IF i <= Len(a) THEN a[i] ELSE b[i - Len(a)]
      BY <1>1, <1>2, <1>3, ConcatProperties
    <3> QED BY <1>1, <1>2, <3>1
  <2>2. Len(t) = Len(s) - 1
    BY <1>0, <2>1
  <2>3. ASSUME NEW i \in 1 .. Len(t), i < k PROVE t[i] = s[i]
    <3>1. i \in 1 .. k - 1 /\ i \in 1 .. (k - 1) + (Len(s) - k) /\ i <= k - 1
      BY <1>0, <2>2, <2>3
    <3> QED BY <1>1, <2>1, <3>1
  <2>4. ASSUME NEW i \in 1 .. Len(t), ~(i < k) PROVE t[i] = s[i + 1]
    <3>1. /\ i - (k - 1) \in 1 .. Len(s) - k /\ i \in 1 .. (k - 1) + (Len(s) - k) /\ ~(i <= k - 1)
          /\ k + (i - (k - 1)) = i + 1
      BY <1>0, <2>2, <2>4
    <3> QED BY <1>2, <2>1, <3>1
  <2> QED BY <2>1, <2>2, <2>3, <2>4
<1>5. Distinct(t)
  <2> SUFFICES ASSUME NEW i \in 1 .. Len(t), NEW j \in 1 .. Len(t), t[i] = t[j] PROVE i = j
    BY DEF Distinct
  <2> DEFINE p(n) == IF n < k THEN n ELSE n + 1
  <2>1. p(i) \in 1 .. Len(s) /\ p(j) \in 1 .. Len(s) /\ t[i] = s[p(i)] /\ t[j] = s[p(j)]
    BY <1>0, <1>4
  <2>2. p(i) = p(j)
    BY <2>1 DEF Distinct
  <2> QED BY <1>0, <2>2
<1>6. ASSUME NEW i \in 1 .. Len(t) PROVE t[i] \in ToSet(s) \ {s[k]}
  <2> DEFINE p == IF i < k THEN i ELSE i + 1
  <2>1. p \in 1 .. Len(s) /\ p # k /\ t[i] = s[p]
    BY <1>0, <1>4
  <2>2. s[p] # s[k]
    BY <2>1 DEF Distinct
  <2>3. s[p] \in ToSet(s)
    BY <2>1 DEF ToSet
  <2> QED BY <2>1, <2>2, <2>3
<1>7. ASSUME NEW i \in 1 .. Len(s), s[i] # s[k] PROVE s[i] \in ToSet(t)
  <2> DEFINE p == IF i < k THEN i ELSE i - 1
  <2>1. p \in 1 .. Len(t) /\ t[p] = s[i]
    <3>1. CASE i < k
      BY <1>0, <1>4, <3>1
    <3>2. CASE k < i
      <4>1. p = i - 1 /\ p \in 1 .. Len(t) /\ ~(p < k) /\ p + 1 = i
        BY <1>0, <1>4, <3>2
      <4> QED BY <1>4, <4>1
    <3> QED BY <1>0, <1>7, <3>1, <3>2
  <2> QED BY <1>4, <2>1 DEF ToSet
<1>8. ToSet(t) = ToSet(s) \ {s[k]}
  BY <1>4, <1>6, <1>7 DEF ToSet
<1> QED BY <1>4, <1>5, <1>8 DEF t

\* A turn of the list.
LEMMA Turned ==
    ASSUME NEW S, NEW s \in Seq(S), Distinct(s), s # <<>>
    PROVE  Rotated(s) \in Seq(S) /\ Distinct(Rotated(s)) /\ ToSet(Rotated(s)) = ToSet(s)
<1> DEFINE n == Len(s)
           t == Rotated(s)
<1>1. n \in Nat /\ 1 <= n /\ s[n] \in S
  OBVIOUS
<1>2. /\ t \in Seq(S) /\ Len(t) = n
      /\ \A i \in 1 .. n : t[i] = IF i = 1 THEN s[n] ELSE s[i - 1]
  <2> DEFINE a == SubSeq(s, 1, n - 1)
  <2>1. a \in Seq(S) /\ Len(a) = n - 1 /\ \A i \in 1 .. n - 1 : a[i] = s[i]
    <3>1. ASSUME NEW m \in 0 .. Len(s)
          PROVE  SubSeq(s, 1, m) \in Seq(S) /\ Len(SubSeq(s, 1, m)) = m /\ \A i \in 1 .. m : SubSeq(s, 1, m)[i] = s[i]
      OBVIOUS
    <3>2. n - 1 \in 0 .. Len(s)
      BY <1>1
    <3> QED BY <3>1, <3>2
  <2>2. t = <<s[n]>> \o a
    BY DEF Rotated, Last, Front
  <2> HIDE DEF a, n, t
  <2> QED BY <1>1, <2>1, <2>2
<1> HIDE DEF t
<1>3. Distinct(t)
  <2> SUFFICES ASSUME NEW i \in 1 .. n, NEW j \in 1 .. n, t[i] = t[j] PROVE i = j
    BY <1>2 DEF Distinct
  <2> DEFINE p(k) == IF k = 1 THEN n ELSE k - 1
  <2>1. p(i) \in 1 .. n /\ p(j) \in 1 .. n /\ t[i] = s[p(i)] /\ t[j] = s[p(j)]
    BY <1>1, <1>2
  <2>2. p(i) = p(j)
    BY <2>1 DEF Distinct
  <2> QED BY <1>1, <2>2
<1>4. ASSUME NEW i \in 1 .. n PROVE t[i] \in ToSet(s)
  <2> DEFINE p == IF i = 1 THEN n ELSE i - 1
  <2>1. p \in 1 .. Len(s) /\ t[i] = s[p]
    BY <1>1, <1>2
  <2> QED BY <2>1 DEF ToSet
<1>5. ASSUME NEW i \in 1 .. n PROVE s[i] \in ToSet(t)
  <2> DEFINE p == IF i = n THEN 1 ELSE i + 1
  <2>1. p \in 1 .. Len(t) /\ t[p] = s[i]
    BY <1>1, <1>2
  <2> QED BY <1>2, <2>1 DEF ToSet
<1>6. ToSet(t) = ToSet(s)
  BY <1>2, <1>4, <1>5 DEF ToSet
<1> QED BY <1>2, <1>3, <1>6 DEF t

\* The rest of a list, and how many sockets it holds.
LEMMA RestOf ==
    ASSUME NEW S, NEW s \in Seq(S), s # <<>>
    PROVE  Head(s) \in ToSet(s) /\ Tail(s) \in Seq(S) /\ ToSet(Tail(s)) \subseteq ToSet(s)
<1>1. /\ 1 \in 1 .. Len(s) /\ Head(s) = s[1] /\ Tail(s) \in Seq(S) /\ Len(Tail(s)) = Len(s) - 1
      /\ \A i \in 1 .. Len(Tail(s)) : i + 1 \in 1 .. Len(s) /\ Tail(s)[i] = s[i + 1]
  OBVIOUS
<1> QED BY <1>1 DEF ToSet

-----------------------------------------------------------------------------
LEMMA SSStart == SSInit => SSInv
<1> SUFFICES ASSUME SSInit PROVE SSInv
  OBVIOUS
<1>1. /\ ssList = <<>> /\ ssTodo = <<>> /\ ssWho = <<>> /\ ssPeer = <<>> /\ ssLpc = "accept"
      /\ ssHeld = FALSE /\ ssPc = "top" /\ told = [c \in SSClients |-> 0] /\ jilted = {}
  BY DEF SSInit
<1>2. <<>> \in Seq(Fds) /\ Distinct(<<>>) /\ ToSet(<<>>) = {} /\ DOMAIN <<>> = {}
  BY DEF Distinct, ToSet
<1>3. Listed = {} /\ Open = {} /\ DOMAIN ssWho = {}
  BY <1>1, <1>2 DEF Listed, Open
<1> QED
  BY <1>1, <1>2, <1>3 DEF SSInv, ListOK, NamesOK, NamesAreTrue, CallerOK, KeptOK, ToldOK, TodoOK

\* What the clients and the server thread do without the tables.
LEMMA TablesLeftAlone ==
    ASSUME SSInv, UNCHANGED <<ssTables, ssPeer, ssListen>>
    PROVE  /\ ListOK' /\ NamesOK' /\ KeptOK' /\ ToldOK' /\ Listed' = Listed
           /\ ((ssHeld => ssPc' # "serve") => CallerOK')
<1>1. UNCHANGED <<ssList, ssWho, told, jilted, ssPeer, ssLpc, ssFd, ssHeld>>
  BY DEF ssTables, ssListen
<1>2. Listed' = Listed /\ Open' = Open /\ LeftLocked' = LeftLocked
  BY <1>1 DEF Listed, Open, LeftLocked
<1>3. ListOK' /\ KeptOK' /\ ToldOK'
  BY <1>1, <1>2 DEF SSInv, ListOK, KeptOK, ToldOK
<1>4. NamesOK'
  BY <1>1, <1>2 DEF SSInv, NamesOK, NamesAreTrue
<1>5. ASSUME ssHeld => ssPc' # "serve" PROVE CallerOK'
  BY <1>1, <1>2, <1>5 DEF SSInv, CallerOK
<1> QED BY <1>2, <1>3, <1>4, <1>5

\* A client is let in by accept, and waits for the lock.
LEMMA Called ==
    ASSUME SSInv, NEW c \in SSClients, NEW f \in Fds, ListenAccept(c, f)
    PROVE  SSInv'
<1>1. /\ ssLpc = "accept" /\ f \notin Open /\ ssPeer' = With(ssPeer, f, c) /\ ssLpc' = "lock" /\ ssFd' = f
      /\ UNCHANGED <<ssList, ssWho, told, jilted, ssHeld, ssPc, ssTodo>>
  BY DEF ListenAccept, ssTables, ssServer
<1>2. /\ Open' = Open \cup {f} /\ ssPeer'[f] = c /\ (\A g \in Open : g # f /\ ssPeer'[g] = ssPeer[g])
      /\ Listed' = Listed
  BY <1>1 DEF With, Open, Listed
<1>3. Listed \subseteq Open
  BY DEF SSInv, ListOK
<1>4. ListOK' /\ ToldOK' /\ TodoOK'
  BY <1>1, <1>2, <1>3 DEF SSInv, ListOK, ToldOK, TodoOK
<1>5. NamesOK'
  BY <1>1, <1>2, <1>3 DEF SSInv, NamesOK, NamesAreTrue
<1>6. CallerOK'
  BY <1>1, <1>2, <1>3 DEF SSInv, CallerOK
<1>7. KeptOK'
  <2>1. CASE Open \ Listed = {}
    <3>1. Open' \ Listed' = {f}
      BY <1>2, <1>3, <2>1
    <3> QED BY <1>1, <3>1 DEF KeptOK
  <2>2. CASE LeftLocked
    <3>1. LeftLocked'
      BY <1>1, <2>2 DEF LeftLocked
    <3> QED BY <3>1 DEF KeptOK
  <2> QED BY <1>1, <2>1, <2>2 DEF SSInv, KeptOK
<1> QED BY <1>4, <1>5, <1>6, <1>7 DEF SSInv

\* The listen thread locks the list, reads the protocol string, or throws.
LEMMA HandShaken ==
    ASSUME SSInv, ListenLock \/ CheckProtocol \/ HandShakeThrows
    PROVE  SSInv'
<1>1. /\ UNCHANGED <<ssList, ssWho, told, jilted, ssPeer, ssFd, ssPc, ssTodo>>
      /\ ssLpc' \in {"protocol", "name", "accept"} /\ ssLpc \in {"lock", "protocol"}
      /\ ssHeld' = TRUE /\ ssPc # "serve" /\ (ssLpc' = "accept" \/ ~LeftLocked)
  BY DEF ListenLock, CheckProtocol, HandShakeThrows, ssTables, ssSockets, ssServer, ListFree, LeftLocked,
         SSInv, CallerOK
<1>2. Listed' = Listed /\ Open' = Open
  BY <1>1 DEF Listed, Open
<1>3. ListOK' /\ ToldOK' /\ TodoOK'
  BY <1>1, <1>2 DEF SSInv, ListOK, ToldOK, TodoOK
<1>4. NamesOK'
  BY <1>1, <1>2 DEF SSInv, NamesOK, NamesAreTrue
<1>5. CallerOK'
  BY <1>1, <1>2 DEF SSInv, CallerOK
<1>6. KeptOK'
  BY <1>1, <1>2 DEF SSInv, KeptOK, LeftLocked
<1> QED BY <1>3, <1>4, <1>5, <1>6 DEF SSInv

\* A hand shake that failed: the socket is closed, and its name stays if it was entered.
LEMMA Spurned ==
    ASSUME SSInv, Spurn, ssLpc \in {"protocol", "name", "welcome"},
           jilted' = IF ssLpc = "welcome" THEN jilted \cup {ssFd} ELSE jilted
    PROVE  SSInv'
<1>1. /\ ssPeer' = [g \in Open \ {ssFd} |-> ssPeer[g]] /\ ssLpc' = "accept" /\ ssHeld' = FALSE
      /\ UNCHANGED <<ssList, ssWho, told, ssFd, ssPc, ssTodo>>
  BY DEF Spurn, CloseSocket, ssServer
<1>2. ssFd \in Open \ Listed /\ ~LeftLocked /\ Listed \subseteq Open
  BY DEF SSInv, CallerOK, LeftLocked, ListOK
<1>3. Open' = Open \ {ssFd} /\ Listed' = Listed /\ \A g \in Open' : ssPeer'[g] = ssPeer[g]
  BY <1>1 DEF Open, Listed
<1>4. \A g \in Listed : ssPeer'[g] = ssPeer[g]
  BY <1>2, <1>3
<1>5. ListOK' /\ ToldOK' /\ TodoOK'
  BY <1>1, <1>2, <1>3, <1>4 DEF SSInv, ListOK, ToldOK, TodoOK
<1>6. NamesOK'
  BY <1>1, <1>2, <1>3, <1>4 DEF SSInv, NamesOK, NamesAreTrue
<1>7. CallerOK'
  BY <1>1, <1>2, <1>3 DEF SSInv, CallerOK
<1>8. KeptOK'
  <2>1. Open \ Listed = {ssFd}
    BY <1>2 DEF SSInv, KeptOK
  <2> QED BY <1>3, <2>1 DEF KeptOK
<1> QED BY <1>5, <1>6, <1>7, <1>8 DEF SSInv

\* The name is entered, over one that was left for the descriptor.
LEMMA Named ==
    ASSUME SSInv, HandShakeNames
    PROVE  SSInv'
<1> DEFINE c == ssPeer[ssFd]
<1>1. /\ ssLpc = "name" /\ (\A f \in DOMAIN ssWho : ssWho[f] # c)
      /\ ssWho' = With(ssWho, ssFd, c) /\ jilted' = jilted \ {ssFd} /\ ssLpc' = "welcome"
      /\ UNCHANGED <<ssList, told, ssPeer, ssFd, ssHeld, ssPc, ssTodo>>
  BY DEF HandShakeNames, IsUniqueName, ssSockets, ssServer
<1>2. ssFd \in Open \ Listed /\ ssHeld /\ Listed' = Listed /\ Open' = Open
  BY <1>1 DEF SSInv, CallerOK, Listed, Open
<1>3. /\ DOMAIN ssWho' = DOMAIN ssWho \cup {ssFd} /\ ssWho'[ssFd] = c
      /\ \A g \in DOMAIN ssWho \ {ssFd} : ssWho'[g] = ssWho[g]
  BY <1>1 DEF With
<1> HIDE DEF c
<1>4. ListOK' /\ ToldOK' /\ TodoOK'
  BY <1>1, <1>2 DEF SSInv, ListOK, ToldOK, TodoOK
<1>5. NamesOK'
  <2>1. \A f \in Listed : f \in DOMAIN ssWho' /\ ssWho'[f] = ssPeer'[f]
    BY <1>1, <1>2, <1>3 DEF SSInv, NamesOK, NamesAreTrue
  <2>2. \A f, g \in DOMAIN ssWho' : ssWho'[f] = ssWho'[g] => f = g
    BY <1>1, <1>3 DEF SSInv, NamesOK, NamesAreTrue
  <2>3. DOMAIN ssWho \ Listed = jilted
    BY <1>1 DEF SSInv, NamesOK, NamesAreTrue
  <2>4. DOMAIN ssWho' \ Listed' = jilted' \cup {ssFd'}
    BY <1>1, <1>2, <1>3, <2>3
  <2>5. \A f \in Open' : ssPeer'[f] \in SSClients
    BY <1>1, <1>2 DEF SSInv, NamesOK
  <2> QED BY <1>1, <1>2, <2>1, <2>2, <2>4, <2>5 DEF NamesOK, NamesAreTrue
<1>6. CallerOK'
  BY <1>1, <1>2, <1>3 DEF SSInv, CallerOK, c
<1>7. KeptOK'
  BY <1>1, <1>2 DEF SSInv, KeptOK, LeftLocked
<1> QED BY <1>4, <1>5, <1>6, <1>7 DEF SSInv

\* The client is welcomed and its socket joins the list.
LEMMA Welcomed ==
    ASSUME SSInv, Welcome
    PROVE  SSInv'
<1> DEFINE c == ssPeer[ssFd]
<1>1. /\ ssLpc = "welcome" /\ ssList' = <<ssFd>> \o ssList /\ told' = [told EXCEPT ![ssWho[ssFd]] = @ + 1]
      /\ ssLpc' = "accept" /\ ssHeld' = FALSE
      /\ UNCHANGED <<ssWho, jilted, ssPeer, ssFd, ssPc, ssTodo>>
  BY DEF Welcome, ssSockets, ssServer
<1>2. /\ ssFd \in Open \ Listed /\ ssHeld /\ ssPc # "serve" /\ ~LeftLocked /\ ssFd \notin jilted
      /\ ssFd \in DOMAIN ssWho /\ ssWho[ssFd] = c /\ ssFd \in Fds /\ c \in SSClients
  BY <1>1 DEF SSInv, CallerOK, LeftLocked, ListOK, NamesOK
<1>3. ssList' \in Seq(Fds) /\ Distinct(ssList') /\ Listed' = Listed \cup {ssFd} /\ Open' = Open
  BY <1>1, <1>2, JoinsTheFront DEF SSInv, ListOK, Listed, Open
<1>4. \A f \in Listed : f \in DOMAIN ssWho /\ ssWho[f] = ssPeer[f] /\ ssPeer[f] # c
  BY <1>2 DEF SSInv, NamesOK, NamesAreTrue
<1> HIDE DEF c
<1>5. ListOK'
  BY <1>2, <1>3 DEF SSInv, ListOK
<1>6. NamesOK'
  <2>1. \A f \in Listed' : f \in DOMAIN ssWho /\ ssWho[f] = ssPeer[f]
    BY <1>2, <1>3, <1>4 DEF c
  <2>2. DOMAIN ssWho \ Listed = jilted \cup {ssFd}
    BY <1>1 DEF SSInv, NamesOK, NamesAreTrue
  <2>3. DOMAIN ssWho' \ Listed' = jilted'
    BY <1>1, <1>2, <1>3, <2>2
  <2> QED BY <1>1, <1>3, <2>1, <2>3 DEF SSInv, NamesOK, NamesAreTrue
<1>7. CallerOK'
  BY <1>1, <1>2, <1>3 DEF SSInv, CallerOK
<1>8. KeptOK'
  <2>1. Open \ Listed = {ssFd}
    BY <1>2 DEF SSInv, KeptOK
  <2> QED BY <1>3, <2>1 DEF KeptOK
<1>9. ToldOK'
  <2>1. told \in [SSClients -> Int] /\ told[c] = 0
    BY <1>2, <1>4 DEF SSInv, ToldOK
  <2>2. told' \in [SSClients -> Int] /\ told'[c] = 1 /\ \A d \in SSClients \ {c} : told'[d] = told[d]
    BY <1>1, <1>2, <2>1
  <2>3. ssFd \in Listed' /\ ssPeer'[ssFd] = c
    BY <1>1, <1>3 DEF c
  <2>4. ASSUME NEW d \in SSClients, d # c
        PROVE  (\E f \in Listed' : ssPeer'[f] = d) <=> (\E f \in Listed : ssPeer[f] = d)
    BY <1>1, <1>3, <2>4 DEF c
  <2>5. ASSUME NEW d \in SSClients PROVE told'[d] = IF \E f \in Listed' : ssPeer'[f] = d THEN 1 ELSE 0
    <3>1. CASE d = c
      BY <2>2, <2>3, <3>1
    <3>2. CASE d # c
      BY <2>2, <2>4, <3>2 DEF SSInv, ToldOK
    <3> QED BY <3>1, <3>2
  <2> QED BY <2>2, <2>5 DEF ToldOK
<1>10. TodoOK'
  BY <1>1, <1>2 DEF SSInv, TodoOK
<1> QED BY <1>5, <1>6, <1>7, <1>8, <1>9, <1>10 DEF SSInv

\* A client that is dropped leaves the list, the table, its socket and the database.
LEMMA Dropped ==
    ASSUME SSInv, NEW f \in Listed, Drop(f), ssHeld => ssPc' # "serve"
    PROVE  ListOK' /\ NamesOK' /\ CallerOK' /\ KeptOK' /\ ToldOK'
<1>1. /\ ssWho' = [g \in DOMAIN ssWho \ {f} |-> ssWho[g]] /\ told' = [told EXCEPT ![ssWho[f]] = @ - 1]
      /\ ssList' = RemoveAt(ssList, Place(f)) /\ ssPeer' = [g \in Open \ {f} |-> ssPeer[g]]
      /\ UNCHANGED <<jilted, ssLpc, ssFd, ssHeld>>
  BY DEF Drop, Forget, CloseSocket, ssListen
<1>2. Open' = Open \ {f} /\ \A g \in Open' : ssPeer'[g] = ssPeer[g]
  BY <1>1 DEF Open
<1>3. DOMAIN ssWho' = DOMAIN ssWho \ {f} /\ \A g \in DOMAIN ssWho' : ssWho'[g] = ssWho[g]
  BY <1>1
<1>4. Place(f) \in 1 .. Len(ssList) /\ ssList[Place(f)] = f
  <2>1. DOMAIN ssList = 1 .. Len(ssList)
    BY DEF SSInv, ListOK
  <2>2. \E i \in DOMAIN ssList : ssList[i] = f
    BY DEF Listed, ToSet
  <2> QED BY <2>1, <2>2 DEF Place
<1>5. ssList' \in Seq(Fds) /\ Distinct(ssList') /\ Listed' = Listed \ {f}
  BY <1>1, <1>4, Erased DEF SSInv, ListOK, Listed
<1>6. ListOK'
  BY <1>2, <1>5 DEF SSInv, ListOK
<1>7. /\ f \in DOMAIN ssWho /\ ssWho[f] = ssPeer[f] /\ f \in Open /\ ssPeer[f] \in SSClients
      /\ \A g \in Listed \ {f} : g \in DOMAIN ssWho /\ ssWho[g] = ssPeer[g] /\ ssPeer[g] # ssPeer[f]
  BY DEF SSInv, ListOK, NamesOK, NamesAreTrue
<1>8. NamesOK'
  <2>1. \A g \in Listed' : g \in DOMAIN ssWho' /\ ssWho'[g] = ssPeer'[g]
    BY <1>2, <1>3, <1>5, <1>7 DEF SSInv, ListOK
  <2>2. \A g, h \in DOMAIN ssWho' : ssWho'[g] = ssWho'[h] => g = h
    BY <1>3 DEF SSInv, NamesOK, NamesAreTrue
  <2>3. DOMAIN ssWho' \ Listed' = DOMAIN ssWho \ Listed
    BY <1>3, <1>5
  <2>4. \A g \in Open' : ssPeer'[g] \in SSClients
    BY <1>2 DEF SSInv, NamesOK
  <2> QED BY <1>1, <2>1, <2>2, <2>3, <2>4 DEF SSInv, NamesOK, NamesAreTrue
<1>9. CallerOK'
  BY <1>1, <1>2, <1>3, <1>5 DEF SSInv, CallerOK
<1>10. KeptOK'
  <2>1. Open' \ Listed' = Open \ Listed
    BY <1>2, <1>5
  <2> QED BY <1>1, <2>1 DEF SSInv, KeptOK, LeftLocked
<1>11. ToldOK'
  <2> DEFINE c == ssPeer[f]
  <2>1. told \in [SSClients -> Int] /\ told[c] = 1 /\ told' = [told EXCEPT ![c] = @ - 1]
    BY <1>1, <1>7 DEF SSInv, ToldOK
  <2>2. told' \in [SSClients -> Int] /\ told'[c] = 0 /\ \A d \in SSClients \ {c} : told'[d] = told[d]
    BY <1>7, <2>1
  <2>3. \A g \in Listed' : g \in Listed /\ g # f /\ ssPeer'[g] = ssPeer[g]
    BY <1>2, <1>5 DEF SSInv, ListOK
  <2>4. ASSUME NEW d \in SSClients PROVE told'[d] = IF \E g \in Listed' : ssPeer'[g] = d THEN 1 ELSE 0
    <3>1. CASE d = c
      BY <1>7, <2>2, <2>3, <3>1
    <3>2. CASE d # c
      <4>1. (\E g \in Listed' : ssPeer'[g] = d) <=> (\E g \in Listed : ssPeer[g] = d)
        BY <1>5, <2>3, <3>2
      <4> QED BY <2>2, <3>2, <4>1 DEF SSInv, ToldOK
    <3> QED BY <3>1, <3>2
  <2> QED BY <2>2, <2>4 DEF ToldOK
<1> QED BY <1>6, <1>8, <1>9, <1>10, <1>11

LEMMA ServerStep ==
    ASSUME SSInv, ServerLoop
    PROVE  SSInv'
<1>1. TodoOK /\ ssList \in Seq(Fds)
  BY DEF SSInv, ListOK
<1>2. CASE SetUpSelect
  <2>1. /\ ssList # <<>> /\ ssList' = Rotated(ssList) /\ ssPc' = "select"
        /\ UNCHANGED <<ssWho, told, jilted, ssPeer, ssLpc, ssFd, ssHeld, ssTodo>>
    BY <1>2 DEF SetUpSelect, ssSockets, ssListen
  <2>2. ssList' \in Seq(Fds) /\ Distinct(ssList') /\ Listed' = Listed /\ Open' = Open
    BY <2>1, Turned DEF SSInv, ListOK, Listed, Open
  <2>3. ListOK' /\ ToldOK' /\ TodoOK' /\ CallerOK'
    BY <2>1, <2>2 DEF SSInv, ListOK, ToldOK, TodoOK, CallerOK
  <2>4. NamesOK' /\ KeptOK'
    BY <2>1, <2>2 DEF SSInv, NamesOK, NamesAreTrue, KeptOK, LeftLocked
  <2> QED BY <2>3, <2>4 DEF SSInv
<1>3. CASE SelectReturns \/ EndServe
  <2>1. UNCHANGED <<ssTables, ssPeer, ssListen, ssTodo>> /\ ssPc' # "serve"
    BY <1>3 DEF SelectReturns, EndServe, ssSockets
  <2> QED BY <1>1, <2>1, TablesLeftAlone DEF SSInv, TodoOK
<1>4. CASE BeginServe
  <2>1. UNCHANGED <<ssTables, ssPeer, ssListen>> /\ ssTodo' = ssList /\ ~ssHeld
    BY <1>4 DEF BeginServe, ssSockets
  <2>2. Listed' = Listed /\ ListOK' /\ NamesOK' /\ KeptOK' /\ ToldOK' /\ CallerOK'
    BY <2>1, TablesLeftAlone
  <2> QED BY <1>1, <2>1, <2>2 DEF SSInv, TodoOK, Listed
<1>5. CASE Skip \/ ProcessClient
  <2>1. /\ ssPc = "serve" /\ ssTodo # <<>> /\ ssTodo' = Tail(ssTodo) /\ ssPc' = ssPc
        /\ UNCHANGED <<ssTables, ssPeer, ssListen>>
    BY <1>5 DEF Skip, ProcessClient, ssSockets
  <2>2. ssTodo' \in Seq(Fds) /\ ToSet(ssTodo') \subseteq ToSet(ssTodo)
    BY <1>1, <2>1, RestOf DEF TodoOK
  <2>3. ssHeld => ssPc' # "serve"
    BY <2>1 DEF SSInv, CallerOK
  <2>4. Listed' = Listed /\ ListOK' /\ NamesOK' /\ KeptOK' /\ ToldOK' /\ CallerOK'
    BY <2>1, <2>3, TablesLeftAlone
  <2>5. TodoOK'
    BY <1>1, <2>1, <2>2, <2>4 DEF TodoOK
  <2> QED BY <2>4, <2>5 DEF SSInv
<1>6. CASE OnClientDisconnect
  <2>1. /\ ssPc = "serve" /\ ssTodo # <<>> /\ Drop(Head(ssTodo)) /\ ssPc' = "top" /\ ssTodo' = <<>>
    BY <1>6 DEF OnClientDisconnect
  <2>2. Head(ssTodo) \in Listed
    BY <1>1, <2>1, RestOf DEF TodoOK
  <2>3. TodoOK'
    BY <2>1 DEF TodoOK
  <2> QED BY <2>1, <2>2, <2>3, Dropped DEF SSInv
<1> QED BY <1>2, <1>3, <1>4, <1>5, <1>6 DEF ServerLoop

LEMMA SSStep ==
    ASSUME SSInv, [SSNext]_ssVars
    PROVE  SSInv'
<1>1. CASE HandShakeFails \/ HandShakePoisons \/ WelcomeFails
  <2>1. Spurn /\ ssLpc \in {"protocol", "name", "welcome"}
    BY <1>1 DEF HandShakeFails, HandShakePoisons, WelcomeFails
  <2>2. jilted' = IF ssLpc = "welcome" THEN jilted \cup {ssFd} ELSE jilted
    BY <1>1 DEF HandShakeFails, HandShakePoisons, WelcomeFails
  <2> QED BY <2>1, <2>2, Spurned
<1>2. ASSUME NEW f \in Fds, ClientSends(f) \/ ClientCloses(f) \/ GrowsSilent(f) PROVE SSInv'
  <2>1. UNCHANGED <<ssTables, ssPeer, ssListen, ssTodo, ssPc>>
    BY <1>2 DEF ClientSends, ClientCloses, GrowsSilent, ssServer
  <2>2. ssHeld => ssPc' # "serve"
    BY <2>1 DEF SSInv, CallerOK
  <2>3. Listed' = Listed /\ ListOK' /\ NamesOK' /\ KeptOK' /\ ToldOK' /\ CallerOK'
    BY <2>1, <2>2, TablesLeftAlone
  <2> QED BY <2>1, <2>3 DEF SSInv, TodoOK
<1>3. ASSUME NEW f \in Fds, OnAbsentClient(f) PROVE SSInv'
  <2>1. f \in Listed /\ Drop(f) /\ ssPc # "serve" /\ UNCHANGED <<ssPc, ssTodo>>
    BY <1>3 DEF OnAbsentClient, ListFree, ssServer
  <2>2. TodoOK'
    BY <2>1 DEF SSInv, TodoOK
  <2> QED BY <2>1, <2>2, Dropped DEF SSInv
<1>4. CASE UNCHANGED ssVars
  <2>1. UNCHANGED <<ssTables, ssPeer, ssListen, ssTodo, ssPc>>
    BY <1>4 DEF ssVars, ssSockets, ssServer
  <2>2. ssHeld => ssPc' # "serve"
    BY <2>1 DEF SSInv, CallerOK
  <2>3. Listed' = Listed /\ ListOK' /\ NamesOK' /\ KeptOK' /\ ToldOK' /\ CallerOK'
    BY <2>1, <2>2, TablesLeftAlone
  <2> QED BY <2>1, <2>3 DEF SSInv, TodoOK
<1> QED BY <1>1, <1>2, <1>3, <1>4, Called, HandShaken, Named, Welcomed, ServerStep DEF SSNext, Greeting

\* For any number of clients and descriptors, dropped by either thread while the other is in
\* select, and for hand shakes that fail or throw at any step: the list and the table of names
\* agree, a name without a socket is of a welcome that failed, no name is held twice, no socket is
\* lost but by an exception, and the database has been told of exactly the clients with a socket.
THEOREM SingleServerTables == SSSpec => []ServerTablesAgree
<1>1. SSInv /\ [SSNext]_ssVars => SSInv'
  BY SSStep
<1>2. SSInv => ServerTablesAgree
  <2> SUFFICES ASSUME SSInv PROVE ServerTablesAgree
    OBVIOUS
  <2>1. IsInjective(ssList)
    <3>1. DOMAIN ssList = 1 .. Len(ssList) /\ Distinct(ssList)
      BY DEF SSInv, ListOK
    <3> QED BY <3>1 DEF IsInjective, Distinct
  <2>2. SocketsAreKept
    BY <2>1 DEF SSInv, ListOK, KeptOK, SocketsAreKept
  <2>3. NamesAreTrue
    BY DEF SSInv, NamesOK
  <2> QED BY <2>2, <2>3 DEF SSInv, ToldOK, ServerTablesAgree
<1> QED BY SSStart, <1>1, <1>2, PTL DEF SSSpec
=============================================================================
