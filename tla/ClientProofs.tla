---------------------------- MODULE ClientProofs ----------------------------
(***************************************************************************)
(* Proofs about what the clients make of their mail.                       *)
(*                                                                         *)
(* The active queues, for any number of queues, names, messages and calls: *)
(* what a queue has finished with, works on and holds comes before what it *)
(* holds next and before what waits in the inbox; a route leads to a queue *)
(* because a removal holds ActiveQueuesLock_ from the first route it takes *)
(* away to the end of the queue's thread.                                  *)
(*                                                                         *)
(* The synchronous client, for every limit of its boxes and any number of  *)
(* posts, requests, subscriptions and connections: m_WorkLock leaves at    *)
(* most one packet between the outbox of the client and its inbox,         *)
(* whichever of the two threads carries it.                                *)
(***************************************************************************)
EXTENDS ActiveQueues, SyncClient, FiniteSetTheorems, WellFoundedInduction, TLAPS

Users == {Idle, <<"closing">>, <<"stopping">>} \cup {<<"removing", q>> : q \in QNames}
         \cup {<<"crashed", k>> : k \in Keys}
         \cup {<<"pattern", q, p>> : q \in QNames, p \in SUBSET Keys}
         \cup {<<"route", q, k>> : q \in QNames, k \in Keys}

AQTypes ==
    /\ aqMap \subseteq QNames
    /\ aqThread \in [QNames -> {"none", "waiting", "callback", "ended"}]
    /\ aqItems \in [QNames -> Seq(Nat)] /\ aqNow \in [QNames -> Nat] /\ handled \in [QNames -> Seq(Nat)]
    /\ DOMAIN routes \subseteq Keys /\ DOMAIN patterns \subseteq QNames /\ checked \subseteq Keys
    /\ inbox \in Seq(Nat) /\ fetched \in Seq(Nat) /\ keyOf \in Seq(Keys)
    /\ user \in Users /\ gone \subseteq Nat

\* A queue has a thread as long as it exists, and its thread has a message while it calls back.
ThreadsFollow ==
    \A q \in QNames :
        /\ q \notin aqMap <=> aqThread[q] = "none"
        /\ q \notin aqMap => aqItems[q] = <<>>
        /\ aqNow[q] # NoMessage <=> aqThread[q] = "callback"

\* Routes lead to queues, also to the one the user thread is adding; not to the one it is removing.
\* Patterns lead to queues or to those that Close deleted.
RoutesFollow ==
    /\ user[1] \in {"pattern", "route"} => user[2] \in aqMap
    /\ orphans \subseteq DOMAIN patterns /\ DOMAIN patterns \subseteq aqMap \cup orphans
    /\ orphans \cap aqMap = {}
    /\ user[1] # "closing" => \A k \in DOMAIN routes : routes[k] \subseteq aqMap
    /\ user[1] = "removing" => \A k \in DOMAIN routes : user[2] \notin routes[k]
    /\ user[1] = "crashed" => \E q \in orphans : user[2] \in patterns[q]

\* A name that has been compared with a pattern is routed to its queue.
PatternsFollow ==
    \A q \in DOMAIN patterns : user # <<"removing", q>> =>
        \A k \in (checked \cap patterns[q]) \ unrouted : k \in DOMAIN routes /\ q \in routes[k]

\* a may come before b in the work of a queue, with messages of the names key.
InTurn(key, a, b) == a # 0 /\ b # 0 => a # b /\ (key[a] = key[b] => a < b)
AllInTurn(key, A, B) == \A a \in A, b \in B : InTurn(key, a, b)
SeqInTurn(key, s) == \A i, j \in 1 .. Len(s) : i < j => InTurn(key, s[i], s[j])
Increasing(s) == \A i, j \in 1 .. Len(s) : i < j => s[i] < s[j]

\* A queue has finished with done, works on now and holds items, while box is the inbox.
QueueInTurn(key, done, now, items, box) ==
    /\ SeqInTurn(key, done) /\ SeqInTurn(key, items)
    /\ AllInTurn(key, ToSet(done), {now} \cup ToSet(items) \cup ToSet(box))
    /\ AllInTurn(key, {now}, ToSet(items) \cup ToSet(box))
    /\ AllInTurn(key, ToSet(items), ToSet(box))

WorkInTurn ==
    /\ Increasing(inbox) /\ 0 \notin ToSet(inbox)
    /\ \A q \in QNames : QueueInTurn(keyOf, handled[q], aqNow[q], aqItems[q], inbox)

\* A callback is never called for the message that ends its thread.
OnlyMailIsHandled == \A q \in QNames : 0 \notin ToSet(handled[q])

\* The messages that have arrived are with the user, with the queues or in the inbox.
InBox(m) == m \in ToSet(inbox)
WithUser(m) == m \in ToSet(fetched)
InQueue(m) == \/ m \in gone
              \/ \E q \in QNames : m \in ToSet(handled[q]) \/ m \in ToSet(aqItems[q]) \/ m = aqNow[q]
EachInOnePlace ==
    \A m \in Nat \ {0} :
        /\ m \in 1 .. Len(keyOf) <=> InBox(m) \/ WithUser(m) \/ InQueue(m)
        /\ ~(InBox(m) /\ WithUser(m)) /\ ~(InBox(m) /\ InQueue(m)) /\ ~(WithUser(m) /\ InQueue(m))

\* The inductive invariant.
AQControl == AQTypes /\ ThreadsFollow /\ RoutesFollow /\ PatternsFollow
AQInv == AQControl /\ WorkInTurn /\ OnlyMailIsHandled /\ EachInOnePlace

-----------------------------------------------------------------------------
(* Sequences                                                               *)

LEMMA ToSetFacts ==
    ASSUME NEW s \in Seq(Nat)
    PROVE  /\ ToSet(s) \subseteq Nat
           /\ ToSet(<<>>) = {}
           /\ \A e \in Nat : ToSet(Append(s, e)) = ToSet(s) \cup {e}
           /\ \A t \in Seq(Nat) : ToSet(s \o t) = ToSet(s) \cup ToSet(t)
           /\ s # <<>> => Head(s) \in Nat /\ Tail(s) \in Seq(Nat) /\ ToSet(s) = {Head(s)} \cup ToSet(Tail(s))
<1>1. ToSet(s) \subseteq Nat /\ ToSet(<<>>) = {}
  BY DEF ToSet
<1>2. ASSUME NEW e \in Nat PROVE ToSet(Append(s, e)) = ToSet(s) \cup {e}
  <2>1. /\ DOMAIN Append(s, e) = 1 .. Len(s) + 1 /\ DOMAIN s = 1 .. Len(s) /\ Len(s) \in Nat
        /\ \A i \in 1 .. Len(s) : Append(s, e)[i] = s[i]
        /\ Append(s, e)[Len(s) + 1] = e
    OBVIOUS
  <2> QED BY <2>1 DEF ToSet
<1>3. ASSUME NEW t \in Seq(Nat) PROVE ToSet(s \o t) = ToSet(s) \cup ToSet(t)
  <2>1. /\ DOMAIN (s \o t) = 1 .. Len(s) + Len(t) /\ DOMAIN s = 1 .. Len(s) /\ DOMAIN t = 1 .. Len(t)
        /\ Len(s) \in Nat /\ Len(t) \in Nat
        /\ \A i \in 1 .. Len(s) : (s \o t)[i] = s[i]
        /\ \A i \in 1 .. Len(t) : (s \o t)[Len(s) + i] = t[i]
    OBVIOUS
  <2>2. ASSUME NEW i \in 1 .. Len(s) + Len(t) PROVE (s \o t)[i] \in ToSet(s) \cup ToSet(t)
    <3>1. CASE i \in 1 .. Len(s)
      BY <2>1, <3>1 DEF ToSet
    <3>2. CASE i \notin 1 .. Len(s)
      <4>1. i - Len(s) \in 1 .. Len(t) /\ i = Len(s) + (i - Len(s))
        BY <2>1, <3>2
      <4> QED BY <2>1, <4>1 DEF ToSet
    <3> QED BY <3>1, <3>2
  <2>3. \A i \in 1 .. Len(s) : i \in 1 .. Len(s) + Len(t)
    BY <2>1
  <2>4. \A i \in 1 .. Len(t) : Len(s) + i \in 1 .. Len(s) + Len(t)
    BY <2>1
  <2>5. ToSet(s \o t) \subseteq ToSet(s) \cup ToSet(t)
    BY <2>1, <2>2 DEF ToSet
  <2>6. \A i \in 1 .. Len(s) + Len(t) : (s \o t)[i] \in ToSet(s \o t)
    BY <2>1 DEF ToSet
  <2>7. ToSet(s) \subseteq ToSet(s \o t)
    <3>1. \A e \in ToSet(s) : \E i \in 1 .. Len(s) : e = (s \o t)[i]
      BY <2>1 DEF ToSet
    <3> QED BY <2>3, <2>6, <3>1
  <2>8. ToSet(t) \subseteq ToSet(s \o t)
    <3>1. \A e \in ToSet(t) : \E i \in 1 .. Len(t) : e = (s \o t)[Len(s) + i]
      BY <2>1 DEF ToSet
    <3> QED BY <2>4, <2>6, <3>1
  <2> QED BY <2>5, <2>7, <2>8
<1>4. ASSUME s # <<>>
      PROVE  Head(s) \in Nat /\ Tail(s) \in Seq(Nat) /\ ToSet(s) = {Head(s)} \cup ToSet(Tail(s))
  <2>1. /\ Head(s) = s[1] /\ s[1] \in Nat /\ Tail(s) \in Seq(Nat) /\ Len(s) \in Nat /\ Len(s) >= 1
        /\ DOMAIN s = 1 .. Len(s) /\ DOMAIN Tail(s) = 1 .. Len(s) - 1
        /\ \A i \in 1 .. Len(s) - 1 : Tail(s)[i] = s[i + 1]
    BY <1>4
  <2>2. ASSUME NEW i \in 1 .. Len(s) PROVE s[i] \in {Head(s)} \cup ToSet(Tail(s))
    <3>1. i = 1 \/ (i - 1 \in 1 .. Len(s) - 1 /\ (i - 1) + 1 = i)
      BY <2>1
    <3> QED BY <2>1, <3>1 DEF ToSet
  <2>3. \A i \in 1 .. Len(s) - 1 : i + 1 \in 1 .. Len(s)
    BY <2>1
  <2>4. 1 \in 1 .. Len(s)
    BY <2>1
  <2>5. ToSet(s) \subseteq {Head(s)} \cup ToSet(Tail(s))
    BY <2>1, <2>2 DEF ToSet
  <2>6. \A i \in 1 .. Len(s) : s[i] \in ToSet(s)
    BY <2>1 DEF ToSet
  <2>7. ToSet(Tail(s)) \subseteq ToSet(s) /\ Head(s) \in ToSet(s)
    <3>1. \A e \in ToSet(Tail(s)) : \E i \in 1 .. Len(s) - 1 : e = s[i + 1]
      BY <2>1 DEF ToSet
    <3> QED BY <2>1, <2>3, <2>4, <2>6, <3>1
  <2> QED BY <2>1, <2>5, <2>7
<1> QED BY <1>1, <1>2, <1>3, <1>4

\* What is joined is in order when the parts are and the first comes before the second.
LEMMA TurnsJoin ==
    ASSUME NEW key, NEW s \in Seq(Nat), NEW t \in Seq(Nat)
    PROVE  SeqInTurn(key, s) /\ SeqInTurn(key, t) /\ AllInTurn(key, ToSet(s), ToSet(t)) => SeqInTurn(key, s \o t)
<1> SUFFICES ASSUME SeqInTurn(key, s), SeqInTurn(key, t), AllInTurn(key, ToSet(s), ToSet(t)),
                    NEW i \in 1 .. Len(s \o t), NEW j \in 1 .. Len(s \o t), i < j
             PROVE  InTurn(key, (s \o t)[i], (s \o t)[j])
  BY DEF SeqInTurn
<1>1. /\ Len(s \o t) = Len(s) + Len(t) /\ Len(s) \in Nat /\ Len(t) \in Nat
      /\ DOMAIN s = 1 .. Len(s) /\ DOMAIN t = 1 .. Len(t)
      /\ \A n \in 1 .. Len(s) : (s \o t)[n] = s[n]
      /\ \A n \in Len(s) + 1 .. Len(s) + Len(t) : (s \o t)[n] = t[n - Len(s)] /\ n - Len(s) \in 1 .. Len(t)
  OBVIOUS
<1>2. CASE j \in 1 .. Len(s)
  <2>1. i \in 1 .. Len(s)
    BY <1>1, <1>2
  <2> QED BY <1>1, <1>2, <2>1 DEF SeqInTurn
<1>3. CASE i \in 1 .. Len(s) /\ j \in Len(s) + 1 .. Len(s) + Len(t)
  <2>1. s[i] \in ToSet(s) /\ t[j - Len(s)] \in ToSet(t)
    BY <1>1, <1>3 DEF ToSet
  <2> QED BY <1>1, <1>3, <2>1 DEF AllInTurn
<1>4. CASE i \in Len(s) + 1 .. Len(s) + Len(t) /\ j \in Len(s) + 1 .. Len(s) + Len(t)
  <2>1. i - Len(s) < j - Len(s)
    BY <1>1
  <2> QED BY <1>1, <1>4, <2>1 DEF SeqInTurn
<1> QED BY <1>1, <1>2, <1>3, <1>4

LEMMA OneInTurn ==
    ASSUME NEW key, NEW e \in Nat
    PROVE  SeqInTurn(key, <<e>>) /\ ToSet(<<e>>) = {e} /\ SeqInTurn(key, <<>>)
BY DEF SeqInTurn, ToSet

LEMMA TailInTurn ==
    ASSUME NEW key, NEW s \in Seq(Nat), s # <<>>, SeqInTurn(key, s)
    PROVE  SeqInTurn(key, Tail(s)) /\ AllInTurn(key, {Head(s)}, ToSet(Tail(s)))
<1>1. /\ Head(s) = s[1] /\ Len(s) \in Nat /\ Len(s) >= 1 /\ Len(Tail(s)) = Len(s) - 1
      /\ DOMAIN Tail(s) = 1 .. Len(s) - 1
      /\ \A i \in 1 .. Len(s) - 1 : Tail(s)[i] = s[i + 1] /\ i + 1 \in 1 .. Len(s) /\ 1 < i + 1
  OBVIOUS
<1>2. 1 \in 1 .. Len(s)
  BY <1>1
<1>3. AllInTurn(key, {Head(s)}, ToSet(Tail(s)))
  BY <1>1, <1>2 DEF AllInTurn, SeqInTurn, ToSet
<1>4. ASSUME NEW i \in 1 .. Len(s) - 1, NEW j \in 1 .. Len(s) - 1, i < j
      PROVE  InTurn(key, Tail(s)[i], Tail(s)[j])
  <2>1. i + 1 < j + 1
    BY <1>4
  <2> QED BY <1>1, <2>1 DEF SeqInTurn
<1> QED BY <1>1, <1>3, <1>4 DEF SeqInTurn

\* A set of numbers with 0 and the successors of its members has them all.
LEMMA AllNumbers ==
    ASSUME NEW S, 0 \in S, \A n \in Nat : n \in S => n + 1 \in S
    PROVE  Nat \subseteq S
<1> DEFINE T == Nat \ S
<1> SUFFICES ASSUME T # {} PROVE FALSE
  OBVIOUS
<1>1. IsWellFoundedOn(OpToRel(<, Nat), Nat)
  BY NatLessThanWellFounded
<1>2. \E x \in T : \A y \in T : ~ (<<y, x>> \in OpToRel(<, Nat))
  <2> HIDE DEF T
  <2>1. T \subseteq Nat
    BY DEF T
  <2> QED BY <1>1, <2>1, WFMin
<1>3. PICK x \in T : \A y \in T : ~ (<<y, x>> \in OpToRel(<, Nat))
  BY <1>2
<1>4. \A y \in T : ~ (y < x)
  BY <1>3 DEF OpToRel
<1>5. x # 0 /\ x - 1 \in Nat
  OBVIOUS
<1>6. x - 1 \in S
  BY <1>4, <1>5
<1> QED BY <1>5, <1>6

\* The function Sifted computes with, as far as n.
SiftedUpTo(s, K, n, g) ==
    g = [i \in 0..n |-> IF i = 0 THEN <<>>
                        ELSE IF s[i] \in K THEN Append(g[i - 1], s[i]) ELSE g[i - 1]]

LEMMA SiftedExists ==
    ASSUME NEW s, NEW K, NEW n \in Nat
    PROVE  \E g : SiftedUpTo(s, K, n, g)
<1> DEFINE S == {j \in Nat : \E g : SiftedUpTo(s, K, j, g)}
<1>1. 0 \in S
  <2>1. SiftedUpTo(s, K, 0, [i \in 0..0 |-> <<>>])
    BY DEF SiftedUpTo
  <2> QED BY <2>1
<1>2. ASSUME NEW j \in Nat, j \in S PROVE j + 1 \in S
  <2>1. PICK g : SiftedUpTo(s, K, j, g)
    BY <1>2
  <2> DEFINE h == [i \in 0..(j + 1) |->
                     IF i = j + 1 THEN (IF s[i] \in K THEN Append(g[j], s[i]) ELSE g[j]) ELSE g[i]]
  <2>2. \A i \in 0..j : g[i] = IF i = 0 THEN <<>>
                               ELSE IF s[i] \in K THEN Append(g[i - 1], s[i]) ELSE g[i - 1]
    BY <2>1 DEF SiftedUpTo
  <2>3. ASSUME NEW i \in 0..(j + 1)
        PROVE  h[i] = IF i = 0 THEN <<>>
                      ELSE IF s[i] \in K THEN Append(h[i - 1], s[i]) ELSE h[i - 1]
    <3>1. \A m \in 0..j : h[m] = g[m]
      OBVIOUS
    <3>2. h[j + 1] = IF s[j + 1] \in K THEN Append(g[j], s[j + 1]) ELSE g[j]
      OBVIOUS
    <3> HIDE DEF h
    <3>3. CASE i \in 0..j
      <4>1. i # 0 => i - 1 \in 0..j
        BY <3>3
      <4> QED BY <2>2, <3>1, <3>3, <4>1
    <3>4. CASE i = j + 1
      BY <3>1, <3>2, <3>4
    <3> QED BY <3>3, <3>4
  <2>4. h = [i \in 0..(j + 1) |-> h[i]]
    OBVIOUS
  <2>5. SiftedUpTo(s, K, j + 1, h)
    <3> HIDE DEF h
    <3> QED BY <2>3, <2>4 DEF SiftedUpTo
  <2> QED BY <2>5
<1> HIDE DEF S
<1>3. Nat \subseteq S
  BY <1>1, <1>2, AllNumbers
<1> QED BY <1>3 DEF S

\* An increasing sequence with a greater number behind it.
LEMMA IncreasingAppend ==
    ASSUME NEW s \in Seq(Nat), NEW e \in Nat, Increasing(s), \A a \in ToSet(s) : a < e
    PROVE  Increasing(Append(s, e))
<1>1. /\ Len(Append(s, e)) = Len(s) + 1 /\ Len(s) \in Nat /\ DOMAIN s = 1 .. Len(s)
      /\ \A i \in 1 .. Len(s) : Append(s, e)[i] = s[i]
      /\ Append(s, e)[Len(s) + 1] = e
  OBVIOUS
<1> SUFFICES ASSUME NEW i \in 1 .. Len(s) + 1, NEW j \in 1 .. Len(s) + 1, i < j
             PROVE  Append(s, e)[i] < Append(s, e)[j]
  BY <1>1 DEF Increasing
<1>2. i \in 1 .. Len(s)
  BY <1>1
<1>3. CASE j \in 1 .. Len(s)
  BY <1>1, <1>2, <1>3 DEF Increasing
<1>4. CASE j = Len(s) + 1
  BY <1>1, <1>2, <1>4 DEF ToSet
<1> QED BY <1>1, <1>3, <1>4

\* Sifting keeps the members asked for, all of them, in their order.
LEMMA SiftedFacts ==
    ASSUME NEW s \in Seq(Nat), NEW K, Increasing(s)
    PROVE  /\ Sifted(s, K) \in Seq(Nat)
           /\ ToSet(Sifted(s, K)) = ToSet(s) \cap K
           /\ Increasing(Sifted(s, K))
<1> DEFINE g == CHOOSE g : SiftedUpTo(s, K, Len(s), g)
<1>0. Len(s) \in Nat /\ DOMAIN s = 1..Len(s) /\ \A i \in DOMAIN s : s[i] \in Nat
  OBVIOUS
<1>1. SiftedUpTo(s, K, Len(s), g)
  <2>1. \E h : SiftedUpTo(s, K, Len(s), h)
    BY <1>0, SiftedExists
  <2> QED BY <2>1, Zenon
<1>2. Sifted(s, K) = g[Len(s)]
  BY DEF Sifted, SiftedUpTo
<1> HIDE DEF g
<1>3. /\ g[0] = <<>>
      /\ \A i \in 1..Len(s) : g[i] = IF s[i] \in K THEN Append(g[i - 1], s[i]) ELSE g[i - 1]
  <2>1. \A i \in 0..Len(s) : g[i] = IF i = 0 THEN <<>>
                             ELSE IF s[i] \in K THEN Append(g[i - 1], s[i]) ELSE g[i - 1]
    BY <1>1 DEF SiftedUpTo
  <2> QED BY <1>0, <2>1
<1> DEFINE Good(n) == /\ g[n] \in Seq(Nat)
                      /\ ToSet(g[n]) = {s[i] : i \in 1..n} \cap K
                      /\ Increasing(g[n])
           S == {n \in Nat : n <= Len(s) => Good(n)}
<1>4. 0 \in S
  <2>1. ToSet(<<>>) = {} /\ Increasing(<<>>)
    BY DEF ToSet, Increasing
  <2>2. {s[i] : i \in 1..0} = {}
    OBVIOUS
  <2>3. Good(0)
    BY <1>3, <2>1, <2>2
  <2> QED BY <2>3
<1>5. ASSUME NEW n \in Nat, n \in S PROVE n + 1 \in S
  <2> SUFFICES ASSUME n + 1 <= Len(s) PROVE Good(n + 1)
    OBVIOUS
  <2>1. Good(n) /\ n + 1 \in DOMAIN s
    BY <1>0, <1>5
  <2>2. g[n + 1] = IF s[n + 1] \in K THEN Append(g[n], s[n + 1]) ELSE g[n]
    <3>1. n + 1 \in 1..Len(s) /\ (n + 1) - 1 = n
      BY <1>0
    <3> QED BY <1>3, <3>1
  <2>3. {s[i] : i \in 1..(n + 1)} = {s[i] : i \in 1..n} \cup {s[n + 1]}
    OBVIOUS
  <2>4. CASE s[n + 1] \notin K
    BY <2>1, <2>2, <2>3, <2>4
  <2>5. CASE s[n + 1] \in K
    <3>1. \A e \in ToSet(g[n]) : e < s[n + 1]
      <4>1. ASSUME NEW i \in 1..n PROVE s[i] < s[n + 1]
        BY <1>0, <2>1 DEF Increasing
      <4> QED BY <2>1, <4>1
    <3>2. s[n + 1] \in Nat /\ g[n] \in Seq(Nat) /\ Increasing(g[n]) /\ g[n + 1] = Append(g[n], s[n + 1])
      BY <1>0, <2>1, <2>2, <2>5
    <3>3. Increasing(g[n + 1]) /\ g[n + 1] \in Seq(Nat)
      BY <3>1, <3>2, IncreasingAppend
    <3>4. ToSet(g[n + 1]) = ToSet(g[n]) \cup {s[n + 1]}
      BY <3>2, ToSetFacts
    <3>5. ToSet(g[n + 1]) = {s[i] : i \in 1..(n + 1)} \cap K
      BY <2>1, <2>3, <2>5, <3>4
    <3> QED BY <3>3, <3>5
  <2> QED BY <2>4, <2>5
<1>6. Good(Len(s))
  <2> HIDE DEF Good
  <2>1. Nat \subseteq S
    <3> HIDE DEF S
    <3> QED BY <1>4, <1>5, AllNumbers
  <2> QED BY <1>0, <2>1
<1>7. ToSet(s) = {s[i] : i \in 1..Len(s)}
  BY <1>0 DEF ToSet
<1> QED BY <1>2, <1>6, <1>7

-----------------------------------------------------------------------------
(* The work of one queue                                                   *)

LEMMA QueueSteps ==
    ASSUME NEW key, NEW done \in Seq(Nat), NEW now \in Nat, NEW items \in Seq(Nat), NEW box \in Seq(Nat),
           QueueInTurn(key, done, now, items, box)
    PROVE  /\ QueueInTurn(key, done, now, items, <<>>)
           /\ QueueInTurn(key, done, now, <<>>, box)
           /\ QueueInTurn(key, done, now, Append(items, 0), box)
           /\ items # <<>> => QueueInTurn(key, done, now, Tail(items), box)
           /\ items # <<>> => QueueInTurn(key, done, Head(items), Tail(items), box)
           /\ QueueInTurn(key, Append(done, now), 0, items, box)
<1> USE DEF QueueInTurn
<1>0. \A a : InTurn(key, a, 0) /\ InTurn(key, 0, a)
  BY DEF InTurn
<1>1. ToSet(<<>>) = {} /\ SeqInTurn(key, <<>>)
  BY DEF ToSet, SeqInTurn
<1>2. QueueInTurn(key, done, now, items, <<>>) /\ QueueInTurn(key, done, now, <<>>, box)
  BY <1>1 DEF AllInTurn
<1>3. QueueInTurn(key, done, now, Append(items, 0), box)
  <2>1. ToSet(Append(items, 0)) = ToSet(items) \cup {0}
    BY ToSetFacts
  <2>2. SeqInTurn(key, Append(items, 0))
    <3>1. Append(items, 0) = items \o <<0>> /\ <<0>> \in Seq(Nat)
      <4>1. \A e \in Nat : Append(items, e) = items \o <<e>> /\ <<e>> \in Seq(Nat)
        OBVIOUS
      <4> QED BY <4>1
    <3>2. AllInTurn(key, ToSet(items), ToSet(<<0>>)) /\ SeqInTurn(key, <<0>>)
      BY <1>0, OneInTurn DEF AllInTurn
    <3> QED BY <3>1, <3>2, TurnsJoin
  <2> QED BY <1>0, <2>1, <2>2 DEF AllInTurn
<1>4. ASSUME items # <<>>
      PROVE  /\ QueueInTurn(key, done, now, Tail(items), box)
             /\ QueueInTurn(key, done, Head(items), Tail(items), box)
  <2>1. ToSet(items) = {Head(items)} \cup ToSet(Tail(items))
    BY <1>4, ToSetFacts
  <2>2. SeqInTurn(key, Tail(items)) /\ AllInTurn(key, {Head(items)}, ToSet(Tail(items)))
    BY <1>4, TailInTurn
  <2> QED BY <2>1, <2>2 DEF AllInTurn
<1>5. QueueInTurn(key, Append(done, now), 0, items, box)
  <2>1. ToSet(Append(done, now)) = ToSet(done) \cup {now}
    BY ToSetFacts
  <2>2. SeqInTurn(key, Append(done, now))
    <3>1. Append(done, now) = done \o <<now>> /\ <<now>> \in Seq(Nat)
      OBVIOUS
    <3>2. AllInTurn(key, ToSet(done), ToSet(<<now>>)) /\ SeqInTurn(key, <<now>>)
      BY OneInTurn DEF AllInTurn
    <3> QED BY <3>1, <3>2, TurnsJoin
  <2> QED BY <1>0, <2>1, <2>2 DEF AllInTurn
<1> QED BY <1>2, <1>3, <1>4, <1>5

\* Mail is pushed to a queue: what goes to it comes in turn before what stays in the inbox.
LEMMA QueuePush ==
    ASSUME NEW key, NEW done \in Seq(Nat), NEW now \in Nat, NEW items \in Seq(Nat), NEW box \in Seq(Nat),
           NEW more \in Seq(Nat), NEW rest \in Seq(Nat),
           QueueInTurn(key, done, now, items, box),
           Increasing(more), ToSet(more) \subseteq ToSet(box), ToSet(rest) \subseteq ToSet(box),
           AllInTurn(key, ToSet(more), ToSet(rest))
    PROVE  QueueInTurn(key, done, now, items \o more, rest)
<1> USE DEF QueueInTurn
<1>1. ToSet(items \o more) = ToSet(items) \cup ToSet(more)
  BY ToSetFacts
<1>2. SeqInTurn(key, more)
  <2>1. \A i \in 1 .. Len(more) : more[i] \in Nat
    OBVIOUS
  <2> QED BY <2>1 DEF SeqInTurn, InTurn, Increasing
<1>3. SeqInTurn(key, items \o more)
  BY <1>2, TurnsJoin DEF AllInTurn
<1> QED BY <1>1, <1>3 DEF AllInTurn

\* A new message comes in turn behind all others.
LEMMA QueueArrival ==
    ASSUME NEW N, NEW key \in Seq(N), NEW k \in N, NEW done \in Seq(Nat), NEW now \in Nat,
           NEW items \in Seq(Nat), NEW box \in Seq(Nat),
           QueueInTurn(key, done, now, items, box),
           \A a \in ToSet(done) \cup {now} \cup ToSet(items) \cup ToSet(box) : a <= Len(key)
    PROVE  QueueInTurn(Append(key, k), done, now, items, Append(box, Len(key) + 1))
<1> DEFINE new == Append(key, k)
           all == ToSet(done) \cup {now} \cup ToSet(items) \cup ToSet(box)
<1>1. Len(key) \in Nat /\ \A a \in 1 .. Len(key) : new[a] = key[a]
  OBVIOUS
<1>2. all \subseteq Nat
  BY ToSetFacts
<1> HIDE DEF new
<1>3. ASSUME NEW a \in all, NEW b \in all, InTurn(key, a, b) PROVE InTurn(new, a, b)
  <2>1. a # 0 => a \in 1 .. Len(key)
    BY <1>1, <1>2
  <2>2. b # 0 => b \in 1 .. Len(key)
    BY <1>1, <1>2
  <2> QED BY <1>1, <1>3, <2>1, <2>2 DEF InTurn
<1>4. ASSUME NEW a \in all PROVE InTurn(new, a, Len(key) + 1)
  <2>1. a < Len(key) + 1 /\ a # Len(key) + 1
    BY <1>1, <1>2
  <2> QED BY <2>1 DEF InTurn
<1>5. ToSet(Append(box, Len(key) + 1)) = ToSet(box) \cup {Len(key) + 1}
  BY <1>1, ToSetFacts
<1>6. /\ \A i \in 1 .. Len(done) : done[i] \in all
      /\ \A i \in 1 .. Len(items) : items[i] \in all
  BY DEF ToSet
<1>7. SeqInTurn(new, done) /\ SeqInTurn(new, items)
  <2> HIDE DEF all
  <2> QED BY <1>3, <1>6 DEF QueueInTurn, SeqInTurn
<1>8. ToSet(done) \subseteq all /\ now \in all /\ ToSet(items) \subseteq all /\ ToSet(box) \subseteq all
  OBVIOUS
<1>9. /\ AllInTurn(new, ToSet(done), {now} \cup ToSet(items) \cup (ToSet(box) \cup {Len(key) + 1}))
      /\ AllInTurn(new, {now}, ToSet(items) \cup (ToSet(box) \cup {Len(key) + 1}))
      /\ AllInTurn(new, ToSet(items), ToSet(box) \cup {Len(key) + 1})
  <2> HIDE DEF all
  <2> QED BY <1>3, <1>4, <1>8 DEF QueueInTurn, AllInTurn
<1> QED BY <1>5, <1>7, <1>9 DEF QueueInTurn, new

-----------------------------------------------------------------------------
(* The dispatch of the inbox                                               *)

LEMMA LeastExists ==
    ASSUME NEW S, S \subseteq Nat, S # {}
    PROVE  \E i \in S : \A j \in S : i <= j
<1>1. IsWellFoundedOn(OpToRel(<, Nat), Nat)
  BY NatLessThanWellFounded
<1>2. \E x \in S : \A y \in S : ~ (<<y, x>> \in OpToRel(<, Nat))
  BY <1>1, WFMin
<1>3. PICK x \in S : \A y \in S : ~ (<<y, x>> \in OpToRel(<, Nat))
  BY <1>2
<1>4. \A y \in S : ~ (y < x)
  BY <1>3 DEF OpToRel
<1>5. \A y \in S : x <= y
  BY <1>4
<1> QED BY <1>5

\* The function returns at the first message that nobody wants.
LEMMA ReachFacts ==
    ASSUME NEW box \in Seq(Nat), NEW key
    PROVE  /\ Reach(box, key) \in 0 .. Len(box)
           /\ \A i \in 1 .. Reach(box, key) : ~NobodyWants(key[box[i]])
           /\ Reach(box, key) < Len(box) => NobodyWants(key[box[Reach(box, key) + 1]])
<1> DEFINE stops == {i \in DOMAIN box : NobodyWants(key[box[i]])}
           first == CHOOSE i \in stops : \A j \in stops : i <= j
<1>1. Len(box) \in Nat /\ DOMAIN box = 1 .. Len(box) /\ stops \subseteq 1 .. Len(box)
  OBVIOUS
<1>2. CASE stops = {}
  <2>1. Reach(box, key) = Len(box)
    BY <1>2 DEF Reach
  <2>2. \A i \in 1 .. Len(box) : ~NobodyWants(key[box[i]])
    BY <1>1, <1>2
  <2> QED BY <1>1, <2>1, <2>2
<1>3. CASE stops # {}
  <2>1. Reach(box, key) = first - 1
    BY <1>3 DEF Reach
  <2>2. first \in stops /\ \A j \in stops : first <= j
    <3>1. \E i \in stops : \A j \in stops : i <= j
      <4>1. stops \subseteq Nat
        BY <1>1
      <4> HIDE DEF stops
      <4> QED BY <1>3, <4>1, LeastExists
    <3> HIDE DEF stops
    <3> QED BY <3>1
  <2> HIDE DEF first
  <2>3. first \in 1 .. Len(box) /\ NobodyWants(key[box[first]])
    BY <1>1, <2>2
  <2>4. \A i \in 1 .. first - 1 : i \in 1 .. Len(box) /\ ~(first <= i)
    BY <1>1, <2>3
  <2>5. \A i \in 1 .. first - 1 : i \notin stops
    <3> HIDE DEF stops
    <3> QED BY <2>2, <2>4
  <2>6. \A i \in 1 .. first - 1 : ~NobodyWants(key[box[i]])
    BY <1>1, <2>4, <2>5
  <2> HIDE DEF stops
  <2> QED BY <1>1, <2>1, <2>3, <2>6
<1> QED BY <1>2, <1>3

\* All that moves is a message that has arrived.
LEMMA KnownMessages ==
    ASSUME AQInv
    PROVE  /\ \A a \in ToSet(inbox) : a <= Len(keyOf)
           /\ \A q \in QNames : \A a \in ToSet(handled[q]) \cup {aqNow[q]} \cup ToSet(aqItems[q]) : a <= Len(keyOf)
<1>1. keyOf \in Seq(Keys) /\ Len(keyOf) \in Nat
  BY DEF AQInv, AQControl, AQTypes
<1>2. /\ ToSet(inbox) \subseteq Nat
      /\ \A q \in QNames : ToSet(handled[q]) \subseteq Nat /\ aqNow[q] \in Nat /\ ToSet(aqItems[q]) \subseteq Nat
  <2>1. inbox \in Seq(Nat) /\ \A q \in QNames : handled[q] \in Seq(Nat) /\ aqNow[q] \in Nat /\ aqItems[q] \in Seq(Nat)
    BY DEF AQInv, AQControl, AQTypes
  <2> QED BY <2>1, ToSetFacts
<1>3. \A m \in Nat \ {0} : InBox(m) \/ InQueue(m) => m <= Len(keyOf)
  BY <1>1 DEF AQInv, EachInOnePlace
<1>4. ASSUME NEW a \in ToSet(inbox) PROVE a <= Len(keyOf)
  BY <1>1, <1>2, <1>3 DEF InBox
<1>5. ASSUME NEW q \in QNames, NEW a \in ToSet(handled[q]) \cup {aqNow[q]} \cup ToSet(aqItems[q])
      PROVE  a <= Len(keyOf)
  <2>1. a \in Nat /\ InQueue(a)
    BY <1>2 DEF InQueue
  <2> QED BY <1>1, <1>3, <2>1
<1> QED BY <1>4, <1>5

\* A message that arrives is behind all others in the inbox.
LEMMA ArrivalFacts ==
    ASSUME AQInv, NEW k \in Keys, Arrives(k)
    PROVE  /\ Arrived \in Seq(Nat) /\ Increasing(Arrived) /\ ToSet(Arrived) = ToSet(inbox) \cup {Len(keyOf) + 1}
           /\ keyOf' = Append(keyOf, k) /\ keyOf' \in Seq(Keys) /\ Len(keyOf') = Len(keyOf) + 1
           /\ \A i \in 1 .. Len(Arrived) : keyOf'[Arrived[i]] \in Keys
           /\ \A q \in QNames : QueueInTurn(keyOf', handled[q], aqNow[q], aqItems[q], Arrived)
<1>1. inbox \in Seq(Nat) /\ keyOf \in Seq(Keys) /\ Len(keyOf) \in Nat /\ Increasing(inbox)
  BY DEF AQInv, AQControl, AQTypes, WorkInTurn
<1>2. Arrived \in Seq(Nat) /\ ToSet(Arrived) = ToSet(inbox) \cup {Len(keyOf) + 1}
  BY <1>1, ToSetFacts DEF Arrived
<1>3. Increasing(Arrived)
  <2>1. \A a \in ToSet(inbox) : a < Len(keyOf) + 1
    <3>1. \A a \in ToSet(inbox) : a \in Nat /\ a <= Len(keyOf)
      BY <1>1, KnownMessages, ToSetFacts
    <3> QED BY <1>1, <3>1
  <2> QED BY <1>1, <2>1, IncreasingAppend DEF Arrived
<1>4. keyOf' = Append(keyOf, k) /\ keyOf' \in Seq(Keys) /\ Len(keyOf') = Len(keyOf) + 1
  BY <1>1 DEF Arrives
<1>5. \A i \in 1 .. Len(Arrived) : keyOf'[Arrived[i]] \in Keys
  <2> TAKE i \in 1 .. Len(Arrived)
  <2>1. Arrived[i] \in ToSet(Arrived)
    BY <1>2 DEF ToSet
  <2>2. ASSUME NEW a \in ToSet(inbox) PROVE a \in 1 .. Len(keyOf) + 1
    <3>1. a \in Nat /\ a <= Len(keyOf)
      BY <1>1, KnownMessages, ToSetFacts
    <3>2. a # 0
      BY DEF AQInv, WorkInTurn
    <3> QED BY <1>1, <3>1, <3>2
  <2>3. Arrived[i] \in 1 .. Len(keyOf) + 1
    BY <1>1, <1>2, <2>1, <2>2
  <2> QED BY <1>4, <2>3
<1>6. ASSUME NEW q \in QNames PROVE QueueInTurn(keyOf', handled[q], aqNow[q], aqItems[q], Arrived)
  <2>1. /\ handled[q] \in Seq(Nat) /\ aqNow[q] \in Nat /\ aqItems[q] \in Seq(Nat)
        /\ QueueInTurn(keyOf, handled[q], aqNow[q], aqItems[q], inbox)
    BY DEF AQInv, AQControl, AQTypes, WorkInTurn
  <2>2. \A a \in ToSet(handled[q]) \cup {aqNow[q]} \cup ToSet(aqItems[q]) \cup ToSet(inbox) : a <= Len(keyOf)
    BY KnownMessages
  <2> QED BY <1>1, <1>4, <2>1, <2>2, QueueArrival DEF Arrived
<1> QED BY <1>2, <1>3, <1>4, <1>5, <1>6

LEMMA DispatchFacts ==
    ASSUME AQInv, NEW k \in Keys, ReceiveMail(k)
    PROVE  /\ Arrived \in Seq(Nat) /\ Increasing(Arrived) /\ ToSet(Arrived) = ToSet(inbox) \cup {Len(keyOf) + 1}
           /\ keyOf' = Append(keyOf, k) /\ keyOf' \in Seq(Keys)
           /\ \A i \in 1 .. Len(Arrived) : keyOf'[Arrived[i]] \in Keys
           /\ inbox' \in Seq(Nat) /\ Increasing(inbox') /\ ToSet(inbox') = LeftIn(Arrived, keyOf')
           /\ \A q \in QNames : LET more == Sifted(Arrived, PushedTo(q, Arrived, keyOf')) IN
                /\ more \in Seq(Nat) /\ Increasing(more) /\ ToSet(more) = PushedTo(q, Arrived, keyOf')
                /\ aqItems'[q] = aqItems[q] \o more
           /\ aqItems' \in [QNames -> Seq(Nat)]
<1>1. aqItems \in [QNames -> Seq(Nat)]
  BY DEF AQInv, AQControl, AQTypes
<1>2. /\ Arrived \in Seq(Nat) /\ Increasing(Arrived) /\ ToSet(Arrived) = ToSet(inbox) \cup {Len(keyOf) + 1}
      /\ keyOf' = Append(keyOf, k) /\ keyOf' \in Seq(Keys)
      /\ \A i \in 1 .. Len(Arrived) : keyOf'[Arrived[i]] \in Keys
  BY ArrivalFacts DEF ReceiveMail
<1>6. /\ inbox' = Sifted(Arrived, LeftIn(Arrived, keyOf'))
      /\ aqItems' = [q \in QNames |-> aqItems[q] \o Sifted(Arrived, PushedTo(q, Arrived, keyOf'))]
  BY DEF ReceiveMail, Dispatch, Arrived
<1>7. DOMAIN Arrived = 1 .. Len(Arrived) /\ \A i \in 1 .. Len(Arrived) : Arrived[i] \in ToSet(Arrived)
  BY <1>2 DEF ToSet
<1>8. LeftIn(Arrived, keyOf') \subseteq ToSet(Arrived)
  BY <1>7 DEF LeftIn
<1>9. \A q \in QNames : PushedTo(q, Arrived, keyOf') \subseteq ToSet(Arrived)
  <2>1. \A i \in 1 .. Reach(Arrived, keyOf') : i \in 1 .. Len(Arrived)
    BY <1>2, ReachFacts
  <2> QED BY <1>7, <2>1 DEF PushedTo
<1>9a. ASSUME NEW K, K \subseteq ToSet(Arrived)
       PROVE  Sifted(Arrived, K) \in Seq(Nat) /\ Increasing(Sifted(Arrived, K)) /\ ToSet(Sifted(Arrived, K)) = K
  <2>1. /\ Sifted(Arrived, K) \in Seq(Nat) /\ Increasing(Sifted(Arrived, K))
        /\ ToSet(Sifted(Arrived, K)) = ToSet(Arrived) \cap K
    BY <1>2, SiftedFacts
  <2> QED BY <1>9a, <2>1
<1>10. inbox' \in Seq(Nat) /\ Increasing(inbox') /\ ToSet(inbox') = LeftIn(Arrived, keyOf')
  BY <1>6, <1>8, <1>9a, Zenon
<1>11. ASSUME NEW q \in QNames
       PROVE  LET more == Sifted(Arrived, PushedTo(q, Arrived, keyOf')) IN
                /\ more \in Seq(Nat) /\ Increasing(more) /\ ToSet(more) = PushedTo(q, Arrived, keyOf')
                /\ aqItems'[q] = aqItems[q] \o more
  <2>1. aqItems'[q] = aqItems[q] \o Sifted(Arrived, PushedTo(q, Arrived, keyOf'))
    BY <1>6
  <2>2. PushedTo(q, Arrived, keyOf') \subseteq ToSet(Arrived)
    BY <1>9
  <2> QED BY <1>9a, <2>1, <2>2, Zenon
<1>12. aqItems' \in [QNames -> Seq(Nat)]
  <2>1. \A q \in QNames : aqItems[q] \o Sifted(Arrived, PushedTo(q, Arrived, keyOf')) \in Seq(Nat)
    BY <1>1, <1>11
  <2> QED BY <1>6, <2>1
<1> QED BY <1>2, <1>10, <1>11, <1>12

-----------------------------------------------------------------------------
(* Types, threads and routes                                               *)

\* What the user thread may be in the middle of.
LEMMA UserFacts ==
    ASSUME user \in Users
    PROVE  /\ user[1] \in {"idle", "closing", "stopping", "removing", "crashed", "pattern", "route"}
           /\ user = Idle <=> user[1] = "idle"
           /\ user[1] = "removing" => user[2] \in QNames /\ user = <<"removing", user[2]>>
           /\ user[1] = "pattern" => user[2] \in QNames /\ user[3] \in SUBSET Keys
           /\ user[1] = "route" => user[2] \in QNames /\ user[3] \in Keys
<1>1. CASE user \in {Idle, <<"closing">>, <<"stopping">>}
  BY <1>1 DEF Idle
<1>2. CASE user \in {<<"removing", q>> : q \in QNames}
  BY <1>2 DEF Idle
<1>3. CASE user \in {<<"pattern", q, p>> : q \in QNames, p \in SUBSET Keys}
  BY <1>3 DEF Idle
<1>4. CASE user \in {<<"route", q, k>> : q \in QNames, k \in Keys}
  BY <1>4 DEF Idle
<1>5. CASE user \in {<<"crashed", k>> : k \in Keys}
  BY <1>5 DEF Idle
<1> QED BY <1>1, <1>2, <1>3, <1>4, <1>5 DEF Users

LEMMA UserTypes ==
    /\ Idle \in Users /\ <<"closing">> \in Users /\ <<"stopping">> \in Users
    /\ \A k \in Keys : <<"crashed", k>> \in Users
    /\ \A q \in QNames : <<"removing", q>> \in Users
    /\ \A q \in QNames, p \in SUBSET Keys : <<"pattern", q, p>> \in Users
    /\ \A q \in QNames, k \in Keys : <<"route", q, k>> \in Users
BY DEF Users

\* The disjuncts of the next-state relation.
LEMMA AQCases ==
    ASSUME [AQNext]_aqVars
    PROVE  \/ \E k \in Keys : ReceiveMail(k) \/ DispatchThrows(k)
           \/ QueueFetch \/ QueueRun \/ QueueClose \/ QueuesClosed \/ ReaderStopped \/ Removed \/ NotePattern \/ NoteRoute
           \/ \E q \in QNames : \/ NewQueue(q) /\ user = Idle /\ UNCHANGED user
                                \/ \E p \in SUBSET Keys : NewQueue(q) /\ user = Idle /\ user' = <<"pattern", q, p>>
                                \/ \E k \in Keys : NewQueue(q) /\ user = Idle /\ user' = <<"route", q, k>>
           \/ \E q \in QNames, k \in Keys : AddMessageRouteToActiveQueue(q, k) \/ RemoveMessageRouteToActiveQueue(q, k)
           \/ \E q \in QNames : RemoveActiveQueue(q) \/ CloseStop(q) \/ CloseDelete(q) \/ Take(q) \/ Return(q)
           \/ UNCHANGED aqVars
BY DEF AQNext, Remover, QueueThread, AddActiveQueue, AddWildcardActiveQueue, AddMessageCallBack, MayCall

LEMMA TypesStart == AQInit => AQInv
<1> SUFFICES ASSUME AQInit PROVE AQInv
  OBVIOUS
<1>1. AQTypes
  <2>1. DOMAIN routes = {} /\ DOMAIN patterns = {}
    BY DEF AQInit
  <2>2. /\ aqItems \in [QNames -> Seq(Nat)] /\ aqNow \in [QNames -> Nat] /\ handled \in [QNames -> Seq(Nat)]
        /\ inbox \in Seq(Nat) /\ fetched \in Seq(Nat) /\ keyOf \in Seq(Keys)
    BY DEF AQInit, NoMessage
  <2> QED BY <2>1, <2>2, UserTypes DEF AQInit, AQTypes
<1>2. ThreadsFollow /\ RoutesFollow /\ PatternsFollow
  BY DEF AQInit, ThreadsFollow, RoutesFollow, PatternsFollow, Idle, NoMessage
<1>3. WorkInTurn /\ OnlyMailIsHandled
  BY DEF AQInit, WorkInTurn, OnlyMailIsHandled, QueueInTurn, SeqInTurn, AllInTurn, Increasing, ToSet
<1>4. EachInOnePlace
  BY DEF AQInit, EachInOnePlace, InBox, WithUser, InQueue, ToSet, NoMessage
<1> QED BY <1>1, <1>2, <1>3, <1>4 DEF AQInv, AQControl

LEMMA TypesStep ==
    ASSUME AQInv, [AQNext]_aqVars
    PROVE  AQTypes'
<1>0. AQTypes /\ ThreadsFollow
  BY DEF AQInv, AQControl
<1> USE DEF AQTypes
<1>1. ASSUME NEW k \in Keys, ReceiveMail(k) PROVE AQTypes'
  <2>1. inbox' \in Seq(Nat) /\ aqItems' \in [QNames -> Seq(Nat)] /\ keyOf' \in Seq(Keys)
    BY <1>1, DispatchFacts
  <2>2. UNCHANGED <<aqMap, aqThread, aqNow, handled, patterns, fetched, user, gone>>
    BY <1>1 DEF ReceiveMail
  <2>3. Reach(Arrived, keyOf') \in 0 .. Len(Arrived) /\ \A i \in 1 .. Len(Arrived) : keyOf'[Arrived[i]] \in Keys
    BY <1>1, DispatchFacts, ReachFacts
  <2>4. DOMAIN routes' \subseteq Keys /\ checked' \subseteq Keys
    <3> DEFINE n == Reach(Arrived, keyOf')
    <3>1. /\ DOMAIN routes' \subseteq DOMAIN routes \cup {keyOf'[Arrived[i]] : i \in 1 .. n}
          /\ checked' = checked \cup {keyOf'[Arrived[i]] : i \in 1 .. (IF n < Len(Arrived) THEN n + 1 ELSE n)}
      BY <1>1 DEF ReceiveMail, Dispatch, Arrived
    <3>2. Arrived \in Seq(Nat)
      BY <1>1, DispatchFacts
    <3>3. \A i \in 1 .. (IF n < Len(Arrived) THEN n + 1 ELSE n) : i \in 1 .. Len(Arrived)
      BY <2>3, <3>2
    <3>4. \A i \in 1 .. n : i \in 1 .. Len(Arrived)
      BY <2>3, <3>2
    <3> HIDE DEF n
    <3>5. /\ {keyOf'[Arrived[i]] : i \in 1 .. n} \subseteq Keys
          /\ {keyOf'[Arrived[i]] : i \in 1 .. (IF n < Len(Arrived) THEN n + 1 ELSE n)} \subseteq Keys
      BY <2>3, <3>3, <3>4
    <3> QED BY <1>0, <3>1, <3>5
  <2> QED BY <1>0, <2>1, <2>2, <2>4
<1>2. CASE QueueFetch \/ QueueClose
  <2>1. /\ fetched' = fetched \o inbox /\ inbox' = <<>> /\ user' \in Users
        /\ UNCHANGED <<aqMap, aqThread, aqItems, aqNow, handled, routes, patterns, checked, keyOf, gone>>
    BY <1>0, <1>2, UserTypes DEF QueueFetch, QueueClose
  <2> QED BY <1>0, <2>1
<1>3. CASE QueueRun \/ QueuesClosed \/ ReaderStopped
  <2>1. user' \in Users /\ checked' \subseteq Keys
    BY <1>0, <1>3, UserTypes DEF QueueRun, QueuesClosed, ReaderStopped
  <2>2. DOMAIN routes' \subseteq Keys
    BY <1>0, <1>3 DEF QueueRun, QueuesClosed, ReaderStopped
  <2>3. UNCHANGED <<aqMap, aqThread, aqItems, aqNow, handled, patterns, inbox, fetched, keyOf, gone>>
    BY <1>3 DEF QueueRun, QueuesClosed, ReaderStopped
  <2> QED BY <1>0, <2>1, <2>2, <2>3
<1>3a. ASSUME NEW k \in Keys, DispatchThrows(k) PROVE AQTypes'
  <2>1. PICK i \in DOMAIN Arrived : user' = <<"crashed", keyOf'[Arrived[i]]>>
    BY <1>3a DEF DispatchThrows
  <2>2. /\ Arrived \in Seq(Nat) /\ keyOf' \in Seq(Keys)
        /\ \A j \in 1 .. Len(Arrived) : keyOf'[Arrived[j]] \in Keys
    BY <1>3a, ArrivalFacts DEF DispatchThrows
  <2>3. user' \in Users
    <3>1. i \in 1 .. Len(Arrived)
      BY <2>1, <2>2
    <3> QED BY <2>1, <2>2, <3>1, UserTypes
  <2> QED BY <1>0, <1>3a, <2>2, <2>3 DEF DispatchThrows
<1>4. ASSUME NEW q \in QNames, q \in aqMap, gone' = Gone(q), aqMap' = aqMap \ {q},
             aqThread' = [aqThread EXCEPT ![q] = "none"], aqItems' = [aqItems EXCEPT ![q] = <<>>],
             DOMAIN patterns' \subseteq DOMAIN patterns, user' \in Users,
             UNCHANGED <<aqNow, handled, routes, checked, inbox, keyOf, fetched>>
      PROVE  AQTypes'
  <2>1. gone' \subseteq Nat
    <3>1. aqItems[q] \in Seq(Nat) /\ aqNow[q] \in Nat /\ gone \subseteq Nat
      BY <1>0
    <3>2. ToSet(aqItems[q]) \subseteq Nat
      BY <3>1, ToSetFacts
    <3> QED BY <1>4, <3>1, <3>2 DEF Gone
  <2> QED BY <1>0, <1>4, <2>1
<1>5. CASE Removed
  <2>1. user[2] \in QNames /\ user[2] \in aqMap
    <3>1. user[2] \in QNames /\ aqThread[user[2]] # "none"
      BY <1>0, <1>5, UserFacts DEF Removed, Joined
    <3> QED BY <1>0, <3>1 DEF ThreadsFollow
  <2> QED BY <1>0, <1>4, <1>5, <2>1, UserTypes DEF Removed
<1>6. ASSUME NEW q \in QNames, CloseDelete(q) PROVE AQTypes'
  BY <1>0, <1>4, <1>6 DEF CloseDelete
<1>7. CASE NotePattern
  <2>1. user[2] \in QNames /\ user[3] \in SUBSET Keys
    BY <1>0, <1>7, UserFacts DEF NotePattern
  <2>2. DOMAIN patterns' \subseteq QNames /\ DOMAIN routes' \subseteq Keys
    BY <1>0, <1>7, <2>1 DEF NotePattern, NamesSeen
  <2> QED BY <1>0, <1>7, <2>2, UserTypes DEF NotePattern
<1>8. CASE NoteRoute
  <2>1. user[2] \in QNames /\ user[3] \in Keys
    BY <1>0, <1>8, UserFacts DEF NoteRoute
  <2> QED BY <1>0, <1>8, <2>1, UserTypes DEF NoteRoute, RoutesWith
<1>9. ASSUME NEW q \in QNames, NewQueue(q), user' \in Users PROVE AQTypes'
  <2>1. /\ aqMap' \subseteq QNames /\ aqThread' \in [QNames -> {"none", "waiting", "callback", "ended"}]
        /\ aqItems' \in [QNames -> Seq(Nat)]
    BY <1>0, <1>9 DEF NewQueue
  <2> QED BY <1>0, <1>9, <2>1 DEF NewQueue
<1>10. ASSUME NEW q \in QNames, NEW k \in Keys,
              AddMessageRouteToActiveQueue(q, k) \/ RemoveMessageRouteToActiveQueue(q, k)
       PROVE  AQTypes'
  BY <1>0, <1>10 DEF AddMessageRouteToActiveQueue, RemoveMessageRouteToActiveQueue, RoutesWith
<1>11. ASSUME NEW q \in QNames, StopQueue(q), user' \in Users, DOMAIN routes' \subseteq DOMAIN routes,
              UNCHANGED <<aqMap, aqThread, aqNow, handled, patterns, checked, inbox, keyOf, fetched, gone>>
       PROVE  AQTypes'
  <2>1. aqItems' \in [QNames -> Seq(Nat)]
    BY <1>0, <1>11 DEF StopQueue, Terminate
  <2> QED BY <1>0, <1>11, <2>1
<1>12. ASSUME NEW q \in QNames, RemoveActiveQueue(q) PROVE AQTypes'
  BY <1>11, <1>12, UserTypes DEF RemoveActiveQueue, WithoutQueue
<1>13. ASSUME NEW q \in QNames, CloseStop(q) PROVE AQTypes'
  BY <1>0, <1>11, <1>13 DEF CloseStop
<1>14. ASSUME NEW q \in QNames, Take(q) PROVE AQTypes'
  <2>1. aqItems[q] # <<>> /\ aqItems[q] \in Seq(Nat) /\ aqItems' = [aqItems EXCEPT ![q] = Tail(@)]
    BY <1>0, <1>14 DEF Take
  <2>2. Head(aqItems[q]) \in Nat /\ Tail(aqItems[q]) \in Seq(Nat)
    BY <2>1
  <2>3. aqItems' \in [QNames -> Seq(Nat)]
    BY <1>0, <2>1, <2>2
  <2>4. aqNow' \in [QNames -> Nat] /\ aqThread' \in [QNames -> {"none", "waiting", "callback", "ended"}]
    BY <1>0, <1>14, <2>2 DEF Take
  <2> QED BY <1>0, <1>14, <2>3, <2>4 DEF Take
<1>15. ASSUME NEW q \in QNames, Return(q) PROVE AQTypes'
  <2>1. handled' \in [QNames -> Seq(Nat)] /\ aqNow' \in [QNames -> Nat]
    BY <1>0, <1>15 DEF Return, NoMessage
  <2>2. aqThread' \in [QNames -> {"none", "waiting", "callback", "ended"}]
    BY <1>0, <1>15 DEF Return, AfterCallback
  <2> QED BY <1>0, <1>15, <2>1, <2>2 DEF Return
<1>16. CASE UNCHANGED aqVars
  BY <1>0, <1>16 DEF aqVars
<1> HIDE DEF AQTypes
<1>17. ASSUME NEW q \in QNames,
              \/ NewQueue(q) /\ UNCHANGED user
              \/ \E p \in SUBSET Keys : NewQueue(q) /\ user' = <<"pattern", q, p>>
              \/ \E k \in Keys : NewQueue(q) /\ user' = <<"route", q, k>>
       PROVE  AQTypes'
  <2>1. user' \in Users
    BY <1>0, <1>17, UserTypes DEF AQTypes
  <2> QED BY <1>9, <1>17, <2>1
<1> QED
  BY <1>1, <1>2, <1>3, <1>3a, <1>5, <1>6, <1>7, <1>8, <1>10, <1>12, <1>13, <1>14, <1>15, <1>16, <1>17, AQCases

\* Whoever is sent mail exists; the dispatch throws for want of a queue that Close deleted.
LEMMA ReceiversExist ==
    ASSUME AQInv, NEW k \in Keys, ReceiveMail(k), NEW i \in 1 .. Reach(Arrived, keyOf')
    PROVE  Targets(keyOf'[Arrived[i]]) \subseteq aqMap
<1>1. Arrived \in Seq(Nat) /\ Reach(Arrived, keyOf') \in 0 .. Len(Arrived)
  BY DispatchFacts, ReachFacts
<1>2. i \in DOMAIN Arrived
  BY <1>1
<1> QED BY <1>2 DEF ReceiveMail, NoQueueFor

LEMMA MissingIsOrphan ==
    ASSUME AQInv, LockFree, NEW k, ~(Targets(k) \subseteq aqMap)
    PROVE  \E q \in orphans : k \in patterns[q]
<1>1. PICK q \in Targets(k) : q \notin aqMap
  OBVIOUS
<1>2. q \notin Route(k)
  BY <1>1 DEF AQInv, AQControl, RoutesFollow, LockFree, Route
<1>3. q \in DOMAIN patterns /\ k \in patterns[q]
  BY <1>2 DEF Targets, WildMatches
<1> QED BY <1>1, <1>3 DEF AQInv, AQControl, RoutesFollow

LEMMA ThreadsStep ==
    ASSUME AQInv, [AQNext]_aqVars
    PROVE  ThreadsFollow'
<1>0. AQTypes /\ ThreadsFollow
  BY DEF AQInv, AQControl
<1>1. ASSUME NEW k \in Keys, ReceiveMail(k) PROVE ThreadsFollow'
  <2>1. UNCHANGED <<aqMap, aqThread, aqNow>>
    BY <1>1 DEF ReceiveMail
  <2>2. ASSUME NEW q \in QNames, q \notin aqMap PROVE aqItems'[q] = <<>>
    <3> DEFINE more == Sifted(Arrived, PushedTo(q, Arrived, keyOf'))
    <3>1. more \in Seq(Nat) /\ ToSet(more) = PushedTo(q, Arrived, keyOf') /\ aqItems'[q] = aqItems[q] \o more
      BY <1>1, DispatchFacts
    <3>2. PushedTo(q, Arrived, keyOf') = {}
      <4>1. \A i \in 1 .. Reach(Arrived, keyOf') : q \notin Targets(keyOf'[Arrived[i]])
        BY <1>1, <2>2, ReceiversExist
      <4> QED BY <4>1 DEF PushedTo
    <3> HIDE DEF more
    <3>3. more = <<>>
      BY <3>1, <3>2 DEF ToSet
    <3> QED BY <1>0, <2>2, <3>1, <3>3 DEF ThreadsFollow
  <2> QED BY <1>0, <2>1, <2>2 DEF ThreadsFollow
<1>2. CASE UNCHANGED <<aqMap, aqThread, aqNow, aqItems>>
  BY <1>0, <1>2 DEF ThreadsFollow
<1>3. CASE \/ QueueFetch \/ QueueRun \/ QueueClose \/ QueuesClosed \/ ReaderStopped \/ NotePattern \/ NoteRoute
           \/ \E k \in Keys : DispatchThrows(k)
  BY <1>2, <1>3 DEF QueueFetch, QueueRun, QueueClose, QueuesClosed, ReaderStopped, NotePattern, NoteRoute,
                    DispatchThrows
<1>4. ASSUME NEW q \in QNames, Joined(q), aqMap' = aqMap \ {q},
             aqThread' = [aqThread EXCEPT ![q] = "none"], aqItems' = [aqItems EXCEPT ![q] = <<>>], UNCHANGED aqNow
      PROVE  ThreadsFollow'
  BY <1>0, <1>4 DEF AQTypes, ThreadsFollow, Joined
<1>5. CASE Removed
  <2>1. user[2] \in QNames
    BY <1>0, <1>5, UserFacts DEF AQTypes, Removed
  <2> QED BY <1>4, <1>5, <2>1 DEF Removed
<1>6. ASSUME NEW q \in QNames, CloseDelete(q) PROVE ThreadsFollow'
  BY <1>4, <1>6 DEF CloseDelete
<1>7. ASSUME NEW q \in QNames, NewQueue(q) PROVE ThreadsFollow'
  BY <1>0, <1>7 DEF AQTypes, NewQueue, ThreadsFollow
<1>8. ASSUME NEW q \in QNames, NEW k \in Keys,
              AddMessageRouteToActiveQueue(q, k) \/ RemoveMessageRouteToActiveQueue(q, k)
       PROVE  ThreadsFollow'
  BY <1>2, <1>8 DEF AddMessageRouteToActiveQueue, RemoveMessageRouteToActiveQueue
<1>9. ASSUME NEW q \in QNames, q \in aqMap, StopQueue(q), UNCHANGED <<aqMap, aqThread, aqNow>>
      PROVE  ThreadsFollow'
  <2>1. \A r \in QNames \ {q} : aqItems'[r] = aqItems[r]
    BY <1>0, <1>9 DEF StopQueue, AQTypes
  <2> QED BY <1>0, <1>9, <2>1 DEF ThreadsFollow
<1>10. ASSUME NEW q \in QNames, RemoveActiveQueue(q) \/ CloseStop(q) PROVE ThreadsFollow'
  BY <1>9, <1>10 DEF RemoveActiveQueue, CloseStop
<1>11. ASSUME NEW q \in QNames, Take(q) PROVE ThreadsFollow'
  <2>1. /\ aqThread[q] = "waiting" /\ aqItems' = [aqItems EXCEPT ![q] = Tail(@)] /\ UNCHANGED aqMap
        /\ \/ aqThread' = [aqThread EXCEPT ![q] = "ended"] /\ UNCHANGED aqNow
           \/ /\ aqThread' = [aqThread EXCEPT ![q] = "callback"]
              /\ aqNow' = [aqNow EXCEPT ![q] = Head(aqItems[q])] /\ Head(aqItems[q]) # Terminate
    BY <1>11 DEF Take
  <2>2. q \in aqMap /\ \A r \in QNames \ {q} : aqItems'[r] = aqItems[r]
    BY <1>0, <2>1 DEF AQTypes, ThreadsFollow
  <2>3. \A r \in QNames : r \notin aqMap' => aqItems'[r] = <<>>
    BY <1>0, <2>1, <2>2 DEF ThreadsFollow
  <2>4. \A r \in QNames : r \notin aqMap' <=> aqThread'[r] = "none"
    BY <1>0, <2>1, <2>2 DEF AQTypes, ThreadsFollow
  <2>5. \A r \in QNames : aqNow'[r] # NoMessage <=> aqThread'[r] = "callback"
    BY <1>0, <2>1 DEF AQTypes, ThreadsFollow, NoMessage, Terminate
  <2> QED BY <2>3, <2>4, <2>5 DEF ThreadsFollow
<1>12. ASSUME NEW q \in QNames, Return(q) PROVE ThreadsFollow'
  <2>1. /\ aqThread[q] = "callback" /\ aqNow' = [aqNow EXCEPT ![q] = NoMessage] /\ UNCHANGED <<aqMap, aqItems>>
        /\ aqThread' = [aqThread EXCEPT ![q] = AfterCallback(q)] /\ AfterCallback(q) \in {"waiting", "ended"}
    BY <1>12 DEF Return, AfterCallback
  <2> QED BY <1>0, <2>1 DEF AQTypes, ThreadsFollow
<1>13. CASE UNCHANGED aqVars
  BY <1>2, <1>13 DEF aqVars
<1> QED BY <1>1, <1>3, <1>5, <1>6, <1>7, <1>8, <1>10, <1>11, <1>12, <1>13, AQCases

LEMMA RoutesStep ==
    ASSUME AQInv, [AQNext]_aqVars
    PROVE  RoutesFollow' /\ PatternsFollow'
<1>0. AQTypes /\ ThreadsFollow /\ RoutesFollow /\ PatternsFollow
  BY DEF AQInv, AQControl
<1>1. ASSUME NEW k \in Keys, ReceiveMail(k) PROVE RoutesFollow' /\ PatternsFollow'
  <2> DEFINE n == Reach(Arrived, keyOf')
             K(i) == keyOf'[Arrived[i]]
             named == {K(i) : i \in 1 .. n}
             new  == {x \in named : Unchecked(x) /\ WildMatches(x) # {}}
  <2>1. /\ routes' = [x \in DOMAIN routes \cup new |-> IF x \in new THEN Targets(x) ELSE routes[x]]
        /\ checked' = checked \cup {K(i) : i \in 1 .. (IF n < Len(Arrived) THEN n + 1 ELSE n)}
        /\ UNCHANGED <<aqMap, patterns, user, orphans, unrouted>> /\ LockFree
    BY <1>1 DEF ReceiveMail, Dispatch, Arrives
  <2>2. user[1] \notin {"removing", "closing"}
    BY <2>1 DEF LockFree
  <2>3. \A x \in DOMAIN routes' : routes'[x] \subseteq aqMap
    <3>1. \A x \in new : Targets(x) \subseteq aqMap
      BY <1>1, ReceiversExist
    <3>2. \A x \in DOMAIN routes : routes[x] \subseteq aqMap
      BY <1>0, <2>2 DEF RoutesFollow
    <3> QED BY <2>1, <3>1, <3>2
  <2>4. RoutesFollow'
    BY <1>0, <2>1, <2>2, <2>3 DEF RoutesFollow
  <2>5. ASSUME NEW q \in DOMAIN patterns, NEW x \in checked', x \in patterns[q], x \notin unrouted
        PROVE  x \in DOMAIN routes' /\ q \in routes'[x]
    <3>1. q \in WildMatches(x)
      BY <2>5 DEF WildMatches
    <3>2. CASE x \in checked
      <4>1. x \in DOMAIN routes /\ q \in routes[x]
        <5>1. user # <<"removing", q>>
          BY <2>2
        <5> QED BY <1>0, <2>1, <2>5, <3>2, <5>1 DEF PatternsFollow
      <4>2. x \notin new
        BY <3>2, <4>1 DEF Unchecked
      <4> QED BY <2>1, <4>1, <4>2
    <3>3. CASE x \notin checked
      <4>1. PICK i \in 1 .. (IF n < Len(Arrived) THEN n + 1 ELSE n) : x = K(i)
        BY <2>1, <3>3
      <4>2. ~NobodyWants(x)
        BY <3>1 DEF NobodyWants
      <4>3. n \in 0 .. Len(Arrived) /\ (n < Len(Arrived) => NobodyWants(K(n + 1))) /\ Len(Arrived) \in Nat
        BY <1>1, DispatchFacts, ReachFacts
      <4>4. i \in 1 .. n
        <5> HIDE DEF n
        <5> QED BY <4>1, <4>2, <4>3
      <4>5. x \in new /\ q \in Targets(x)
        BY <3>1, <3>3, <4>1, <4>4 DEF Unchecked, Targets
      <4> QED BY <2>1, <4>5
    <3> QED BY <3>2, <3>3
  <2>6. PatternsFollow'
    BY <2>1, <2>5 DEF PatternsFollow
  <2> QED BY <2>4, <2>6
<1>2. CASE UNCHANGED <<aqMap, routes, patterns, checked, user, orphans, unrouted>>
  BY <1>0, <1>2 DEF RoutesFollow, PatternsFollow
<1>3. ASSUME NEW k \in Keys, DispatchThrows(k) PROVE RoutesFollow' /\ PatternsFollow'
  <2>1. PICK i \in DOMAIN Arrived : /\ NoQueueFor(i, Arrived, keyOf')
                                     /\ user' = <<"crashed", keyOf'[Arrived[i]]>>
    BY <1>3 DEF DispatchThrows
  <2>2. LockFree /\ UNCHANGED <<aqMap, routes, patterns, checked, orphans, unrouted>>
    BY <1>3 DEF DispatchThrows, Arrives
  <2>3. \E q \in orphans : keyOf'[Arrived[i]] \in patterns[q]
    BY <2>1, <2>2, MissingIsOrphan DEF NoQueueFor
  <2>4. user'[1] = "crashed" /\ user'[2] = keyOf'[Arrived[i]]
    BY <2>1
  <2>5. user[1] \notin {"removing", "closing"} /\ \A q : user # <<"removing", q>>
    BY <2>2 DEF LockFree
  <2> QED BY <1>0, <2>2, <2>3, <2>4, <2>5 DEF RoutesFollow, PatternsFollow
\* A step between the states of the user thread in which it adds and removes nothing.
<1>4. ASSUME UNCHANGED <<aqMap, routes, patterns, checked, orphans, unrouted>>,
             user[1] \in {"idle", "stopping"}, user'[1] \in {"idle", "closing"}
      PROVE  RoutesFollow' /\ PatternsFollow'
  <2>1. \A q : user # <<"removing", q>>
    BY <1>4
  <2> QED BY <1>0, <1>4, <2>1 DEF RoutesFollow, PatternsFollow
<1>4a. CASE QueueClose \/ ReaderStopped
  <2>1. UNCHANGED <<aqMap, routes, patterns, checked, orphans, unrouted>>
    BY <1>4a DEF QueueClose, ReaderStopped
  <2>2. Idle[1] = "idle" /\ <<"closing">>[1] = "closing"
    BY DEF Idle
  <2>3. CASE QueueClose
    BY <1>4, <2>1, <2>2, <2>3 DEF QueueClose
  <2>4. CASE ReaderStopped
    BY <1>4, <2>1, <2>2, <2>4 DEF ReaderStopped
  <2> QED BY <1>4a, <2>3, <2>4
<1>5. CASE QueuesClosed
  <2>1. DOMAIN routes' = {} /\ checked' = {} /\ user'[1] = "stopping" /\ UNCHANGED <<aqMap, patterns, orphans>>
    BY <1>5 DEF QueuesClosed
  <2> QED BY <1>0, <2>1 DEF RoutesFollow, PatternsFollow
<1>6. ASSUME NEW q \in QNames, CloseStop(q) PROVE RoutesFollow' /\ PatternsFollow'
  BY <1>2, <1>6 DEF CloseStop
<1>6a. ASSUME NEW q \in QNames, CloseDelete(q) PROVE RoutesFollow' /\ PatternsFollow'
  <2>1. /\ user[1] = "closing" /\ aqMap' = aqMap \ {q} /\ orphans' = orphans \cup ({q} \cap DOMAIN patterns)
        /\ UNCHANGED <<user, routes, patterns, checked, unrouted>>
    BY <1>6a DEF CloseDelete
  <2>2. RoutesFollow'
    BY <1>0, <2>1 DEF RoutesFollow
  <2>3. PatternsFollow'
    BY <1>0, <2>1 DEF PatternsFollow
  <2> QED BY <2>2, <2>3
<1>7. CASE Removed
  <2>1. user[1] = "removing" /\ user[2] \in QNames /\ user = <<"removing", user[2]>> /\ user' = Idle
    BY <1>0, <1>7, UserFacts DEF AQTypes, Removed
  <2>2. /\ user[2] \in aqMap /\ aqMap' = aqMap \ {user[2]} /\ patterns' = [r \in DOMAIN patterns \ {user[2]} |-> patterns[r]]
        /\ UNCHANGED <<routes, checked, orphans, unrouted>>
    <3>1. user[2] \in aqMap
      BY <1>0, <1>7, <2>1 DEF AQTypes, ThreadsFollow, Removed, Joined
    <3> QED BY <1>7, <3>1 DEF Removed
  <2>3. user'[1] = "idle"
    BY <2>1 DEF Idle
  <2>4. RoutesFollow'
    BY <1>0, <2>1, <2>2, <2>3 DEF RoutesFollow
  <2>5. \A q \in DOMAIN patterns' : q \in DOMAIN patterns /\ patterns'[q] = patterns[q] /\ user # <<"removing", q>>
    BY <2>1, <2>2
  <2>6. PatternsFollow'
    BY <1>0, <2>2, <2>5 DEF PatternsFollow
  <2> QED BY <2>4, <2>6
<1>8. CASE NotePattern
  <2> DEFINE q == user[2]
             p == user[3]
  <2>1. /\ user[1] = "pattern" /\ user'[1] = "idle" /\ user' = Idle /\ q \in aqMap
        /\ patterns' = [r \in DOMAIN patterns \cup {q} |-> IF r = q THEN p ELSE patterns[r]]
        /\ routes' = [x \in DOMAIN routes \cup NamesSeen(p) |-> Route(x) \cup (IF x \in NamesSeen(p) THEN {q} ELSE {})]
        /\ UNCHANGED <<aqMap, checked, orphans, unrouted>>
    BY <1>0, <1>8 DEF NotePattern, Idle, RoutesFollow
  <2> HIDE DEF q, p
  <2>2. \A x \in DOMAIN routes' : routes'[x] \subseteq aqMap
    BY <1>0, <2>1 DEF RoutesFollow, Route
  <2>3. RoutesFollow'
    BY <1>0, <2>1, <2>2 DEF RoutesFollow
  <2>4. \A x \in DOMAIN routes : x \in DOMAIN routes' /\ routes[x] \subseteq routes'[x]
    BY <2>1 DEF Route
  <2>5. \A x \in checked \cap p : x \in DOMAIN routes' /\ q \in routes'[x]
    BY <2>1 DEF NamesSeen
  <2>6. \A r : user # <<"removing", r>>
    BY <2>1
  <2>7. ASSUME NEW r \in DOMAIN patterns', NEW x \in (checked \cap patterns'[r]) \ unrouted
        PROVE  x \in DOMAIN routes' /\ r \in routes'[x]
    <3>1. CASE r = q
      BY <2>1, <2>5, <2>7, <3>1
    <3>2. CASE r # q
      <4>1. r \in DOMAIN patterns /\ x \in (checked \cap patterns[r]) \ unrouted
        BY <2>1, <2>7, <3>2
      <4>2. x \in DOMAIN routes /\ r \in routes[x]
        BY <1>0, <2>6, <2>7, <4>1 DEF PatternsFollow
      <4> QED BY <2>4, <4>2
    <3> QED BY <3>1, <3>2
  <2>8. PatternsFollow'
    BY <2>1, <2>7 DEF PatternsFollow
  <2> QED BY <2>3, <2>8
<1>9. ASSUME NEW q \in aqMap, NEW k, routes' = RoutesWith(q, k), UNCHANGED <<aqMap, patterns, checked, orphans, unrouted>>,
             user[1] \in {"idle", "route"}, user'[1] = "idle"
      PROVE  RoutesFollow' /\ PatternsFollow'
  <2>1. \A x \in DOMAIN routes' : routes'[x] \subseteq aqMap
    BY <1>0, <1>9 DEF RoutesFollow, RoutesWith, Route
  <2>2. \A x \in DOMAIN routes : x \in DOMAIN routes' /\ routes[x] \subseteq routes'[x]
    BY <1>9 DEF RoutesWith, Route
  <2>3. \A r : user # <<"removing", r>>
    BY <1>9
  <2>4. RoutesFollow'
    BY <1>0, <1>9, <2>1 DEF RoutesFollow
  <2>5. PatternsFollow'
    BY <1>0, <1>9, <2>2, <2>3 DEF PatternsFollow
  <2> QED BY <2>4, <2>5
<1>10. CASE NoteRoute
  BY <1>0, <1>9, <1>10 DEF NoteRoute, Idle, RoutesFollow
<1>11. ASSUME NEW q \in QNames, NEW k \in Keys, AddMessageRouteToActiveQueue(q, k) PROVE RoutesFollow' /\ PatternsFollow'
  BY <1>9, <1>11 DEF AddMessageRouteToActiveQueue, MayCall, Idle
<1>12. ASSUME NEW q \in QNames, NEW k \in Keys, RemoveMessageRouteToActiveQueue(q, k) PROVE RoutesFollow' /\ PatternsFollow'
  <2>1. /\ routes' = [j \in DOMAIN routes \ {k} |-> routes[j]] /\ unrouted' = unrouted \cup {k}
        /\ UNCHANGED <<aqMap, patterns, checked, user, orphans>>
    BY <1>12 DEF RemoveMessageRouteToActiveQueue
  <2> QED BY <1>0, <2>1 DEF RoutesFollow, PatternsFollow
<1>13. ASSUME NEW q \in QNames, RemoveActiveQueue(q) PROVE RoutesFollow' /\ PatternsFollow'
  <2>1. /\ routes' = WithoutQueue(q) /\ user' = <<"removing", q>> /\ user = Idle
        /\ UNCHANGED <<aqMap, patterns, checked, orphans, unrouted>>
    BY <1>13 DEF RemoveActiveQueue, MayCall
  <2>2. user'[1] = "removing" /\ user'[2] = q /\ \A r : user # <<"removing", r>>
    BY <2>1 DEF Idle
  <2>3. RoutesFollow'
    <3>1. user[1] = "idle"
      BY <2>1 DEF Idle
    <3>2. \A k \in DOMAIN routes' : routes'[k] \subseteq aqMap' /\ q \notin routes'[k]
      BY <1>0, <2>1, <3>1 DEF RoutesFollow, WithoutQueue
    <3> QED BY <1>0, <2>1, <2>2, <3>2 DEF RoutesFollow
  <2>4. \A r : user' # <<"removing", r>> => r # q
    BY <2>1
  <2>5. PatternsFollow'
    BY <1>0, <2>1, <2>2, <2>4 DEF PatternsFollow, WithoutQueue
  <2> QED BY <2>3, <2>5
<1>14. ASSUME NEW q \in QNames, NewQueue(q),
              \/ user = Idle /\ UNCHANGED user
              \/ \E p \in SUBSET Keys : user = Idle /\ user' = <<"pattern", q, p>>
              \/ \E k \in Keys : user = Idle /\ user' = <<"route", q, k>>
       PROVE  RoutesFollow' /\ PatternsFollow'
  <2>1. aqMap' = aqMap \cup {q} /\ orphans' = orphans \ {q} /\ UNCHANGED <<routes, patterns, checked, unrouted>>
    BY <1>14 DEF NewQueue
  <2>2. user = Idle /\ user[1] = "idle" /\ \A r : user # <<"removing", r>>
    BY <1>14 DEF Idle
  <2>3. CASE UNCHANGED user \/ (user'[1] \in {"pattern", "route"} /\ user'[2] = q)
    <3>1. user'[1] \in {"idle", "pattern", "route"} /\ (user'[1] \in {"pattern", "route"} => user'[2] = q)
      BY <2>2, <2>3
    <3>2. /\ orphans' \subseteq DOMAIN patterns' /\ DOMAIN patterns' \subseteq aqMap' \cup orphans'
          /\ orphans' \cap aqMap' = {}
          /\ \A k \in DOMAIN routes' : routes'[k] \subseteq aqMap'
      BY <1>0, <2>1, <2>2 DEF RoutesFollow
    <3>3. RoutesFollow'
      BY <2>1, <3>1, <3>2 DEF RoutesFollow
    <3>4. PatternsFollow'
      BY <1>0, <2>1, <2>2 DEF PatternsFollow
    <3> QED BY <3>3, <3>4
  <2> QED BY <1>14, <2>3
<1>15. CASE QueueFetch \/ QueueRun \/ (\E q \in QNames : Take(q) \/ Return(q)) \/ UNCHANGED aqVars
  BY <1>2, <1>15 DEF QueueFetch, QueueRun, Take, Return, aqVars
<1> QED
  BY <1>1, <1>3, <1>4a, <1>5, <1>6, <1>6a, <1>7, <1>8, <1>10, <1>11, <1>12, <1>13, <1>14, <1>15, AQCases

-----------------------------------------------------------------------------
(* The order of the work                                                   *)

\* A dispatch parts the inbox: a message stays, or goes to queues, and none that goes to a queue
\* overtakes one of its name that stays.
LEMMA DispatchParts ==
    ASSUME AQInv, NEW k \in Keys, ReceiveMail(k)
    PROVE  /\ LeftIn(Arrived, keyOf') \subseteq ToSet(Arrived)
           /\ \A q \in QNames : PushedTo(q, Arrived, keyOf') \subseteq ToSet(Arrived)
           /\ \A a \in ToSet(Arrived) : a \in LeftIn(Arrived, keyOf')
                                         <=> ~\E q \in QNames : a \in PushedTo(q, Arrived, keyOf')
           /\ \A q \in QNames : AllInTurn(keyOf', PushedTo(q, Arrived, keyOf'), LeftIn(Arrived, keyOf'))
<1> DEFINE box == Arrived
           key == keyOf'
           n == Reach(Arrived, keyOf')
           left == LeftIn(Arrived, keyOf')
           pushed(q) == PushedTo(q, Arrived, keyOf')
<1>1. box \in Seq(Nat) /\ Increasing(box)
  BY DispatchFacts
<1>2. n \in 0 .. Len(box) /\ Len(box) \in Nat
  BY <1>1, ReachFacts
<1>3. /\ ToSet(box) = {box[i] : i \in 1 .. Len(box)}
      /\ \A a : a \in left <=> \E j \in 1 .. Len(box) : a = box[j] /\ (j > n \/ Targets(key[box[j]]) = {})
      /\ \A q : \A a : a \in pushed(q) <=> \E i \in 1 .. n : a = box[i] /\ q \in Targets(key[box[i]])
  <2>1. DOMAIN box = 1 .. Len(box)
    BY <1>1
  <2>2. ToSet(box) = {box[i] : i \in 1 .. Len(box)}
    BY <2>1 DEF ToSet
  <2>3. left = {box[i] : i \in {j \in 1 .. Len(box) : j > n \/ Targets(key[box[j]]) = {}}}
    BY <2>1 DEF LeftIn, StaysInBox
  <2>4. \A q : pushed(q) = {box[i] : i \in {j \in 1 .. n : q \in Targets(key[box[j]])}}
    BY DEF PushedTo
  <2> HIDE DEF box, key, n, left, pushed
  <2> QED BY <2>2, <2>3, <2>4
<1>4. \A i \in 1 .. n : Targets(key[box[i]]) \subseteq QNames
  BY ReceiversExist DEF AQInv, AQControl, AQTypes
<1> HIDE DEF box, key, n, left, pushed
<1>5. \A i, j \in 1 .. Len(box) : /\ box[i] \in Nat /\ (i < j => box[i] < box[j])
                                  /\ box[i] = box[j] => i = j
  <2>1. \A i \in 1 .. Len(box) : box[i] \in Nat
    BY <1>1
  <2>2. \A i, j \in 1 .. Len(box) : i < j => box[i] < box[j]
    BY <1>1 DEF Increasing
  <2>3. \A i, j \in 1 .. Len(box) : i < j \/ j < i \/ i = j
    BY <1>2
  <2> QED BY <2>1, <2>2, <2>3
<1>6. \A i \in 1 .. n : i \in 1 .. Len(box)
  BY <1>2
<1>7. left \subseteq ToSet(box) /\ \A q \in QNames : pushed(q) \subseteq ToSet(box)
  BY <1>3, <1>6
<1>8. ASSUME NEW a \in ToSet(box) PROVE a \in left <=> ~\E q \in QNames : a \in pushed(q)
  <2>1. PICK i \in 1 .. Len(box) : a = box[i]
    BY <1>3
  <2>2. a \in left <=> (i > n \/ Targets(key[box[i]]) = {})
    <3>1. \A j \in 1 .. Len(box) : a = box[j] => j = i
      BY <1>5, <2>1
    <3>2. a \in left <=> \E j \in 1 .. Len(box) : a = box[j] /\ (j > n \/ Targets(key[box[j]]) = {})
      BY <1>3
    <3> QED BY <2>1, <3>1, <3>2
  <2>3. \A q : a \in pushed(q) <=> i \in 1 .. n /\ q \in Targets(key[box[i]])
    BY <1>3, <1>5, <1>6, <2>1
  <2>4. i \in 1 .. n <=> ~(i > n)
    BY <1>2
  <2> QED BY <1>4, <2>2, <2>3, <2>4
<1>9. ASSUME NEW q \in QNames, NEW a \in pushed(q), NEW b \in left PROVE InTurn(key, a, b)
  <2>1. PICK i \in 1 .. n : a = box[i] /\ q \in Targets(key[box[i]])
    BY <1>3
  <2>2. PICK j \in 1 .. Len(box) : b = box[j] /\ (j > n \/ Targets(key[box[j]]) = {})
    BY <1>3
  <2>3. i \in 1 .. Len(box)
    BY <1>6
  <2>4. a # b
    <3>1. a = b => i = j
      BY <1>5, <2>1, <2>2, <2>3
    <3>2. ~(i > n)
      BY <1>2
    <3> QED BY <2>1, <2>2, <3>1, <3>2
  <2>5. ASSUME key[a] = key[b] PROVE a < b
    <3>1. j > n
      BY <2>1, <2>2, <2>5
    <3>2. i < j
      BY <1>2, <3>1
    <3> QED BY <1>5, <2>1, <2>2, <2>3, <3>2
  <2> QED BY <2>4, <2>5 DEF InTurn
<1>10. \A q \in QNames : AllInTurn(key, pushed(q), left)
  BY <1>9 DEF AllInTurn
<1> QED BY <1>7, <1>8, <1>10 DEF box, key, left, pushed

LEMMA WorkStep ==
    ASSUME AQInv, [AQNext]_aqVars
    PROVE  WorkInTurn'
<1>0. AQTypes /\ ThreadsFollow /\ WorkInTurn
  BY DEF AQInv, AQControl
<1>1. /\ inbox \in Seq(Nat) /\ keyOf \in Seq(Keys)
      /\ \A q \in QNames : /\ handled[q] \in Seq(Nat) /\ aqNow[q] \in Nat /\ aqItems[q] \in Seq(Nat)
                           /\ QueueInTurn(keyOf, handled[q], aqNow[q], aqItems[q], inbox)
  BY <1>0 DEF AQTypes, WorkInTurn
<1>2. ASSUME NEW k \in Keys, ReceiveMail(k) PROVE WorkInTurn'
  <2>1. /\ UNCHANGED <<handled, aqNow>> /\ keyOf' = Append(keyOf, k)
        /\ inbox' \in Seq(Nat) /\ Increasing(inbox') /\ ToSet(inbox') = LeftIn(Arrived, keyOf')
        /\ Arrived \in Seq(Nat) /\ ToSet(Arrived) = ToSet(inbox) \cup {Len(keyOf) + 1}
    BY <1>2, DispatchFacts DEF ReceiveMail
  <2>2. 0 \notin ToSet(inbox')
    <3>1. Len(keyOf) + 1 # 0
      BY <1>1
    <3> QED BY <1>0, <1>2, <2>1, <3>1, DispatchParts DEF WorkInTurn
  <2>3. ASSUME NEW q \in QNames PROVE QueueInTurn(keyOf', handled'[q], aqNow'[q], aqItems'[q], inbox')
    <3> DEFINE more == Sifted(Arrived, PushedTo(q, Arrived, keyOf'))
    <3>1. more \in Seq(Nat) /\ Increasing(more) /\ ToSet(more) = PushedTo(q, Arrived, keyOf') /\ aqItems'[q] = aqItems[q] \o more
      BY <1>2, DispatchFacts
    <3> HIDE DEF more
    <3>2. QueueInTurn(keyOf', handled[q], aqNow[q], aqItems[q], Arrived)
      BY <1>2, ArrivalFacts DEF ReceiveMail
    <3>3. ToSet(more) \subseteq ToSet(Arrived) /\ ToSet(inbox') \subseteq ToSet(Arrived) /\ AllInTurn(keyOf', ToSet(more), ToSet(inbox'))
      BY <1>2, <2>1, <3>1, DispatchParts
    <3>4. QueueInTurn(keyOf', handled[q], aqNow[q], aqItems[q] \o more, inbox')
      BY <1>1, <2>1, <3>1, <3>2, <3>3, QueuePush
    <3> QED BY <2>1, <3>1, <3>4
  <2> QED BY <2>1, <2>2, <2>3 DEF WorkInTurn
<1>2a. ASSUME NEW k \in Keys, DispatchThrows(k) PROVE WorkInTurn'
  <2>1. inbox' = Arrived /\ UNCHANGED <<handled, aqNow, aqItems>>
    BY <1>2a DEF DispatchThrows
  <2>2. /\ Increasing(Arrived) /\ ToSet(Arrived) = ToSet(inbox) \cup {Len(keyOf) + 1}
        /\ \A q \in QNames : QueueInTurn(keyOf', handled[q], aqNow[q], aqItems[q], Arrived)
    BY <1>2a, ArrivalFacts DEF DispatchThrows
  <2>3. Len(keyOf) + 1 # 0
    BY <1>1
  <2> QED BY <1>0, <2>1, <2>2, <2>3 DEF WorkInTurn
<1>3. CASE UNCHANGED <<handled, aqNow, aqItems, inbox, keyOf>>
  BY <1>0, <1>3 DEF WorkInTurn
<1>4. CASE QueueFetch \/ QueueClose
  <2>1. inbox' = <<>> /\ UNCHANGED <<handled, aqNow, aqItems, keyOf>>
    BY <1>4 DEF QueueFetch, QueueClose
  <2>2. Increasing(<<>>) /\ ToSet(<<>>) = {}
    BY DEF Increasing, ToSet
  <2>3. \A q \in QNames : QueueInTurn(keyOf, handled[q], aqNow[q], aqItems[q], <<>>)
    BY <1>1, QueueSteps
  <2> QED BY <2>1, <2>2, <2>3 DEF WorkInTurn
\* A step of one queue.
<1>5. ASSUME NEW q \in QNames, UNCHANGED <<inbox, keyOf>>,
             \A r \in QNames \ {q} : handled'[r] = handled[r] /\ aqNow'[r] = aqNow[r] /\ aqItems'[r] = aqItems[r],
             QueueInTurn(keyOf, handled'[q], aqNow'[q], aqItems'[q], inbox)
      PROVE  WorkInTurn'
  <2>1. \A r \in QNames : QueueInTurn(keyOf, handled'[r], aqNow'[r], aqItems'[r], inbox)
    BY <1>1, <1>5
  <2> QED BY <1>0, <1>5, <2>1 DEF WorkInTurn
<1>6. ASSUME NEW q \in QNames, aqItems' = [aqItems EXCEPT ![q] = <<>>], UNCHANGED <<handled, aqNow, inbox, keyOf>>
      PROVE  WorkInTurn'
  <2>1. aqItems'[q] = <<>> /\ \A r \in QNames \ {q} : aqItems'[r] = aqItems[r]
    BY <1>0, <1>6 DEF AQTypes
  <2>2. QueueInTurn(keyOf, handled[q], aqNow[q], <<>>, inbox)
    BY <1>1, QueueSteps
  <2> QED BY <1>5, <1>6, <2>1, <2>2
<1>7. CASE Removed
  <2>1. user[2] \in QNames
    BY <1>0, <1>7, UserFacts DEF AQTypes, Removed
  <2> QED BY <1>6, <1>7, <2>1 DEF Removed
<1>8. ASSUME NEW q \in QNames, NewQueue(q) \/ CloseDelete(q) PROVE WorkInTurn'
  BY <1>6, <1>8 DEF NewQueue, CloseDelete
<1>9. ASSUME NEW q \in QNames, RemoveActiveQueue(q) \/ CloseStop(q) PROVE WorkInTurn'
  <2>1. aqItems' = [aqItems EXCEPT ![q] = Append(@, 0)] /\ UNCHANGED <<handled, aqNow, inbox, keyOf>>
    BY <1>9 DEF RemoveActiveQueue, CloseStop, StopQueue, Terminate
  <2>2. aqItems'[q] = Append(aqItems[q], 0) /\ \A r \in QNames \ {q} : aqItems'[r] = aqItems[r]
    BY <1>0, <2>1 DEF AQTypes
  <2>3. QueueInTurn(keyOf, handled[q], aqNow[q], Append(aqItems[q], 0), inbox)
    BY <1>1, QueueSteps
  <2> QED BY <1>5, <2>1, <2>2, <2>3
<1>10. ASSUME NEW q \in QNames, Take(q) PROVE WorkInTurn'
  <2>1. /\ aqItems[q] # <<>> /\ aqItems' = [aqItems EXCEPT ![q] = Tail(@)] /\ UNCHANGED <<handled, inbox, keyOf>>
        /\ UNCHANGED aqNow \/ aqNow' = [aqNow EXCEPT ![q] = Head(aqItems[q])]
    BY <1>10 DEF Take
  <2>2. /\ aqItems'[q] = Tail(aqItems[q]) /\ aqNow'[q] \in {aqNow[q], Head(aqItems[q])}
        /\ \A r \in QNames \ {q} : aqItems'[r] = aqItems[r] /\ aqNow'[r] = aqNow[r]
    BY <1>0, <2>1 DEF AQTypes
  <2>3. /\ QueueInTurn(keyOf, handled[q], aqNow[q], Tail(aqItems[q]), inbox)
        /\ QueueInTurn(keyOf, handled[q], Head(aqItems[q]), Tail(aqItems[q]), inbox)
    BY <1>1, <2>1, QueueSteps
  <2> QED BY <1>5, <2>1, <2>2, <2>3
<1>11. ASSUME NEW q \in QNames, Return(q) PROVE WorkInTurn'
  <2>1. /\ handled' = [handled EXCEPT ![q] = Append(@, aqNow[q])] /\ aqNow' = [aqNow EXCEPT ![q] = 0]
        /\ UNCHANGED <<aqItems, inbox, keyOf>>
    BY <1>11 DEF Return, NoMessage
  <2>2. /\ handled'[q] = Append(handled[q], aqNow[q]) /\ aqNow'[q] = 0
        /\ \A r \in QNames \ {q} : handled'[r] = handled[r] /\ aqNow'[r] = aqNow[r]
    BY <1>0, <2>1 DEF AQTypes
  <2>3. QueueInTurn(keyOf, Append(handled[q], aqNow[q]), 0, aqItems[q], inbox)
    BY <1>1, QueueSteps
  <2> QED BY <1>5, <2>1, <2>2, <2>3
<1>12. CASE QueueRun \/ QueuesClosed \/ ReaderStopped \/ NotePattern \/ NoteRoute \/ UNCHANGED aqVars
  BY <1>3, <1>12 DEF QueueRun, QueuesClosed, ReaderStopped, NotePattern, NoteRoute, aqVars
<1>13. ASSUME NEW q \in QNames, NEW k \in Keys,
              AddMessageRouteToActiveQueue(q, k) \/ RemoveMessageRouteToActiveQueue(q, k)
       PROVE  WorkInTurn'
  BY <1>3, <1>13 DEF AddMessageRouteToActiveQueue, RemoveMessageRouteToActiveQueue
<1> QED BY <1>2, <1>2a, <1>4, <1>7, <1>8, <1>9, <1>10, <1>11, <1>12, <1>13, AQCases

LEMMA HandledStep ==
    ASSUME AQInv, [AQNext]_aqVars
    PROVE  OnlyMailIsHandled'
<1>0. AQTypes /\ ThreadsFollow /\ OnlyMailIsHandled
  BY DEF AQInv, AQControl
<1>1. ASSUME NEW q \in QNames, Return(q) PROVE OnlyMailIsHandled'
  <2>1. aqThread[q] = "callback" /\ handled' = [handled EXCEPT ![q] = Append(@, aqNow[q])]
    BY <1>1 DEF Return
  <2>2. handled[q] \in Seq(Nat) /\ aqNow[q] \in Nat /\ aqNow[q] # 0
    BY <1>0, <2>1 DEF AQTypes, ThreadsFollow, NoMessage
  <2>3. handled'[q] = Append(handled[q], aqNow[q]) /\ \A r \in QNames \ {q} : handled'[r] = handled[r]
    BY <1>0, <2>1 DEF AQTypes
  <2>4. ToSet(handled'[q]) = ToSet(handled[q]) \cup {aqNow[q]}
    BY <2>2, <2>3, ToSetFacts
  <2> QED BY <1>0, <2>2, <2>3, <2>4 DEF OnlyMailIsHandled
<1>2. CASE handled' = handled
  BY <1>0, <1>2 DEF OnlyMailIsHandled
<1>3. (\E q \in QNames : Return(q)) \/ handled' = handled
  BY AQCases DEF ReceiveMail, DispatchThrows, QueueFetch, QueueRun, QueueClose, QueuesClosed, ReaderStopped, Removed, NotePattern, NoteRoute, NewQueue,
                 AddMessageRouteToActiveQueue, RemoveMessageRouteToActiveQueue, RemoveActiveQueue,
                 CloseStop, CloseDelete, Take, aqVars
<1> QED BY <1>1, <1>2, <1>3

-----------------------------------------------------------------------------
(* Each message in one place                                               *)

LEMMA PlaceStep ==
    ASSUME AQInv, [AQNext]_aqVars
    PROVE  EachInOnePlace'
<1>0. AQTypes /\ ThreadsFollow /\ EachInOnePlace
  BY DEF AQInv, AQControl
<1>1. /\ inbox \in Seq(Nat) /\ fetched \in Seq(Nat) /\ keyOf \in Seq(Keys) /\ Len(keyOf) \in Nat
      /\ \A q \in QNames : handled[q] \in Seq(Nat) /\ aqNow[q] \in Nat /\ aqItems[q] \in Seq(Nat)
  BY <1>0 DEF AQTypes
<1>2. ASSUME NEW k \in Keys, ReceiveMail(k) PROVE EachInOnePlace'
  <2> SUFFICES ASSUME NEW m \in Nat \ {0}
               PROVE  /\ m \in 1 .. Len(keyOf') <=> InBox(m)' \/ WithUser(m)' \/ InQueue(m)'
                      /\ ~(InBox(m)' /\ WithUser(m)') /\ ~(InBox(m)' /\ InQueue(m)') /\ ~(WithUser(m)' /\ InQueue(m)')
    BY DEF EachInOnePlace
  <2> DEFINE pushed == \E q \in QNames : m \in PushedTo(q, Arrived, keyOf')
  <2>1. /\ UNCHANGED <<handled, aqNow, fetched, gone>> /\ Len(keyOf') = Len(keyOf) + 1
        /\ ToSet(inbox') = LeftIn(Arrived, keyOf') /\ ToSet(Arrived) = ToSet(inbox) \cup {Len(keyOf) + 1}
    <3>1. keyOf' = Append(keyOf, k)
      BY <1>2, DispatchFacts
    <3>2. Len(keyOf') = Len(keyOf) + 1
      BY <1>1, <3>1
    <3> QED BY <1>2, <3>2, DispatchFacts DEF ReceiveMail
  <2>2. \A q \in QNames : ToSet(aqItems'[q]) = ToSet(aqItems[q]) \cup PushedTo(q, Arrived, keyOf')
    <3> TAKE q \in QNames
    <3> DEFINE more == Sifted(Arrived, PushedTo(q, Arrived, keyOf'))
    <3>1. more \in Seq(Nat) /\ ToSet(more) = PushedTo(q, Arrived, keyOf') /\ aqItems'[q] = aqItems[q] \o more
      BY <1>2, DispatchFacts
    <3> HIDE DEF more
    <3> QED BY <1>1, <3>1, ToSetFacts
  <2>3. (InQueue(m)' <=> InQueue(m) \/ pushed) /\ (WithUser(m)' <=> WithUser(m))
    BY <2>1, <2>2 DEF InQueue, WithUser
  <2>4. /\ InBox(m)' \/ pushed <=> InBox(m) \/ m = Len(keyOf) + 1
        /\ ~(InBox(m)' /\ pushed)
    BY <1>2, <2>1, DispatchParts DEF InBox
  <2>5. m \in 1 .. Len(keyOf') <=> m \in 1 .. Len(keyOf) \/ m = Len(keyOf) + 1
    BY <1>1, <2>1
  <2>6. m = Len(keyOf) + 1 => m \notin 1 .. Len(keyOf)
    BY <1>1
  <2>7. /\ m \in 1 .. Len(keyOf) <=> InBox(m) \/ WithUser(m) \/ InQueue(m)
        /\ ~(InBox(m) /\ WithUser(m)) /\ ~(InBox(m) /\ InQueue(m)) /\ ~(WithUser(m) /\ InQueue(m))
    BY <1>0 DEF EachInOnePlace
  <2> HIDE DEF pushed
  <2> QED BY <2>3, <2>4, <2>5, <2>6, <2>7
<1>2a. ASSUME NEW k \in Keys, DispatchThrows(k) PROVE EachInOnePlace'
  <2>1. /\ UNCHANGED <<handled, aqNow, aqItems, fetched, gone>> /\ Len(keyOf') = Len(keyOf) + 1
        /\ ToSet(inbox') = ToSet(inbox) \cup {Len(keyOf) + 1}
    BY <1>2a, ArrivalFacts DEF DispatchThrows
  <2>2. \A m : /\ InBox(m)' <=> InBox(m) \/ m = Len(keyOf) + 1
               /\ (WithUser(m)' <=> WithUser(m)) /\ (InQueue(m)' <=> InQueue(m))
    BY <2>1 DEF InBox, WithUser, InQueue
  <2> SUFFICES ASSUME NEW m \in Nat \ {0}
               PROVE  /\ m \in 1 .. Len(keyOf') <=> InBox(m)' \/ WithUser(m)' \/ InQueue(m)'
                      /\ ~(InBox(m)' /\ WithUser(m)') /\ ~(InBox(m)' /\ InQueue(m)') /\ ~(WithUser(m)' /\ InQueue(m)')
    BY DEF EachInOnePlace
  <2>4. /\ m \in 1 .. Len(keyOf) <=> InBox(m) \/ WithUser(m) \/ InQueue(m)
        /\ ~(InBox(m) /\ WithUser(m)) /\ ~(InBox(m) /\ InQueue(m)) /\ ~(WithUser(m) /\ InQueue(m))
    BY <1>0 DEF EachInOnePlace
  <2>5. m \in 1 .. Len(keyOf') <=> m \in 1 .. Len(keyOf) \/ m = Len(keyOf) + 1
    BY <1>1, <2>1
  <2>6. m = Len(keyOf) + 1 => m \notin 1 .. Len(keyOf)
    BY <1>1
  <2> QED BY <2>2, <2>4, <2>5, <2>6
\* A step that moves messages from a place to the same place.
<1>3. ASSUME UNCHANGED keyOf, \A m \in Nat \ {0} : (InBox(m)' <=> InBox(m)) /\ (WithUser(m)' <=> WithUser(m)) /\ (InQueue(m)' <=> InQueue(m))
      PROVE  EachInOnePlace'
  BY <1>0, <1>3 DEF EachInOnePlace
<1>4. CASE QueueFetch \/ QueueClose
  <2>1. inbox' = <<>> /\ fetched' = fetched \o inbox /\ UNCHANGED <<handled, aqNow, aqItems, gone, keyOf>>
    BY <1>4 DEF QueueFetch, QueueClose
  <2>2. ToSet(inbox') = {} /\ ToSet(fetched') = ToSet(fetched) \cup ToSet(inbox)
    BY <1>1, <2>1, ToSetFacts
  <2>3. \A m : ~InBox(m)' /\ (WithUser(m)' <=> WithUser(m) \/ InBox(m)) /\ (InQueue(m)' <=> InQueue(m))
    BY <2>1, <2>2 DEF InBox, WithUser, InQueue
  <2> QED BY <1>0, <2>1, <2>3 DEF EachInOnePlace
<1>5. CASE UNCHANGED <<handled, aqNow, aqItems, inbox, keyOf, fetched, gone>>
  BY <1>3, <1>5 DEF InBox, WithUser, InQueue
\* A step of one queue, to which nothing comes and which loses nothing but 0.
<1>6. ASSUME NEW q \in QNames, UNCHANGED <<inbox, keyOf, fetched>>,
             \A r \in QNames \ {q} : handled'[r] = handled[r] /\ aqNow'[r] = aqNow[r] /\ aqItems'[r] = aqItems[r],
             (gone \cup ToSet(handled[q]) \cup ToSet(aqItems[q]) \cup {aqNow[q]} \cup {0})
                = (gone' \cup ToSet(handled'[q]) \cup ToSet(aqItems'[q]) \cup {aqNow'[q]} \cup {0})
      PROVE  EachInOnePlace'
  <2>1. \A m \in Nat \ {0} :
          /\ InQueue(m) <=> \/ m \in gone \cup ToSet(handled[q]) \cup ToSet(aqItems[q]) \cup {aqNow[q]} \cup {0}
                            \/ \E r \in QNames \ {q} : m \in ToSet(handled[r]) \/ m \in ToSet(aqItems[r]) \/ m = aqNow[r]
          /\ InQueue(m)' <=> \/ m \in gone' \cup ToSet(handled'[q]) \cup ToSet(aqItems'[q]) \cup {aqNow'[q]} \cup {0}
                             \/ \E r \in QNames \ {q} : m \in ToSet(handled'[r]) \/ m \in ToSet(aqItems'[r]) \/ m = aqNow'[r]
    BY DEF InQueue
  <2>2. \A m \in Nat \ {0} : InQueue(m)' <=> InQueue(m)
    BY <1>6, <2>1
  <2> QED BY <1>3, <1>6, <2>2 DEF InBox, WithUser
<1>7. ASSUME NEW q \in QNames, gone' = Gone(q), aqItems' = [aqItems EXCEPT ![q] = <<>>], Joined(q),
             UNCHANGED <<handled, aqNow, inbox, keyOf, fetched>>
      PROVE  EachInOnePlace'
  <2>1. aqItems'[q] = <<>> /\ \A r \in QNames \ {q} : aqItems'[r] = aqItems[r]
    BY <1>0, <1>7 DEF AQTypes
  <2>2. ToSet(aqItems'[q]) = {} /\ gone' = gone \cup ToSet(aqItems[q]) \cup {aqNow[q]}
    BY <1>1, <1>7, <2>1, ToSetFacts DEF Gone
  <2> QED BY <1>6, <1>7, <2>1, <2>2
<1>8. CASE Removed
  <2>1. user[2] \in QNames
    BY <1>0, <1>8, UserFacts DEF AQTypes, Removed
  <2> QED BY <1>7, <1>8, <2>1 DEF Removed
<1>9. ASSUME NEW q \in QNames, CloseDelete(q) PROVE EachInOnePlace'
  BY <1>7, <1>9 DEF CloseDelete
<1>10. ASSUME NEW q \in QNames, NewQueue(q) PROVE EachInOnePlace'
  <2>1. aqItems' = aqItems
    BY <1>0, <1>10 DEF NewQueue, AQTypes, ThreadsFollow
  <2> QED BY <1>5, <1>10, <2>1 DEF NewQueue
<1>11. ASSUME NEW q \in QNames, RemoveActiveQueue(q) \/ CloseStop(q) PROVE EachInOnePlace'
  <2>1. aqItems' = [aqItems EXCEPT ![q] = Append(@, 0)] /\ UNCHANGED <<handled, aqNow, inbox, keyOf, fetched, gone>>
    BY <1>11 DEF RemoveActiveQueue, CloseStop, StopQueue, Terminate
  <2>2. aqItems'[q] = Append(aqItems[q], 0) /\ \A r \in QNames \ {q} : aqItems'[r] = aqItems[r]
    BY <1>0, <2>1 DEF AQTypes
  <2>3. ToSet(aqItems'[q]) = ToSet(aqItems[q]) \cup {0}
    <3>1. aqItems[q] \in Seq(Nat) /\ 0 \in Nat
      BY <1>0 DEF AQTypes
    <3> QED BY <2>2, <3>1, ToSetFacts
  <2> QED BY <1>6, <2>1, <2>2, <2>3
<1>12. ASSUME NEW q \in QNames, Take(q) PROVE EachInOnePlace'
  <2>1. /\ aqThread[q] = "waiting" /\ aqItems[q] # <<>> /\ aqItems' = [aqItems EXCEPT ![q] = Tail(@)]
        /\ UNCHANGED <<handled, inbox, keyOf, fetched, gone>>
        /\ \/ UNCHANGED aqNow /\ Head(aqItems[q]) = 0
           \/ aqNow' = [aqNow EXCEPT ![q] = Head(aqItems[q])]
    BY <1>12 DEF Take, Terminate
  <2>2. /\ aqItems'[q] = Tail(aqItems[q])
        /\ \A r \in QNames \ {q} : aqItems'[r] = aqItems[r] /\ aqNow'[r] = aqNow[r]
        /\ aqNow'[q] = Head(aqItems[q]) \/ (aqNow'[q] = aqNow[q] /\ Head(aqItems[q]) = 0)
    BY <1>0, <2>1 DEF AQTypes
  <2>3. aqNow[q] = 0
    BY <1>0, <2>1 DEF ThreadsFollow, NoMessage
  <2>4. ToSet(aqItems[q]) = {Head(aqItems[q])} \cup ToSet(Tail(aqItems[q]))
    BY <1>1, <2>1, ToSetFacts
  <2>5. UNCHANGED <<inbox, keyOf, fetched>> /\ \A r \in QNames \ {q} : handled'[r] = handled[r] /\ aqNow'[r] = aqNow[r] /\ aqItems'[r] = aqItems[r]
    BY <2>1, <2>2
  <2>6. (gone \cup ToSet(handled[q]) \cup ToSet(aqItems[q]) \cup {aqNow[q]} \cup {0})
                = (gone' \cup ToSet(handled'[q]) \cup ToSet(aqItems'[q]) \cup {aqNow'[q]} \cup {0})
    BY <2>1, <2>2, <2>3, <2>4
  <2> QED BY <1>6, <2>5, <2>6
<1>13. ASSUME NEW q \in QNames, Return(q) PROVE EachInOnePlace'
  <2>1. /\ handled' = [handled EXCEPT ![q] = Append(@, aqNow[q])] /\ aqNow' = [aqNow EXCEPT ![q] = 0]
        /\ UNCHANGED <<aqItems, inbox, keyOf, fetched, gone>>
    BY <1>13 DEF Return, NoMessage
  <2>2. /\ handled'[q] = Append(handled[q], aqNow[q]) /\ aqNow'[q] = 0
        /\ \A r \in QNames \ {q} : handled'[r] = handled[r] /\ aqNow'[r] = aqNow[r]
    BY <1>0, <2>1 DEF AQTypes
  <2>3. ToSet(handled'[q]) = ToSet(handled[q]) \cup {aqNow[q]}
    BY <1>1, <2>2, ToSetFacts
  <2> QED BY <1>6, <2>1, <2>2, <2>3
<1>14. CASE QueueRun \/ QueuesClosed \/ ReaderStopped \/ NotePattern \/ NoteRoute \/ UNCHANGED aqVars
  BY <1>5, <1>14 DEF QueueRun, QueuesClosed, ReaderStopped, NotePattern, NoteRoute, aqVars
<1>15. ASSUME NEW q \in QNames, NEW k \in Keys,
              AddMessageRouteToActiveQueue(q, k) \/ RemoveMessageRouteToActiveQueue(q, k)
       PROVE  EachInOnePlace'
  BY <1>5, <1>15 DEF AddMessageRouteToActiveQueue, RemoveMessageRouteToActiveQueue
<1> QED BY <1>2, <1>2a, <1>4, <1>8, <1>9, <1>10, <1>11, <1>12, <1>13, <1>14, <1>15, AQCases

-----------------------------------------------------------------------------
\* Of three places a message is in one.
LEMMA OnePlace ==
    ASSUME AQInv PROVE EachMessageOnce
<1> SUFFICES ASSUME NEW m \in DOMAIN keyOf
             PROVE  Cardinality({w \in {"box", "user", "queue"} :
                        \/ w = "box" /\ m \in ToSet(inbox)
                        \/ w = "user" /\ m \in ToSet(fetched)
                        \/ w = "queue" /\ m \in WithQueues}) = 1
  BY DEF EachMessageOnce
<1> DEFINE places == {w \in {"box", "user", "queue"} :
                        \/ w = "box" /\ m \in ToSet(inbox)
                        \/ w = "user" /\ m \in ToSet(fetched)
                        \/ w = "queue" /\ m \in WithQueues}
<1>1. keyOf \in Seq(Keys)
  BY DEF AQInv, AQControl, AQTypes
<1>2. m \in Nat \ {0} /\ m \in 1 .. Len(keyOf)
  BY <1>1
<1>3. m \in WithQueues <=> InQueue(m)
  BY DEF WithQueues, InQueue
<1>4. \/ InBox(m) /\ ~WithUser(m) /\ ~InQueue(m)
      \/ ~InBox(m) /\ WithUser(m) /\ ~InQueue(m)
      \/ ~InBox(m) /\ ~WithUser(m) /\ InQueue(m)
  BY <1>2 DEF AQInv, EachInOnePlace
<1>5. places = {"box"} \/ places = {"user"} \/ places = {"queue"}
  BY <1>3, <1>4 DEF InBox, WithUser
<1> HIDE DEF places
<1>6. Cardinality({"box"}) = 1 /\ Cardinality({"user"}) = 1 /\ Cardinality({"queue"}) = 1
  BY FS_Singleton
<1>7. Cardinality(places) = 1
  BY <1>5, <1>6
<1> QED BY <1>7 DEF places

(* For any number of queues and names, and whatever the user thread adds, routes, removes and
   fetches while the client thread dispatches, over any number of times that the client is closed
   and run again: a route leads to a queue; the dispatch looks in vain, and so throws, only for a
   queue that Close deleted and whose pattern it left; a queue works through the messages of a name
   in the order in which they arrived and sees none twice; each message is in the inbox, with the
   user or with the queues, and in one of them only; a wildcard queue is sent every name it matches
   that has been seen, unless the route of the name was removed; and no callback runs once its
   queue is gone. *)
THEOREM QueuesAreRight == AQSpec => []QueuesAreFaithful
<1>1. AQInit => AQInv
  BY TypesStart
<1>2. AQInv /\ [AQNext]_aqVars => AQInv'
  BY TypesStep, ThreadsStep, RoutesStep, WorkStep, HandledStep, PlaceStep DEF AQInv, AQControl
<1>3. AQInv => QueuesAreFaithful
  <2> SUFFICES ASSUME AQInv PROVE QueuesAreFaithful
    OBVIOUS
  <2>1. RoutesHaveQueues
    BY DEF AQInv, AQControl, RoutesFollow, RoutesHaveQueues, LockFree, Crashed
  <2>2. QueueKeepsOrder
    <3> SUFFICES ASSUME NEW q \in QNames, NEW i \in DOMAIN handled[q], NEW j \in DOMAIN handled[q], i < j
                 PROVE  /\ handled[q][i] # handled[q][j]
                        /\ keyOf[handled[q][i]] = keyOf[handled[q][j]] => handled[q][i] < handled[q][j]
      BY DEF QueueKeepsOrder
    <3>1. handled[q] \in Seq(Nat) /\ SeqInTurn(keyOf, handled[q])
      BY DEF AQInv, AQControl, AQTypes, WorkInTurn, QueueInTurn
    <3>2. InTurn(keyOf, handled[q][i], handled[q][j])
      BY <3>1 DEF SeqInTurn
    <3>3. handled[q][i] # 0 /\ handled[q][j] # 0
      <4>1. handled[q][i] \in ToSet(handled[q]) /\ handled[q][j] \in ToSet(handled[q])
        BY <3>1 DEF ToSet
      <4> QED BY <4>1 DEF AQInv, OnlyMailIsHandled
    <3> QED BY <3>2, <3>3 DEF InTurn
  <2>3. WildcardsAreRouted
    <3> SUFFICES ASSUME NEW q \in DOMAIN patterns, LockFree, NEW k \in (checked \cap patterns[q]) \ unrouted
                 PROVE  q \in Targets(k)
      BY DEF WildcardsAreRouted
    <3>1. user # <<"removing", q>>
      BY DEF LockFree
    <3>2. k \in DOMAIN routes /\ q \in routes[k]
      BY <3>1 DEF AQInv, AQControl, PatternsFollow
    <3> QED BY <3>2 DEF Targets, Route
  <2>4. NoCallbackAfterRemove
    BY DEF AQInv, AQControl, ThreadsFollow, NoCallbackAfterRemove
  <2> QED BY <2>1, <2>2, <2>3, <2>4, OnePlace DEF QueuesAreFaithful
<1> QED BY <1>1, <1>2, <1>3, PTL DEF AQSpec

-----------------------------------------------------------------------------
(* The synchronous client                                                  *)

Messages == {Request} \cup {<<"post", n>> : n \in Nat} \cup {Registration(s) : s \in Subs}

SCTypes ==
    /\ loopPc \in {"none", "connect", "hook", "apply", "work", "tick", "ended"}
    /\ userPc \in {"idle", "flush", "request", "poll", "pollAgain", "join"}
    /\ ex \in [Threads -> {"none", "send", "read", "deliver"}] /\ worker \in Threads \cup {Nobody}
    /\ got \in [Threads -> Seq(Nat)] /\ flight \in Seq(Seq(Messages)) /\ answers \in Seq(Seq(Nat))
    /\ scOut \in Seq(Messages) /\ scIn \in Seq(Nat) /\ seen \in Seq(Nat)
    /\ posts \in Nat /\ mailNo \in Nat /\ epoch \in Nat /\ askedIn \in Nat
    /\ outLimit \in Nat \ {0} /\ DOMAIN recurrent \subseteq Subs

\* One thread at a time is in the exchange, with a connection, at its place in the program.
OneExchange ==
    /\ \A t \in Threads : ex[t] # "none" => worker = t /\ scUp
    /\ ex["loop"] # "none" => loopPc = "work"
    /\ ex["user"] # "none" => userPc \in {"flush", "request"}

\* The one packet on its way: sent and not answered, answered and not read, or read.
OnePacket ==
    /\ \A t \in Threads : got[t] # <<>> => ex[t] = "deliver"
    /\ flight # <<>> => \E t \in Threads : ex[t] = "read"
    /\ answers # <<>> => \E t \in Threads : ex[t] = "read"
    /\ Len(flight) + Len(answers) <= 1

\* Whoever connects finds the old connection gone; the thread is stopped only by who joins it.
Connecting ==
    /\ loopPc \in {"none", "ended"} => ~scUp
    /\ loopPc = "connect" => ~scUp \/ scQuit
    /\ scStop /\ loopPc # "none" => userPc = "join"
    /\ scUp => epoch > 0
    /\ askedIn <= epoch

\* Mail in a sequence is in the order of its numbers, and in two of them one after the other.
MailSorted(s) == \A i, j \in 1 .. Len(s) : i < j /\ s[i] # Reply /\ s[j] # Reply => s[i] < s[j]
MailBefore(s, p) == \A i \in 1 .. Len(s), j \in 1 .. Len(p) : s[i] # Reply /\ p[j] # Reply => s[i] < p[j]
MailUpTo(s, n) == \A i \in 1 .. Len(s) : s[i] <= n

History == seen \o scIn

\* What has reached the inbox is in order, and older than the packets on their way.
PacketOK(p) == MailSorted(p) /\ MailBefore(History, p) /\ MailUpTo(p, mailNo)
Ordered ==
    /\ MailSorted(History) /\ MailUpTo(History, mailNo)
    /\ \A t \in Threads : PacketOK(got[t])
    /\ \A i \in 1 .. Len(answers) : PacketOK(answers[i])

\* A message is in a packet that the database has not answered, a reply in one that is not read.
OnWire(m) == \E i \in 1 .. Len(flight) : m \in ToSet(flight[i])
Has(p) == \E i \in 1 .. Len(p) : p[i] = Reply

\* A request of this connection is on its way, and past the outbox once the user has sent it.
InTransit ==
    \/ OnWire(Request)
    \/ \E i \in 1 .. Len(answers) : Has(answers[i])
    \/ \E t \in Threads : Has(got[t])
Asked == scUp /\ askedIn = epoch /\ Request \notin scLost
RequestIsCarried ==
    /\ userPc = "request" /\ Asked => Request \in ToSet(scOut) \/ InTransit \/ Has(scIn)
    /\ userPc = "request" /\ Asked /\ ex["user"] \in {"read", "deliver"} => InTransit \/ Has(scIn)
    /\ userPc = "poll" /\ Asked => Has(scIn)

\* A recurrent subscription of an earlier connection is registered or lost; or it is in a packet
\* on its way; or still in the outbox.
Due == {s \in DOMAIN recurrent : recurrent[s] < epoch}
Settled(s) == s \in scReg \/ Registration(s) \in scLost
Sent(s) == Settled(s) \/ OnWire(Registration(s))
Boxed(s) == Sent(s) \/ Registration(s) \in ToSet(scOut)
RegistrationIsCarried ==
    scUp => \A s \in Due :
        /\ loopPc = "apply" => s \in toApply \/ Boxed(s)
        /\ loopPc = "work" => Boxed(s)
        /\ loopPc = "work" /\ ex["loop"] \in {"read", "deliver"} => Sent(s)
        /\ loopPc = "tick" => Settled(s)

\* The inductive invariant.
Control == SCTypes /\ OneExchange /\ OnePacket /\ Connecting
SCInv == Control /\ Ordered /\ RequestIsCarried /\ UnreadIsPresent /\ RegistrationIsCarried

-----------------------------------------------------------------------------
(* Control                                                                 *)

LEMMA ControlStarts == SCInit => Control
<1>1. DOMAIN <<>> = {}
  OBVIOUS
<1> QED BY <1>1, SyncAssumption DEF SCInit, Control, SCTypes, OneExchange, OnePacket, Connecting, Threads, Nobody

\* A sequence with its last element taken apart from the rest, or its first.
LEMMA EndsOf ==
    ASSUME NEW S, NEW s \in Seq(S), NEW e \in S
    PROVE  /\ Append(s, e) \in Seq(S) /\ Append(s, e) # <<>> /\ Head(Append(s, e)) \in S
           /\ ToSet(Append(s, e)) = ToSet(s) \cup {e}
           /\ s # <<>> => Tail(s) \in Seq(S) /\ ToSet(s) = {Head(s)} \cup ToSet(Tail(s))
<1>1. /\ Append(s, e) \in Seq(S) /\ Append(s, e) # <<>> /\ Head(Append(s, e)) \in S
      /\ DOMAIN Append(s, e) = 1 .. Len(s) + 1 /\ DOMAIN s = 1 .. Len(s) /\ Len(s) \in Nat
      /\ \A i \in 1 .. Len(s) : Append(s, e)[i] = s[i]
      /\ Append(s, e)[Len(s) + 1] = e
  OBVIOUS
<1>2. ToSet(Append(s, e)) = ToSet(s) \cup {e}
  <2>1. 1 .. Len(s) + 1 = 1 .. Len(s) \cup {Len(s) + 1}
    BY <1>1
  <2> QED BY <1>1, <2>1 DEF ToSet
<1>3. ASSUME s # <<>> PROVE Tail(s) \in Seq(S) /\ ToSet(s) = {Head(s)} \cup ToSet(Tail(s))
  <2>1. /\ Head(s) = s[1] /\ Tail(s) \in Seq(S) /\ Len(s) >= 1
        /\ DOMAIN Tail(s) = 1 .. Len(s) - 1
        /\ \A i \in 1 .. Len(s) - 1 : Tail(s)[i] = s[i + 1]
    BY <1>3
  <2>2. ASSUME NEW i \in 1 .. Len(s) PROVE s[i] \in {Head(s)} \cup ToSet(Tail(s))
    <3>1. i = 1 \/ (i - 1 \in 1 .. Len(s) - 1 /\ (i - 1) + 1 = i)
      BY <1>1
    <3> QED BY <2>1, <3>1 DEF ToSet
  <2>3. \A i \in 1 .. Len(s) - 1 : i + 1 \in 1 .. Len(s)
    BY <1>1
  <2>4. 1 \in 1 .. Len(s)
    BY <1>1, <2>1
  <2>5. ToSet(s) \subseteq {Head(s)} \cup ToSet(Tail(s))
    BY <1>1, <2>2 DEF ToSet
  <2>6. \A i \in 1 .. Len(s) : s[i] \in ToSet(s)
    BY <1>1 DEF ToSet
  <2>7. ToSet(Tail(s)) \subseteq ToSet(s) /\ Head(s) \in ToSet(s)
    <3>1. \A x \in ToSet(Tail(s)) : \E i \in 1 .. Len(s) - 1 : x = s[i + 1]
      BY <2>1 DEF ToSet
    <3> QED BY <2>1, <2>3, <2>4, <2>6, <3>1
  <2> QED BY <2>1, <2>5, <2>7
<1> QED BY <1>1, <1>2, <1>3

\* What is posted is in the outbox, and so is what was there, except what is discarded.
LEMMA PostedFacts ==
    ASSUME scOut \in Seq(Messages), outLimit \in Nat \ {0}, NEW msg \in Messages
    PROVE  /\ Posted(msg) \in Seq(Messages)
           /\ msg \in ToSet(Posted(msg))
           /\ ToSet(scOut) \subseteq ToSet(Posted(msg)) \cup Discarded(msg)
<1> DEFINE box == Append(scOut, msg)
<1>1. /\ box \in Seq(Messages) /\ ToSet(box) = ToSet(scOut) \cup {msg}
      /\ Tail(box) \in Seq(Messages) /\ ToSet(box) = {Head(box)} \cup ToSet(Tail(box))
  <2>1. box \in Seq(Messages) /\ box # <<>> /\ ToSet(box) = ToSet(scOut) \cup {msg}
    BY EndsOf
  <2> HIDE DEF box
  <2> QED BY <2>1, EndsOf
<1>2. CASE Overflows
  <2>1. Posted(msg) = Tail(box) /\ Discarded(msg) = {Head(box)}
    BY <1>2 DEF Posted, Discarded
  <2>2. msg \in ToSet(Tail(box))
    <3>1. /\ Len(box) = Len(scOut) + 1 /\ box[Len(box)] = msg /\ Len(scOut) \in Nat /\ Len(scOut) >= 1
      BY <1>2 DEF Overflows
    <3>2. /\ DOMAIN Tail(box) = 1 .. Len(scOut) /\ \A i \in 1 .. Len(scOut) : Tail(box)[i] = box[i + 1]
      <4> HIDE DEF box
      <4> QED BY <1>1, <3>1
    <3>3. Len(scOut) \in DOMAIN Tail(box) /\ Tail(box)[Len(scOut)] = msg
      <4> HIDE DEF box
      <4> QED BY <3>1, <3>2
    <3> HIDE DEF box
    <3> QED BY <3>3 DEF ToSet
  <2> HIDE DEF box
  <2> QED BY <1>1, <2>1, <2>2
<1>3. CASE ~Overflows
  <2>1. Posted(msg) = box
    BY <1>3 DEF Posted
  <2> HIDE DEF box
  <2> QED BY <1>1, <2>1
<1> QED BY <1>2, <1>3

LEMMA NewestFacts ==
    ASSUME scOut \in Seq(Messages), NEW k \in Nat \ {0}
    PROVE  /\ Newest(scOut, k) \in Seq(Messages)
           /\ ToSet(scOut) \subseteq ToSet(Newest(scOut, k)) \cup Oldest(scOut, k)
<1>1. Len(scOut) \in Nat /\ DOMAIN scOut = 1 .. Len(scOut)
  OBVIOUS
<1>2. CASE Len(scOut) > k
  <2> DEFINE d == Len(scOut) - k
             box == SubSeq(scOut, d + 1, Len(scOut))
  <2>1. d \in Nat /\ d + 1 \in 1 .. Len(scOut) /\ d + k = Len(scOut)
    BY <1>1, <1>2
  <2>2. Newest(scOut, k) = box /\ Oldest(scOut, k) = {scOut[i] : i \in 1 .. d}
    BY <1>2 DEF Newest, Oldest
  <2> HIDE DEF d
  <2>3. box \in Seq(Messages) /\ DOMAIN box = 1 .. k /\ \A i \in 1 .. k : box[i] = scOut[d + i]
    <3>1. box \in Seq(Messages)
      BY <1>1, <2>1
    <3>2. /\ Len(box) = Len(scOut) - (d + 1) + 1
          /\ \A i \in 1 .. Len(scOut) - (d + 1) + 1 : box[i] = scOut[(d + 1) + i - 1]
      BY <1>1, <2>1
    <3>3. Len(scOut) - (d + 1) + 1 = k /\ \A i \in 1 .. k : (d + 1) + i - 1 = d + i
      <4>1. \A a, b \in Nat : a + b - (a + 1) + 1 = b /\ \A i \in 1 .. b : (a + 1) + i - 1 = a + i
        OBVIOUS
      <4>2. k \in Nat
        OBVIOUS
      <4>3. d \in Nat
        BY <2>1
      <4>4. d + k - (d + 1) + 1 = k /\ \A i \in 1 .. k : (d + 1) + i - 1 = d + i
        BY <4>1, <4>2, <4>3, Zenon
      <4>5. Len(scOut) = d + k
        BY <2>1
      <4>6. Len(scOut) - (d + 1) + 1 = k
        BY <1>1, <4>2, <4>3, <4>5
      <4> QED BY <4>4, <4>6, Zenon
    <3> HIDE DEF box
    <3> QED BY <3>1, <3>2, <3>3
  <2> HIDE DEF box
  <2>4. ASSUME NEW i \in 1 .. Len(scOut) PROVE scOut[i] \in ToSet(box) \cup Oldest(scOut, k)
    <3>1. CASE i \in 1 .. d
      BY <2>2, <3>1
    <3>2. CASE i \notin 1 .. d
      <4>1. i - d \in 1 .. k /\ d + (i - d) = i
        BY <1>1, <2>1, <3>2
      <4>2. box[i - d] = scOut[i] /\ i - d \in DOMAIN box
        BY <2>3, <4>1
      <4> QED BY <4>2 DEF ToSet
    <3> QED BY <3>1, <3>2
  <2> QED BY <1>1, <2>2, <2>3, <2>4 DEF ToSet
<1>3. CASE ~(Len(scOut) > k)
  BY <1>3 DEF Newest
<1> QED BY <1>2, <1>3

LEMMA AnswerType ==
    ASSUME mailNo \in Nat, NEW r \in Nat, NEW n \in Nat
    PROVE  /\ Answer(r, n) \in Seq(Nat) /\ Len(Answer(r, n)) = r + n
           /\ \A i \in 1 .. r + n : Answer(r, n)[i] = IF i <= r THEN Reply ELSE mailNo + (i - r)
BY DEF Answer, Reply

LEMMA RequestsAreCounted ==
    ASSUME NEW pkt \in Seq(Messages)
    PROVE  /\ Cardinality(RequestsIn(pkt)) \in Nat
           /\ Request \in ToSet(pkt) => Cardinality(RequestsIn(pkt)) # 0
<1>1. IsFiniteSet(1 .. Len(pkt)) /\ RequestsIn(pkt) \subseteq 1 .. Len(pkt) /\ DOMAIN pkt = 1 .. Len(pkt)
  BY FS_Interval DEF RequestsIn
<1>2. IsFiniteSet(RequestsIn(pkt))
  BY <1>1, FS_Subset
<1>3. Request \in ToSet(pkt) => RequestsIn(pkt) # {}
  BY <1>1 DEF ToSet, RequestsIn
<1> QED BY <1>2, <1>3, FS_CardinalityType, FS_EmptySet

\* The part of the exchange that excludes two packets: a thread that carries one leaves none to
\* the wire and none to the other.
LEMMA CarriedAlone ==
    ASSUME Control
    PROVE  /\ \A t \in Threads : ex[t] = "deliver" => /\ flight = <<>> /\ answers = <<>>
                                                     /\ \A u \in Threads \ {t} : got[u] = <<>>
           /\ flight # <<>> => answers = <<>> /\ Len(flight) = 1 /\ \A t \in Threads : got[t] = <<>>
           /\ answers # <<>> => flight = <<>> /\ Len(answers) = 1 /\ \A t \in Threads : got[t] = <<>>
<1>1. flight \in Seq(Seq(Messages)) /\ answers \in Seq(Seq(Nat))
  BY DEF Control, SCTypes
<1>2. /\ flight # <<>> => Len(flight) = 1 /\ Len(answers) = 0
      /\ answers # <<>> => Len(answers) = 1 /\ Len(flight) = 0
  <2>1. Len(flight) + Len(answers) <= 1 /\ Len(flight) \in Nat /\ Len(answers) \in Nat
    BY <1>1 DEF Control, OnePacket
  <2>2. (flight # <<>> => Len(flight) # 0) /\ (answers # <<>> => Len(answers) # 0)
    BY <1>1
  <2>3. \A m, k \in Nat : m + k <= 1 => (m # 0 => m = 1 /\ k = 0) /\ (k # 0 => k = 1 /\ m = 0)
    OBVIOUS
  <2>4. (Len(flight) # 0 => Len(flight) = 1 /\ Len(answers) = 0) /\ (Len(answers) # 0 => Len(answers) = 1 /\ Len(flight) = 0)
    BY <2>1, <2>3
  <2> QED BY <2>2, <2>4
<1> USE DEF Control, OneExchange, OnePacket, Threads
<1>3. \A t, u \in Threads : ex[t] # "none" /\ ex[u] # "none" => t = u
  OBVIOUS
<1>4. \A t \in Threads : flight # <<>> \/ answers # <<>> => got[t] = <<>>
  BY <1>3
<1>5. \A t \in Threads : ex[t] = "deliver" => flight = <<>> /\ answers = <<>>
  BY <1>3
<1>6. \A t \in Threads : ex[t] = "deliver" => \A u \in Threads \ {t} : got[u] = <<>>
  BY <1>3
<1> QED BY <1>1, <1>2, <1>4, <1>5, <1>6

LEMMA ControlStep ==
    ASSUME Control, [SCNext]_scVars
    PROVE  Control'
<1> USE DEF Control, SCTypes, OneExchange, OnePacket, Connecting, Threads, Nobody, boxes, conn, count, subs
<1>1. CASE Run
  BY <1>1 DEF Run
<1>2. CASE ConnectToServer
  <2>1. /\ loopPc = "connect" /\ ~scUp /\ ~scStop
        /\ UNCHANGED <<userPc, ex, worker, got, boxes, scStop, recurrent, posts, mailNo, askedIn, seen>>
    BY <1>2 DEF ConnectToServer
  <2>2. \A t \in Threads : ex[t] = "none" /\ got[t] = <<>>
    BY <2>1
  <2>3. CASE scUp' = TRUE /\ loopPc' = "hook" /\ flight' = <<>> /\ answers' = <<>> /\ epoch' = epoch + 1
    <3>1. SCTypes'
      BY <2>1, <2>3
    <3>2. OneExchange' /\ OnePacket'
      BY <2>1, <2>2, <2>3
    <3>3. Connecting'
      BY <2>1, <2>3
    <3> QED BY <3>1, <3>2, <3>3
  <2>4. CASE scQuit' = TRUE /\ UNCHANGED <<loopPc, conn, epoch>>
    BY <2>1, <2>4
  <2> QED BY <1>2, <2>3, <2>4 DEF ConnectToServer
<1>3. CASE StartToApply \/ Applied
  <2>1. /\ loopPc \in {"hook", "apply"} /\ loopPc' \in {"apply", "work"}
        /\ UNCHANGED <<userPc, ex, worker, got, boxes, conn, scQuit, scStop, recurrent, count, askedIn, seen>>
    BY <1>3 DEF StartToApply, Applied
  <2>2. SCTypes'
    BY <2>1
  <2>3. (OneExchange /\ OnePacket)'
    BY <2>1
  <2>4. Connecting'
    BY <2>1
  <2> QED BY <2>2, <2>3, <2>4
<1>3a. ASSUME NEW s \in Subs, ApplyRecurrentSubscriptions(s) PROVE Control'
  <2>1. Registration(s) \in Messages
    BY DEF Messages
  <2>2. scOut' \in Seq(Messages)
    BY <1>3a, <2>1, PostedFacts DEF ApplyRecurrentSubscriptions
  <2> QED BY <1>3a, <2>2 DEF ApplyRecurrentSubscriptions
<1>4. CASE Tick
  BY <1>4 DEF Tick
<1>5. CASE EndLoop
  BY <1>5 DEF EndLoop
<1>6. ASSUME NEW t \in Threads, BeginWork(t) PROVE Control'
  BY <1>6 DEF BeginWork, Calls, WorkLockFree, BackIn
<1>7. ASSUME NEW t \in Threads, SendOutBox(t) PROVE Control'
  BY <1>7, SMTT(20) DEF SendOutBox
<1>8. ASSUME NEW t \in Threads, ReadReply(t) PROVE Control'
  BY <1>8 DEF ReadReply
<1>9. ASSUME NEW t \in Threads, Deliver(t) PROVE Control'
  <2>1. Purged \in Seq(Nat) /\ got[t] \in Seq(Nat)
    BY DEF Purged
  <2>2. scIn' \in Seq(Nat) /\ seen' \in Seq(Nat)
    BY <1>9, <2>1 DEF Deliver
  <2>3. /\ got' = [got EXCEPT ![t] = <<>>] /\ ex' = [ex EXCEPT ![t] = "none"] /\ worker' = Nobody
        /\ ex[t] = "deliver" /\ askedIn' \in {askedIn, 0}
        /\ UNCHANGED <<scOut, outLimit, scUp, flight, answers, scReg, scQuit, scStop, recurrent, count>>
    BY <1>9 DEF Deliver
  <2>4. CASE t = "loop"
    <3>1. loopPc' = "tick" /\ UNCHANGED userPc
      BY <1>9, <2>4 DEF Deliver, BackIn
    <3> QED BY <2>2, <2>3, <2>4, <3>1
  <2>5. CASE t = "user"
    <3>1. UNCHANGED loopPc /\ userPc \in {"flush", "request"} /\ userPc' \in {"idle", "poll"}
      BY <1>9, <2>3, <2>5 DEF Deliver, BackIn
    <3>2. ~(scStop /\ loopPc # "none")
      BY <3>1
    <3>3. SCTypes'
      <4>1. ex' \in [Threads -> {"none", "send", "read", "deliver"}] /\ got' \in [Threads -> Seq(Nat)]
        BY <2>3
      <4>2. /\ loopPc' \in {"none", "connect", "hook", "apply", "work", "tick", "ended"}
            /\ userPc' \in {"idle", "flush", "request", "poll", "pollAgain", "join"}
            /\ worker' \in Threads \cup {Nobody}
        BY <2>3, <3>1
      <4>3. /\ flight' \in Seq(Seq(Messages)) /\ answers' \in Seq(Seq(Nat)) /\ scOut' \in Seq(Messages)
            /\ posts' \in Nat /\ mailNo' \in Nat /\ epoch' \in Nat /\ askedIn' \in Nat /\ outLimit' \in Nat \ {0}
        BY <2>3
      <4>4. DOMAIN recurrent' \subseteq Subs
        BY <2>3
      <4> QED BY <2>2, <4>1, <4>2, <4>3, <4>4
    <3>4. OneExchange' /\ OnePacket'
      BY <2>3, <2>5, <3>1
    <3>5. Connecting'
      BY <2>3, <3>1, <3>2
    <3> QED BY <3>3, <3>4, <3>5
  <2> QED BY <2>4, <2>5
<1>10. ASSUME NEW n \in 0 .. 1, ServerReplies(n) PROVE Control'
  <2> DEFINE a == Answer(Cardinality(RequestsIn(Head(flight))), n)
  <2>1. flight # <<>> /\ flight' = Tail(flight) /\ answers' = Append(answers, a) /\ mailNo' = mailNo + n
    BY <1>10 DEF ServerReplies
  <2>2. Head(flight) \in Seq(Messages)
    BY <2>1
  <2>3. a \in Seq(Nat)
    <3>1. Cardinality(RequestsIn(Head(flight))) \in Nat
      BY <2>2, RequestsAreCounted
    <3>2. n \in Nat /\ mailNo \in Nat
      OBVIOUS
    <3> QED BY <3>1, <3>2, AnswerType
  <2> HIDE DEF a
  <2>4. /\ flight' \in Seq(Seq(Messages)) /\ answers' \in Seq(Seq(Nat)) /\ flight' = <<>>
        /\ Len(answers') = 1
    <3>1. Len(flight) = 1 /\ answers = <<>>
      BY <2>1, CarriedAlone
    <3>2. flight \in Seq(Seq(Messages)) /\ answers \in Seq(Seq(Nat))
      OBVIOUS
    <3>3. Tail(flight) \in Seq(Seq(Messages)) /\ Len(Tail(flight)) = 0
      BY <2>1, <3>1, <3>2
    <3>4. answers' = <<a>>
      BY <2>1, <3>1
    <3>5. <<a>> \in Seq(Seq(Nat)) /\ Len(<<a>>) = 1
      BY <2>3
    <3>6. flight' = <<>>
      BY <2>1, <3>3, SMTT(20)
    <3> QED BY <2>1, <3>3, <3>4, <3>5, <3>6
  <2>5. UNCHANGED <<loopPc, userPc, ex, worker, got, scOut, scIn, outLimit, scUp, scQuit, scStop, recurrent, posts, epoch, askedIn, seen>>
    BY <1>10 DEF ServerReplies
  <2>6. SCTypes'
    BY <2>1, <2>4, <2>5
  <2>7. OneExchange'
    BY <2>5
  <2>7a. OnePacket'
    <3>1. \E t \in Threads : ex[t] = "read"
      BY <2>1
    <3>2. Len(flight') = 0
      BY <2>4
    <3> QED BY <2>4, <2>5, <3>1, <3>2
  <2>8. Connecting'
    BY <2>5
  <2> QED BY <2>6, <2>7, <2>7a, <2>8
<1>11. ASSUME NEW t \in Threads, Lose(t) PROVE Control'
  <2>1. scIn' = <<>> /\ scOut' = <<>> /\ seen' \in Seq(Nat) /\ UNCHANGED outLimit
    BY <1>11 DEF Lose, ClearResources
  <2>2. /\ ex' = [ex EXCEPT ![t] = "none"] /\ worker' = Nobody /\ flight' = <<>> /\ answers' = <<>> /\ scUp' = FALSE
        /\ ex[t] \in {"send", "read"}
        /\ UNCHANGED <<got, scQuit, scStop, recurrent, count, askedIn>>
    BY <1>11 DEF Lose
  <2>3. CASE t = "loop"
    <3>1. loopPc' = "connect" /\ UNCHANGED userPc
      BY <1>11, <2>3 DEF Lose, BackIn
    <3> QED BY <2>1, <2>2, <2>3, <3>1
  <2>4. CASE t = "user"
    <3>1. UNCHANGED loopPc /\ userPc \in {"flush", "request"} /\ userPc' = "idle"
      BY <1>11, <2>2, <2>4 DEF Lose, BackIn
    <3>2. ~(scStop /\ loopPc # "none")
      BY <3>1
    <3> QED BY <2>1, <2>2, <2>4, <3>1, <3>2
  <2> QED BY <2>3, <2>4
<1>12. CASE Post
  <2>1. posts' \in Nat /\ scOut' = Posted(<<"post", posts'>>)
    BY <1>12 DEF Post
  <2>2. scOut' \in Seq(Messages)
    <3>1. <<"post", posts'>> \in Messages
      BY <2>1 DEF Messages
    <3> QED BY <2>1, <3>1, PostedFacts
  <2> QED BY <1>12, <2>1, <2>2 DEF Post
<1>13. CASE Fetch
  BY <1>13 DEF Fetch
<1>14. CASE Flush
  BY <1>14 DEF Flush
<1>15. CASE ServerRequest
  <2>1. Request \in Messages
    BY DEF Messages
  <2>2. scOut' \in Seq(Messages)
    BY <1>15, <2>1, PostedFacts DEF ServerRequest
  <2> QED BY <1>15, <2>2 DEF ServerRequest
<1>16. CASE Peek
  <2>1. /\ scIn' = <<>> /\ seen' \in Seq(Nat) /\ userPc \in {"poll", "pollAgain"} /\ userPc' \in {"pollAgain", "idle"}
        /\ UNCHANGED <<loopPc, ex, worker, got, scOut, outLimit, conn, scQuit, scStop, recurrent, count, askedIn>>
    BY <1>16 DEF Peek
  <2> QED BY <2>1
<1>17. CASE Close
  BY <1>17 DEF Close, SetQuit
<1>18. CASE Closed
  BY <1>18 DEF Closed, ClearResources
<1>19. CASE \E s \in Subs : AddRecurrentSubscription(s) \/ RemoveRecurrentSubscription(s)
  <2>1. UNCHANGED <<loopPc, userPc, ex, worker, got, boxes, conn, scQuit, scStop, count, askedIn, seen>>
    BY <1>19 DEF AddRecurrentSubscription, RemoveRecurrentSubscription
  <2>2. DOMAIN recurrent' \subseteq Subs
    BY <1>19 DEF AddRecurrentSubscription, RemoveRecurrentSubscription
  <2> QED BY <2>1, <2>2
<1>20. ASSUME NEW k \in OutLimits, ExpectOutboxOverflow(k) PROVE Control'
  <2>1. k \in Nat \ {0}
    BY SyncAssumption
  <2>2. scOut' \in Seq(Messages) /\ outLimit' \in Nat \ {0}
    BY <1>20, <2>1, NewestFacts DEF ExpectOutboxOverflow
  <2> QED BY <1>20, <2>2 DEF ExpectOutboxOverflow
<1>21. CASE UNCHANGED scVars
  BY <1>21 DEF scVars
<1> QED
  BY <1>1, <1>2, <1>3, <1>3a, <1>4, <1>5, <1>6, <1>7, <1>8, <1>9, <1>10, <1>11, <1>12, <1>13, <1>14, <1>15, <1>16,
     <1>17, <1>18, <1>19, <1>20, <1>21 DEF SCNext, ClientLoop, Hook, UserThread, DoClientWork, Server
-----------------------------------------------------------------------------
(* The order of the mail                                                   *)

LEMMA MailJoins ==
    ASSUME NEW s \in Seq(Nat), NEW p \in Seq(Nat), NEW n \in Nat,
           MailSorted(s), MailSorted(p), MailBefore(s, p), MailUpTo(s, n), MailUpTo(p, n)
    PROVE  MailSorted(s \o p) /\ MailUpTo(s \o p, n)
<1>1. /\ s \o p \in Seq(Nat) /\ Len(s \o p) = Len(s) + Len(p) /\ Len(s) \in Nat /\ Len(p) \in Nat
      /\ \A i \in 1 .. Len(s) : (s \o p)[i] = s[i]
      /\ \A i \in Len(s) + 1 .. Len(s) + Len(p) : (s \o p)[i] = p[i - Len(s)] /\ i - Len(s) \in 1 .. Len(p)
  OBVIOUS
<1>2. MailUpTo(s \o p, n)
  <2> SUFFICES ASSUME NEW i \in 1 .. Len(s) + Len(p) PROVE (s \o p)[i] <= n
    BY <1>1 DEF MailUpTo
  <2> i \in 1 .. Len(s) \/ i \in Len(s) + 1 .. Len(s) + Len(p)
    BY <1>1
  <2> QED BY <1>1 DEF MailUpTo
<1>3. MailSorted(s \o p)
  <2> SUFFICES ASSUME NEW i \in 1 .. Len(s) + Len(p), NEW j \in 1 .. Len(s) + Len(p), i < j,
                      (s \o p)[i] # Reply, (s \o p)[j] # Reply
               PROVE  (s \o p)[i] < (s \o p)[j]
    BY <1>1 DEF MailSorted
  <2>1. CASE j \in 1 .. Len(s)
    <3> i \in 1 .. Len(s)
      BY <1>1, <2>1
    <3> QED BY <1>1, <2>1 DEF MailSorted
  <2>2. CASE i \in 1 .. Len(s) /\ j \in Len(s) + 1 .. Len(s) + Len(p)
    BY <1>1, <2>2 DEF MailBefore
  <2>3. CASE i \in Len(s) + 1 .. Len(s) + Len(p) /\ j \in Len(s) + 1 .. Len(s) + Len(p)
    <3>1. i - Len(s) < j - Len(s)
      BY <1>1
    <3> QED BY <1>1, <2>3, <3>1 DEF MailSorted
  <2> QED BY <1>1, <2>1, <2>2, <2>3
<1> QED BY <1>2, <1>3

\* A step that leaves the history alone and at most loses packets.
LEMMA OrderKept ==
    ASSUME Ordered, History' = History, got' = got, mailNo' = mailNo, answers' \in {answers, <<>>}
    PROVE  Ordered'
<1>1. (MailSorted(History) /\ MailUpTo(History, mailNo))'
  BY DEF Ordered, MailSorted, MailUpTo
<1>2. \A p : PacketOK(p) => MailSorted(p) /\ MailBefore(History', p) /\ MailUpTo(p, mailNo')
  BY DEF PacketOK
<1>3. (\A t \in Threads : PacketOK(got[t]))'
  BY <1>2 DEF Ordered, PacketOK, MailSorted, MailBefore, MailUpTo
<1>4. (\A i \in 1 .. Len(answers) : PacketOK(answers[i]))'
  <2>1. CASE answers' = answers
    BY <1>2, <2>1 DEF Ordered, PacketOK, MailSorted, MailBefore, MailUpTo
  <2>2. CASE answers' = <<>>
    BY <2>2
  <2> QED BY <2>1, <2>2
<1> QED BY <1>1, <1>3, <1>4 DEF Ordered

\* What leaves the inbox goes to the end of seen.
LEMMA InboxEmptied ==
    ASSUME Control, scIn' = <<>>, seen' = seen \o scIn
    PROVE  History' = History
<1>1. seen \o scIn \in Seq(Nat)
  BY DEF Control, SCTypes
<1>2. (seen \o scIn) \o <<>> = seen \o scIn
  BY <1>1
<1> QED BY <1>2 DEF History

LEMMA OrderedStarts == SCInit => Ordered
BY DEF SCInit, Ordered, PacketOK, MailSorted, MailBefore, MailUpTo, History

LEMMA OrderedStep ==
    ASSUME Control, Ordered, [SCNext]_scVars
    PROVE  Ordered'
<1> USE DEF boxes, conn, count, subs
<1>1. CASE UNCHANGED <<seen, scIn, got, mailNo, answers>>
  BY <1>1, OrderKept DEF History
<1>2. CASE ConnectToServer
  BY <1>2, OrderKept DEF ConnectToServer, History
<1>3. ASSUME NEW t \in Threads, ReadReply(t) PROVE Ordered'
  <2>1. answers # <<>> /\ answers' = Tail(answers) /\ got' = [got EXCEPT ![t] = Head(answers)]
        /\ UNCHANGED <<seen, scIn, mailNo>>
    BY <1>3 DEF ReadReply
  <2>2. Len(answers) = 1 /\ answers \in Seq(Seq(Nat)) /\ got \in [Threads -> Seq(Nat)]
    BY <2>1, CarriedAlone DEF Control, SCTypes
  <2>3. Len(answers') = 0 /\ Head(answers) = answers[1] /\ 1 \in 1 .. Len(answers)
    BY <2>1, <2>2
  <2>4. PacketOK(Head(answers)) /\ \A u \in Threads : got'[u] \in {got[u], Head(answers)}
    BY <2>1, <2>2, <2>3 DEF Ordered
  <2>5. \A u \in Threads : PacketOK(got'[u])
    BY <2>4 DEF Ordered
  <2>6. History' = History
    BY <2>1 DEF History
  <2>7. (\A u \in Threads : PacketOK(got[u]))'
    BY <2>1, <2>5, <2>6 DEF PacketOK, MailSorted, MailBefore, MailUpTo
  <2>8. (MailSorted(History) /\ MailUpTo(History, mailNo))'
    BY <2>1, <2>6 DEF Ordered, MailSorted, MailUpTo
  <2>9. \A i \in 1 .. Len(answers') : FALSE
    BY <2>3
  <2> QED BY <2>7, <2>8, <2>9 DEF Ordered
<1>4. ASSUME NEW t \in Threads, Deliver(t) PROVE Ordered'
  <2> DEFINE p == got[t]
             kept == IF Purged = scIn THEN <<>> ELSE scIn
  <2>1. /\ ex[t] = "deliver" /\ scIn' = Purged \o p /\ seen' = seen \o kept
        /\ got' = [got EXCEPT ![t] = <<>>] /\ UNCHANGED <<answers, mailNo>>
    BY <1>4 DEF Deliver
  <2>2. seen \in Seq(Nat) /\ scIn \in Seq(Nat) /\ p \in Seq(Nat) /\ got \in [Threads -> Seq(Nat)] /\ mailNo \in Nat
    BY DEF Control, SCTypes
  <2>3. History' = History \o p
    <3>1. CASE Purged = scIn
      <4>1. scIn' = scIn \o p /\ seen' = seen
        BY <2>1, <2>2, <3>1
      <4>2. seen \o (scIn \o p) = (seen \o scIn) \o p
        BY <2>2, SMTT(20)
      <4> QED BY <4>1, <4>2 DEF History
    <3>2. CASE Purged # scIn
      <4>1. Purged = <<>> /\ kept = scIn
        BY <3>2 DEF Purged
      <4>2. scIn' = p /\ seen' = seen \o scIn
        <5> HIDE DEF p
        <5>1. <<>> \o p = p
          BY <2>2
        <5> QED BY <2>1, <4>1, <5>1
      <4> QED BY <4>2 DEF History
    <3> QED BY <3>1, <3>2
  <2>4. answers' = <<>> /\ \A u \in Threads : got'[u] = <<>>
    BY <2>1, <2>2, CarriedAlone
  <2>5. MailSorted(History \o p) /\ MailUpTo(History \o p, mailNo)
    <3>1. /\ MailSorted(History) /\ MailUpTo(History, mailNo) /\ PacketOK(p)
          /\ History \in Seq(Nat)
      BY <2>2 DEF Ordered, History
    <3> HIDE DEF p
    <3> QED BY <2>2, <3>1, MailJoins DEF PacketOK
  <2>6. MailSorted(History') /\ MailUpTo(History', mailNo')
    BY <2>1, <2>3, <2>5
  <2>7. \A q : q = <<>> => MailSorted(q) /\ MailBefore(History', q) /\ MailUpTo(q, mailNo')
    BY DEF MailSorted, MailBefore, MailUpTo
  <2>8. (MailSorted(History) /\ MailUpTo(History, mailNo))'
    BY <2>6 DEF MailSorted, MailUpTo
  <2>9. (\A u \in Threads : PacketOK(got[u]))'
    BY <2>4, <2>7 DEF PacketOK, MailSorted, MailBefore, MailUpTo
  <2> QED BY <2>4, <2>8, <2>9 DEF Ordered
<1>5. ASSUME NEW n \in 0 .. 1, ServerReplies(n) PROVE Ordered'
  <2> DEFINE r == Cardinality(RequestsIn(Head(flight)))
             a == Answer(r, n)
  <2>1. /\ flight # <<>> /\ answers' = Append(answers, a) /\ mailNo' = mailNo + n
        /\ UNCHANGED <<got, scIn, seen>>
    BY <1>5 DEF ServerReplies
  <2>2. Head(flight) \in Seq(Messages) /\ mailNo \in Nat /\ n \in Nat
    BY <2>1 DEF Control, SCTypes
  <2>3. r \in Nat
    BY <2>2, RequestsAreCounted
  <2> HIDE DEF r
  <2>4. /\ a \in Seq(Nat) /\ Len(a) = r + n
        /\ \A i \in 1 .. r + n : a[i] = IF i <= r THEN Reply ELSE mailNo + (i - r)
    BY <2>2, <2>3, AnswerType
  <2> HIDE DEF a
  <2>5. answers' = <<a>> /\ \A t \in Threads : got[t] = <<>>
    BY <2>1, CarriedAlone
  <2>6. History' = History /\ History \in Seq(Nat)
    BY <2>1 DEF History, Control, SCTypes
  <2>7. MailSorted(a)
    BY <2>2, <2>3, <2>4 DEF MailSorted, Reply
  <2>8. MailUpTo(a, mailNo')
    BY <2>1, <2>2, <2>3, <2>4 DEF MailUpTo, Reply
  <2>9. MailBefore(History, a)
    <3> SUFFICES ASSUME NEW i \in 1 .. Len(History), NEW j \in 1 .. Len(a),
                        History[i] # Reply, a[j] # Reply
                 PROVE  History[i] < a[j]
      BY DEF MailBefore
    <3>1. History[i] <= mailNo /\ History[i] \in Nat
      BY <2>6 DEF Ordered, MailUpTo
    <3>2. a[j] > mailNo /\ a[j] \in Nat
      BY <2>2, <2>3, <2>4
    <3> QED BY <2>2, <3>1, <3>2
  <2>10. MailUpTo(History, mailNo')
    <3>1. \A i \in 1 .. Len(History) : History[i] \in Nat /\ History[i] <= mailNo
      BY <2>6 DEF Ordered, MailUpTo
    <3> QED BY <2>1, <2>2, <3>1 DEF MailUpTo
  <2>11. (MailSorted(History) /\ MailUpTo(History, mailNo))'
    BY <2>6, <2>10 DEF Ordered, MailSorted, MailUpTo
  <2>12. (\A t \in Threads : PacketOK(got[t]))'
    BY <2>1, <2>5 DEF PacketOK, MailSorted, MailBefore, MailUpTo
  <2>13. (\A i \in 1 .. Len(answers) : PacketOK(answers[i]))'
    <3>1. \A i \in 1 .. Len(answers') : answers'[i] = a
      BY <2>5
    <3>2. MailSorted(a) /\ MailBefore(History', a) /\ MailUpTo(a, mailNo')
      BY <2>6, <2>7, <2>8, <2>9
    <3> QED BY <3>1, <3>2 DEF PacketOK, MailSorted, MailBefore, MailUpTo
  <2> QED BY <2>11, <2>12, <2>13 DEF Ordered
<1>6. ASSUME NEW t \in Threads, Lose(t) PROVE Ordered'
  <2>1. scIn' = <<>> /\ seen' = seen \o scIn /\ answers' = <<>> /\ UNCHANGED <<got, mailNo>>
    BY <1>6 DEF Lose, ClearResources
  <2> QED BY <2>1, InboxEmptied, OrderKept
<1>7. CASE Fetch \/ Peek \/ Closed
  <2>1. scIn' = <<>> /\ seen' = seen \o scIn /\ UNCHANGED <<got, mailNo, answers>>
    BY <1>7 DEF Fetch, Peek, Closed, ClearResources
  <2> QED BY <2>1, InboxEmptied, OrderKept
<1>8. CASE Run \/ Hook \/ Tick \/ EndLoop \/ Post \/ Flush \/ ServerRequest \/ Close
        \/ \E k \in OutLimits : ExpectOutboxOverflow(k)
  <2> UNCHANGED <<seen, scIn, got, mailNo, answers>>
    BY <1>8 DEF Run, Hook, StartToApply, ApplyRecurrentSubscriptions, Applied, Tick, EndLoop, Post, Flush, ServerRequest, Close,
               ExpectOutboxOverflow
  <2> QED BY <1>1
<1>9. ASSUME NEW t \in Threads, BeginWork(t) \/ SendOutBox(t) PROVE Ordered'
  BY <1>1, <1>9 DEF BeginWork, SendOutBox
<1>10. CASE \E s \in Subs : AddRecurrentSubscription(s) \/ RemoveRecurrentSubscription(s)
  BY <1>1, <1>10 DEF AddRecurrentSubscription, RemoveRecurrentSubscription
<1>11. CASE UNCHANGED scVars
  BY <1>1, <1>11 DEF scVars
<1>12. "loop" \in Threads /\ "user" \in Threads
  BY DEF Threads
<1> QED
  BY <1>2, <1>3, <1>4, <1>5, <1>6, <1>7, <1>8, <1>9, <1>10, <1>11, <1>12
     DEF SCNext, ClientLoop, UserThread, DoClientWork, Server
-----------------------------------------------------------------------------
(* The reply to a request                                                  *)

\* A packet with a request or a reply in it that is moved is still on its way.
LEMMA HasInTransit ==
    /\ OnWire(Request)' => InTransit'
    /\ \A i \in 1 .. Len(answers') : Has(answers'[i]) => InTransit'
    /\ \A t \in Threads : Has(got'[t]) => InTransit'
BY DEF InTransit, Has, OnWire

\* What a step does to the packets the database has not answered.
LEMMA WireKept ==
    ASSUME UNCHANGED flight, NEW m
    PROVE  OnWire(m)' <=> OnWire(m)
BY DEF OnWire

LEMMA SentFacts ==
    ASSUME Control, NEW t \in Threads, SendOutBox(t), NEW m
    PROVE  OnWire(m)' <=> OnWire(m) \/ m \in ToSet(scOut)
<1>1. flight' = Append(flight, scOut) /\ flight \in Seq(Seq(Messages)) /\ scOut \in Seq(Messages)
  BY DEF SendOutBox, Control, SCTypes
<1>2. /\ Len(flight') = Len(flight) + 1 /\ Len(flight) \in Nat /\ flight'[Len(flight) + 1] = scOut
      /\ \A i \in 1 .. Len(flight) : flight'[i] = flight[i]
  BY <1>1
<1>3. 1 .. Len(flight') = 1 .. Len(flight) \cup {Len(flight) + 1}
  BY <1>2
<1> QED BY <1>2, <1>3 DEF OnWire

LEMMA AnsweredFacts ==
    ASSUME Control, NEW n \in 0 .. 1, ServerReplies(n), NEW m
    PROVE  /\ flight # <<>> /\ Head(flight) \in Seq(Messages)
           /\ OnWire(m) => m \in ToSet(Head(flight))
<1>1. flight # <<>> /\ flight \in Seq(Seq(Messages)) /\ Len(flight) = 1
  BY CarriedAlone DEF ServerReplies, Control, SCTypes
<1>2. Head(flight) = flight[1] /\ Head(flight) \in Seq(Messages) /\ \A i \in 1 .. Len(flight) : i = 1
  BY <1>1
<1> QED BY <1>1, <1>2 DEF OnWire

LEMMA CarriedStarts == SCInit => RequestIsCarried
BY DEF SCInit, RequestIsCarried

LEMMA CarriedStep ==
    ASSUME Control, RequestIsCarried, [SCNext]_scVars
    PROVE  RequestIsCarried'
<1> USE DEF boxes, conn, count, subs
<1>1. CASE UNCHANGED <<userPc, scUp, askedIn, epoch, scLost, scOut, scIn, flight, answers, got>> /\ UNCHANGED ex["user"]
  BY <1>1 DEF RequestIsCarried, Asked, InTransit, Has, OnWire
<1>2. CASE ~scUp' \/ userPc' \notin {"request", "poll"}
  BY <1>2 DEF RequestIsCarried, Asked
<1>3. CASE ConnectToServer
  <2>1. CASE epoch' = epoch + 1 /\ askedIn' = askedIn
    <3>1. askedIn' # epoch'
      BY <2>1 DEF Control, SCTypes, Connecting
    <3> QED BY <3>1 DEF RequestIsCarried, Asked
  <2>2. CASE UNCHANGED <<conn, epoch, scLost>>
    BY <1>1, <1>3, <2>2 DEF ConnectToServer
  <2> QED BY <1>3, <2>1, <2>2 DEF ConnectToServer
<1>4. ASSUME NEW t \in Threads, BeginWork(t) PROVE RequestIsCarried'
  <2>0. UNCHANGED <<scUp, askedIn, epoch, scLost, scOut, scIn, flight, answers, got>>
    BY <1>4 DEF BeginWork
  <2>1. CASE scUp
    <3>1. UNCHANGED userPc /\ ex' = [ex EXCEPT ![t] = "send"]
      BY <1>4, <2>1 DEF BeginWork
    <3>2. ex'["user"] \in {ex["user"], "send"}
      BY <3>1 DEF Control, SCTypes, Threads
    <3> QED BY <2>0, <3>1, <3>2 DEF RequestIsCarried, Asked, InTransit, Has, OnWire
  <2>2. CASE ~scUp
    BY <1>2, <2>0, <2>2
  <2> QED BY <2>1, <2>2
<1>5. ASSUME NEW t \in Threads, SendOutBox(t) PROVE RequestIsCarried'
  <2>1. UNCHANGED <<userPc, scUp, askedIn, epoch, scLost, scIn, answers, got>>
    BY <1>5 DEF SendOutBox
  <2>2. Request \in ToSet(scOut) \/ OnWire(Request) => InTransit'
    BY <1>5, SentFacts, HasInTransit
  <2>3. InTransit => InTransit'
    <3>1. ASSUME NEW i \in 1 .. Len(answers), Has(answers[i]) PROVE InTransit'
      BY <2>1, <3>1, HasInTransit
    <3>2. ASSUME NEW u \in Threads, Has(got[u]) PROVE InTransit'
      BY <2>1, <3>2, HasInTransit
    <3> QED BY <2>2, <3>1, <3>2 DEF InTransit
  <2>4. (userPc = "request" /\ Asked)' => InTransit' \/ Has(scIn)'
    BY <2>1, <2>2, <2>3 DEF RequestIsCarried, Asked, Has
  <2>5. (userPc = "poll" /\ Asked)' => Has(scIn)'
    BY <2>1 DEF RequestIsCarried, Asked, Has
  <2> QED BY <2>4, <2>5 DEF RequestIsCarried
<1>6. ASSUME NEW t \in Threads, ReadReply(t) PROVE RequestIsCarried'
  <2>1. /\ answers # <<>> /\ ex[t] = "read" /\ got' = [got EXCEPT ![t] = Head(answers)] /\ ex' = [ex EXCEPT ![t] = "deliver"]
        /\ UNCHANGED <<userPc, scUp, askedIn, epoch, scLost, scIn, scOut, flight>>
    BY <1>6 DEF ReadReply
  <2>2. /\ answers \in Seq(Seq(Nat)) /\ got \in [Threads -> Seq(Nat)] /\ ex \in [Threads -> {"none", "send", "read", "deliver"}]
    BY DEF Control, SCTypes
  <2>3. flight = <<>> /\ Len(answers) = 1 /\ \A u \in Threads : got[u] = <<>>
    BY <2>1, CarriedAlone
  <2>4. got'[t] = answers[1] /\ \A i \in 1 .. Len(answers) : i = 1
    BY <2>1, <2>2, <2>3
  <2>5. InTransit => Has(answers[1])
    BY <2>3, <2>4 DEF InTransit, Has, OnWire
  <2>6. InTransit => InTransit'
    BY <2>4, <2>5, HasInTransit
  <2>7. ex'["user"] \in {"read", "deliver"} => ex["user"] \in {"read", "deliver"}
    BY <2>1, <2>2 DEF Threads
  <2> QED BY <2>1, <2>6, <2>7 DEF RequestIsCarried, Asked, Has
<1>7. ASSUME NEW t \in Threads, Deliver(t) PROVE RequestIsCarried'
  <2>1. /\ ex[t] = "deliver" /\ scIn' = Purged \o got[t] /\ ex' = [ex EXCEPT ![t] = "none"]
        /\ askedIn' = (IF Purged = scIn THEN askedIn ELSE 0)
        /\ UNCHANGED <<scOut, scUp, epoch, scLost, flight, answers>>
    BY <1>7 DEF Deliver
  <2>2. CASE ~(Purged = scIn)
    <3>1. scUp' => askedIn' # epoch'
      BY <2>1, <2>2 DEF Control, SCTypes, Connecting
    <3> QED BY <3>1 DEF RequestIsCarried, Asked
  <2>3. CASE Purged = scIn
    <3>1. scIn' = scIn \o got[t] /\ askedIn' = askedIn
      BY <2>1, <2>3
    <3>2. scIn \in Seq(Nat) /\ got[t] \in Seq(Nat)
      BY DEF Control, SCTypes
    <3>3. Has(scIn) \/ Has(got[t]) => Has(scIn)'
      <4>1. ASSUME NEW i \in 1 .. Len(scIn), scIn[i] = Reply PROVE Has(scIn)'
        <5> i \in 1 .. Len(scIn') /\ scIn'[i] = scIn[i]
          BY <3>1, <3>2
        <5> QED BY <4>1 DEF Has
      <4>2. ASSUME NEW i \in 1 .. Len(got[t]), got[t][i] = Reply PROVE Has(scIn)'
        <5> Len(scIn) + i \in 1 .. Len(scIn') /\ scIn'[Len(scIn) + i] = got[t][i]
          BY <3>1, <3>2
        <5> QED BY <4>2 DEF Has
      <4> QED BY <4>1, <4>2 DEF Has
    <3>4. InTransit => Has(got[t])
      <4>1. flight = <<>> /\ answers = <<>> /\ \A u \in Threads \ {t} : got[u] = <<>>
        BY <2>1, CarriedAlone
      <4> QED BY <4>1 DEF InTransit, Has, OnWire
    <3>5. CASE t = "loop"
      <4>1. UNCHANGED userPc
        BY <1>7, <3>5 DEF Deliver, BackIn
      <4>2. ex["user"] = "none" /\ ex'["user"] = "none"
        BY <2>1, <3>5 DEF Control, SCTypes, OneExchange, Threads
      <4> QED BY <2>1, <3>1, <3>3, <3>4, <4>1, <4>2 DEF RequestIsCarried, Asked
    <3>6. CASE t = "user"
      <4>1. userPc' = (IF userPc = "request" THEN "poll" ELSE "idle") /\ userPc \in {"flush", "request"}
        BY <1>7, <2>1, <3>6 DEF Deliver, BackIn, Control, OneExchange, Threads
      <4> QED BY <2>1, <3>1, <3>3, <3>4, <3>6, <4>1 DEF RequestIsCarried, Asked
    <3> QED BY <3>5, <3>6 DEF Threads
  <2> QED BY <2>2, <2>3
<1>8. ASSUME NEW n \in 0 .. 1, ServerReplies(n) PROVE RequestIsCarried'
  <2> DEFINE r == Cardinality(RequestsIn(Head(flight)))
             a == Answer(r, n)
  <2>1. /\ flight # <<>> /\ answers' = Append(answers, a)
        /\ UNCHANGED <<userPc, scUp, askedIn, epoch, scLost, scOut, scIn, got, ex>>
    BY <1>8 DEF ServerReplies
  <2>2. Head(flight) \in Seq(Messages) /\ mailNo \in Nat /\ n \in Nat
    <3>1. Head(flight) \in Seq(Messages)
      BY <1>8, AnsweredFacts
    <3> QED BY <3>1 DEF Control, SCTypes
  <2>3. r \in Nat /\ (Request \in ToSet(Head(flight)) => r # 0)
    BY <2>2, RequestsAreCounted
  <2> HIDE DEF r
  <2>4. /\ a \in Seq(Nat) /\ Len(a) = r + n
        /\ \A i \in 1 .. r + n : a[i] = IF i <= r THEN Reply ELSE mailNo + (i - r)
    BY <2>2, <2>3, AnswerType
  <2> HIDE DEF a
  <2>5. Len(flight) = 1 /\ answers = <<>> /\ \A t \in Threads : got[t] = <<>>
    BY <2>1, CarriedAlone
  <2>6. InTransit => OnWire(Request)
    BY <2>5 DEF InTransit, Has
  <2>7. OnWire(Request) => Has(a)
    <3>1. r # 0 => 1 \in 1 .. Len(a) /\ a[1] = Reply
      BY <2>2, <2>3, <2>4
    <3> QED BY <1>8, <2>3, <3>1, AnsweredFacts DEF Has
  <2>8. 1 \in 1 .. Len(answers') /\ answers'[1] = a
    BY <2>1, <2>5
  <2>9. InTransit => InTransit'
    BY <2>6, <2>7, <2>8, HasInTransit
  <2> QED BY <2>1, <2>9 DEF RequestIsCarried, Asked, Has
<1>9. CASE ServerRequest
  <2>1. /\ userPc = "idle" /\ userPc' = "request" /\ scOut' = Posted(Request) /\ UNCHANGED ex
    BY <1>9 DEF ServerRequest
  <2>2. Request \in ToSet(Posted(Request)) /\ ex["user"] = "none"
    <3>1. Request \in Messages /\ scOut \in Seq(Messages) /\ outLimit \in Nat \ {0}
      BY DEF Messages, Control, SCTypes
    <3> QED BY <2>1, <3>1, PostedFacts DEF Control, OneExchange, SCTypes, Threads
  <2> QED BY <2>1, <2>2 DEF RequestIsCarried
<1>10. ASSUME NEW t \in Threads, Lose(t) PROVE RequestIsCarried'
  BY <1>2, <1>10 DEF Lose
<1>11. CASE Post \/ Fetch \/ Flush \/ Peek \/ Close \/ Closed \/ EndLoop \/ \E k \in OutLimits : ExpectOutboxOverflow(k)
  <2> ~scUp' \/ userPc' \in {"idle", "pollAgain", "flush", "join"}
    BY <1>11 DEF Post, Fetch, Flush, Peek, Close, Closed, EndLoop, ExpectOutboxOverflow
  <2> QED BY <1>2
<1>12. CASE Run \/ StartToApply \/ Applied \/ Tick
  BY <1>1, <1>12 DEF Run, StartToApply, Applied, Tick
\* The client thread posts a registration while the user waits for the reply.
<1>12a. ASSUME NEW s \in Subs, ApplyRecurrentSubscriptions(s) PROVE RequestIsCarried'
  <2>1. /\ scOut' = Posted(Registration(s)) /\ scLost' = scLost \cup Discarded(Registration(s))
        /\ UNCHANGED <<userPc, ex, got, scIn, scUp, flight, answers, epoch, askedIn>>
    BY <1>12a DEF ApplyRecurrentSubscriptions
  <2>2. Registration(s) \in Messages /\ scOut \in Seq(Messages) /\ outLimit \in Nat \ {0}
    BY DEF Messages, Control, SCTypes
  <2>3. Request \in ToSet(scOut) => Request \in ToSet(scOut)' \/ Request \in scLost'
    BY <2>1, <2>2, PostedFacts
  <2>4. (InTransit' <=> InTransit) /\ (Has(scIn)' <=> Has(scIn))
    BY <2>1 DEF InTransit, Has, OnWire
  <2>5. Asked' => Asked /\ Request \notin scLost'
    BY <2>1 DEF Asked
  <2> QED BY <2>1, <2>3, <2>4, <2>5 DEF RequestIsCarried
<1>13. CASE \E s \in Subs : AddRecurrentSubscription(s) \/ RemoveRecurrentSubscription(s)
  BY <1>1, <1>13 DEF AddRecurrentSubscription, RemoveRecurrentSubscription
<1>14. CASE UNCHANGED scVars
  BY <1>1, <1>14 DEF scVars
<1>15. "loop" \in Threads /\ "user" \in Threads
  BY DEF Threads
<1> QED
  BY <1>3, <1>4, <1>5, <1>6, <1>7, <1>8, <1>9, <1>10, <1>11, <1>12, <1>12a, <1>13, <1>14, <1>15
     DEF SCNext, ClientLoop, Hook, UserThread, DoClientWork, Server

-----------------------------------------------------------------------------
(* Announcements and subscriptions                                         *)

LEMMA AnnouncedStep ==
    ASSUME UnreadIsPresent, [SCNext]_scVars
    PROVE  UnreadIsPresent'
<1> USE DEF boxes, conn, count, subs, UnreadIsPresent
<1>1. ASSUME NEW t \in Threads, DoClientWork(t) \/ Lose(t) PROVE UnreadIsPresent'
  BY <1>1 DEF DoClientWork, BeginWork, SendOutBox, ReadReply, Deliver, Present, Lose, ClearResources
<1>2. CASE Fetch \/ Peek \/ Closed
  BY <1>2 DEF Fetch, Peek, Closed, ClearResources
<1>3. CASE Run \/ ConnectToServer \/ Hook \/ Tick \/ EndLoop \/ Server
  BY <1>3 DEF Run, ConnectToServer, Hook, StartToApply, ApplyRecurrentSubscriptions, Applied, Tick, EndLoop,
              Server, ServerReplies
<1>4. CASE Post \/ Flush \/ ServerRequest \/ Close \/ \E k \in OutLimits : ExpectOutboxOverflow(k)
  BY <1>4 DEF Post, Flush, ServerRequest, Close, ExpectOutboxOverflow
<1>5. CASE \E s \in Subs : AddRecurrentSubscription(s) \/ RemoveRecurrentSubscription(s)
  BY <1>5 DEF AddRecurrentSubscription, RemoveRecurrentSubscription
<1>6. CASE UNCHANGED scVars
  BY <1>6 DEF scVars
<1>7. "loop" \in Threads /\ "user" \in Threads
  BY DEF Threads
<1> QED BY <1>1, <1>2, <1>3, <1>4, <1>5, <1>6, <1>7 DEF SCNext, ClientLoop, UserThread

\* A registration in the outbox goes into a packet, or the outbox loses it.
LEMMA BoxedStays ==
    ASSUME Control, scUp', [SCNext]_scVars, NEW s \in Subs, ~ConnectToServer
    PROVE  /\ Settled(s) => Settled(s)'
           /\ Sent(s) => Sent(s)'
           /\ Boxed(s) => Boxed(s)'
<1> DEFINE m == Registration(s)
<1> USE DEF boxes, conn, count, subs
<1>1. CASE UNCHANGED <<scReg, scLost, flight, scOut>>
  BY <1>1 DEF Settled, Sent, Boxed, OnWire
\* The outbox alone changes.
<1>2. ASSUME UNCHANGED <<scReg, flight>>, m \in scLost => m \in scLost',
             m \in ToSet(scOut) => m \in ToSet(scOut)' \/ m \in scLost'
      PROVE  /\ Settled(s) => Settled(s)'
             /\ Sent(s) => Sent(s)'
             /\ Boxed(s) => Boxed(s)'
  BY <1>2, WireKept DEF Settled, Sent, Boxed
<1>3. ASSUME NEW t \in Threads, SendOutBox(t)
      PROVE  /\ Settled(s) => Settled(s)'
             /\ Sent(s) => Sent(s)'
             /\ Boxed(s) => Boxed(s)'
  <2>1. UNCHANGED <<scReg, scLost>>
    BY <1>3 DEF SendOutBox
  <2>2. OnWire(m)' <=> OnWire(m) \/ m \in ToSet(scOut)
    BY <1>3, SentFacts
  <2> QED BY <2>1, <2>2 DEF Settled, Sent, Boxed
<1>4. ASSUME NEW n \in 0 .. 1, ServerReplies(n)
      PROVE  /\ Settled(s) => Settled(s)'
             /\ Sent(s) => Sent(s)'
             /\ Boxed(s) => Boxed(s)'
  <2>1. scReg' = scReg \cup RegisteredIn(Head(flight)) /\ UNCHANGED <<scLost, scOut>>
    BY <1>4 DEF ServerReplies
  <2>2. OnWire(m) => s \in scReg'
    BY <1>4, <2>1, AnsweredFacts DEF RegisteredIn
  <2> QED BY <2>1, <2>2 DEF Settled, Sent, Boxed
<1>5. scOut \in Seq(Messages) /\ outLimit \in Nat \ {0} /\ m # Request
  BY DEF Control, SCTypes, Registration, Request
<1>6. ASSUME NEW msg \in Messages, m \notin scLost', m \in scLost \cup Discarded(msg) => m \in scLost',
             scOut' = Posted(msg)
      PROVE  m \in ToSet(scOut) => m \in ToSet(scOut)'
  BY <1>5, <1>6, PostedFacts
<1>7. CASE Post
  <2>1. <<"post", posts'>> \in Messages
    <3>1. posts' \in Nat
      BY <1>7 DEF Post, Control, SCTypes
    <3> QED BY <3>1 DEF Messages
  <2>2. /\ scOut' = Posted(<<"post", posts'>>) /\ scLost' = scLost \cup Discarded(<<"post", posts'>>)
        /\ UNCHANGED <<scReg, flight>>
    BY <1>7 DEF Post
  <2> QED BY <1>2, <1>6, <2>1, <2>2
<1>8. CASE ServerRequest
  <2>1. /\ scOut' = Posted(Request) /\ scLost' = (scLost \cup Discarded(Request)) \ {Request}
        /\ UNCHANGED <<scReg, flight>> /\ Request \in Messages
    BY <1>8 DEF ServerRequest, Messages
  <2>2. m \in scLost \cup Discarded(Request) => m \in scLost'
    BY <1>5, <2>1
  <2> QED BY <1>2, <1>6, <2>1, <2>2
<1>9. ASSUME NEW r \in Subs, ApplyRecurrentSubscriptions(r)
      PROVE  /\ Settled(s) => Settled(s)'
             /\ Sent(s) => Sent(s)'
             /\ Boxed(s) => Boxed(s)'
  <2>1. /\ scOut' = Posted(Registration(r)) /\ scLost' = scLost \cup Discarded(Registration(r))
        /\ UNCHANGED <<scReg, flight>> /\ Registration(r) \in Messages
    BY <1>9 DEF ApplyRecurrentSubscriptions, Messages
  <2> QED BY <1>2, <1>6, <2>1
<1>10. ASSUME NEW k \in OutLimits, ExpectOutboxOverflow(k)
       PROVE  /\ Settled(s) => Settled(s)'
              /\ Sent(s) => Sent(s)'
              /\ Boxed(s) => Boxed(s)'
  <2>1. /\ scOut' = Newest(scOut, k) /\ scLost' = scLost \cup Oldest(scOut, k)
        /\ UNCHANGED <<scReg, flight>> /\ k \in Nat \ {0}
    BY <1>10, SyncAssumption DEF ExpectOutboxOverflow
  <2>2. m \in ToSet(scOut) => m \in ToSet(scOut)' \/ m \in scLost'
    BY <1>5, <2>1, NewestFacts
  <2> QED BY <1>2, <2>1, <2>2
<1>11. ASSUME NEW t \in Threads, BeginWork(t) \/ ReadReply(t) \/ Deliver(t) \/ Lose(t)
       PROVE  ~scUp' \/ UNCHANGED <<scReg, scLost, flight, scOut>>
  BY <1>11 DEF BeginWork, ReadReply, Deliver, Lose
<1>12. CASE Closed
  BY <1>12 DEF Closed, Control, Connecting
<1>13. CASE Run \/ StartToApply \/ Applied \/ Tick \/ EndLoop \/ Fetch \/ Flush \/ Peek \/ Close
  BY <1>1, <1>13 DEF Run, StartToApply, Applied, Tick, EndLoop, Fetch, Flush, Peek, Close
<1>14. CASE \E r \in Subs : AddRecurrentSubscription(r) \/ RemoveRecurrentSubscription(r)
  BY <1>1, <1>14 DEF AddRecurrentSubscription, RemoveRecurrentSubscription
<1>15. CASE UNCHANGED scVars
  BY <1>1, <1>15 DEF scVars
<1>16. "loop" \in Threads /\ "user" \in Threads
  BY DEF Threads
<1> QED
  BY <1>1, <1>3, <1>4, <1>7, <1>8, <1>9, <1>10, <1>11, <1>12, <1>13, <1>14, <1>15, <1>16
     DEF SCNext, ClientLoop, Hook, UserThread, DoClientWork, Server

\* A step of the connection leaves nothing due that was not due before it.
LEMMA DueKept ==
    ASSUME Control, [SCNext]_scVars, ~ConnectToServer
    PROVE  Due' \subseteq Due /\ Due \subseteq Subs
<1> USE DEF boxes, conn, count, subs
<1>1. UNCHANGED epoch /\ epoch \in Nat
  BY DEF SCNext, ClientLoop, Hook, UserThread, DoClientWork, Server, Run, StartToApply, ApplyRecurrentSubscriptions,
         Applied, Tick, EndLoop, BeginWork, SendOutBox, ReadReply, Deliver, Closed, ServerReplies, Lose, Post, Fetch,
         Flush, ServerRequest, Peek, Close, ExpectOutboxOverflow, AddRecurrentSubscription,
         RemoveRecurrentSubscription, scVars, Control, SCTypes
<1>2. ASSUME NEW s \in Subs, AddRecurrentSubscription(s) PROVE Due' \subseteq Due
  <2>1. recurrent' = [r \in DOMAIN recurrent \cup {s} |-> IF r = s THEN epoch ELSE recurrent[r]]
    BY <1>2 DEF AddRecurrentSubscription
  <2>2. ~(epoch < epoch)
    BY <1>1
  <2> QED BY <1>1, <2>1, <2>2 DEF Due
<1>3. ASSUME NEW s \in Subs, RemoveRecurrentSubscription(s) PROVE Due' \subseteq Due
  <2>1. recurrent' = [r \in DOMAIN recurrent \ {s} |-> recurrent[r]]
    BY <1>3 DEF RemoveRecurrentSubscription
  <2> QED BY <1>1, <2>1 DEF Due
<1>4. ASSUME UNCHANGED recurrent PROVE Due' = Due
  BY <1>1, <1>4, Zenon DEF Due
<1>5. \/ UNCHANGED recurrent
      \/ \E s \in Subs : AddRecurrentSubscription(s) \/ RemoveRecurrentSubscription(s)
  BY DEF SCNext, ClientLoop, Hook, UserThread, DoClientWork, Server, Run, StartToApply, ApplyRecurrentSubscriptions,
         Applied, Tick, EndLoop, BeginWork, SendOutBox, ReadReply, Deliver, Closed, ServerReplies, Lose, Post, Fetch,
         Flush, ServerRequest, Peek, Close, ExpectOutboxOverflow, scVars
<1>6. Due \subseteq Subs
  BY DEF Due, Control, SCTypes
<1> QED BY <1>2, <1>3, <1>4, <1>5, <1>6

\* The client thread's way from a connection to its first exchange.
LEMMA RecurringStep ==
    ASSUME Control, RegistrationIsCarried, [SCNext]_scVars
    PROVE  RegistrationIsCarried'
<1> USE DEF boxes, conn, count, subs
<1>1. CASE ~scUp' \/ loopPc' \notin {"apply", "work", "tick"}
  BY <1>1 DEF RegistrationIsCarried
<1>2. CASE ConnectToServer
  <2>1. loopPc' \in {"connect", "hook"}
    BY <1>2 DEF ConnectToServer
  <2> QED BY <1>1, <2>1
<1> SUFFICES ASSUME ~ConnectToServer, scUp', NEW s \in Due'
             PROVE  /\ loopPc' = "apply" => s \in toApply' \/ Boxed(s)'
                    /\ loopPc' = "work" => Boxed(s)'
                    /\ loopPc' = "work" /\ ex'["loop"] \in {"read", "deliver"} => Sent(s)'
                    /\ loopPc' = "tick" => Settled(s)'
  BY <1>2 DEF RegistrationIsCarried
<1>3. /\ s \in Due /\ s \in Subs /\ s \in DOMAIN recurrent
      /\ Settled(s) => Settled(s)'
      /\ Sent(s) => Sent(s)'
      /\ Boxed(s) => Boxed(s)'
  <2>1. s \in Due /\ s \in Subs
    BY DueKept
  <2> QED BY <2>1, BoxedStays DEF Due
<1>4. scUp
  BY DEF SCNext, ClientLoop, Hook, UserThread, DoClientWork, Server, Run, StartToApply, ApplyRecurrentSubscriptions,
         Applied, Tick, EndLoop, BeginWork, SendOutBox, ReadReply, Deliver, Closed, ServerReplies, Lose, Post, Fetch,
         Flush, ServerRequest, Peek, Close, ExpectOutboxOverflow, AddRecurrentSubscription,
         RemoveRecurrentSubscription, scVars
<1>5. /\ loopPc = "apply" => s \in toApply \/ Boxed(s)
      /\ loopPc = "work" => Boxed(s)
      /\ loopPc = "work" /\ ex["loop"] \in {"read", "deliver"} => Sent(s)
      /\ loopPc = "tick" => Settled(s)
  BY <1>3, <1>4 DEF RegistrationIsCarried
<1>6. CASE UNCHANGED <<loopPc, toApply>> /\ UNCHANGED ex["loop"]
  BY <1>3, <1>5, <1>6
<1>7. Settled(s) => Sent(s)
  BY DEF Sent
<1>8. CASE StartToApply
  BY <1>3, <1>8 DEF StartToApply
<1>9. CASE Applied
  <2>1. toApply = {} /\ loopPc = "apply" /\ loopPc' = "work" /\ UNCHANGED ex
    BY <1>4, <1>9 DEF Applied, AllApplied
  <2>2. ex["loop"] = "none"
    BY <2>1 DEF Control, OneExchange, SCTypes, Threads
  <2> QED BY <1>3, <1>5, <2>1, <2>2
<1>10. ASSUME NEW r \in Subs, ApplyRecurrentSubscriptions(r)
       PROVE  loopPc' = "apply" /\ (s \in toApply' \/ Boxed(s)')
  <2>1. /\ toApply' = toApply \ {r} /\ loopPc = "apply" /\ UNCHANGED loopPc /\ scOut' = Posted(Registration(r))
    BY <1>10 DEF ApplyRecurrentSubscriptions
  <2>2. s = r => Boxed(s)'
    <3>1. Registration(r) \in Messages /\ scOut \in Seq(Messages) /\ outLimit \in Nat \ {0}
      BY DEF Messages, Control, SCTypes
    <3>2. Registration(r) \in ToSet(scOut)'
      BY <2>1, <3>1, PostedFacts
    <3> QED BY <3>2 DEF Boxed
  <2> QED BY <1>3, <1>5, <2>1, <2>2
<1>11. CASE Tick
  <2>1. loopPc = "tick" /\ loopPc' \in {"connect", "work"} /\ UNCHANGED ex
    BY <1>11 DEF Tick
  <2>2. Settled(s) => Boxed(s)
    BY DEF Sent, Boxed
  <2> QED BY <1>3, <1>5, <1>7, <2>1, <2>2
<1>12. CASE Run \/ EndLoop \/ Closed
  BY <1>12 DEF Run, EndLoop, Closed
<1>13. ASSUME NEW t \in Threads, BeginWork(t)
       PROVE  UNCHANGED <<loopPc, toApply>> /\ ex'["loop"] \in {ex["loop"], "send"}
  <2>1. UNCHANGED <<loopPc, toApply>> /\ ex' = [ex EXCEPT ![t] = "send"]
    BY <1>4, <1>13 DEF BeginWork
  <2> QED BY <2>1 DEF Control, SCTypes, Threads
<1>14. ASSUME NEW t \in Threads, SendOutBox(t)
       PROVE  UNCHANGED <<loopPc, toApply>> /\ (Boxed(s) => Sent(s)')
  <2>1. UNCHANGED <<loopPc, toApply>>
    BY <1>14 DEF SendOutBox
  <2>2. OnWire(Registration(s))' <=> OnWire(Registration(s)) \/ Registration(s) \in ToSet(scOut)
    BY <1>14, SentFacts
  <2> QED BY <1>3, <2>1, <2>2 DEF Boxed, Sent
<1>15. ASSUME NEW t \in Threads, ReadReply(t)
       PROVE  UNCHANGED <<loopPc, toApply>> /\ (ex'["loop"] # ex["loop"] => ex["loop"] = "read")
  <2>1. UNCHANGED <<loopPc, toApply>> /\ ex' = [ex EXCEPT ![t] = "deliver"] /\ ex[t] = "read"
    BY <1>15 DEF ReadReply
  <2> QED BY <2>1 DEF Control, SCTypes, Threads
<1>16. ASSUME NEW t \in Threads, Deliver(t)
       PROVE  \/ UNCHANGED <<loopPc, toApply>> /\ UNCHANGED ex["loop"]
              \/ loopPc' = "tick" /\ loopPc = "work" /\ ex["loop"] = "deliver" /\ flight = <<>>
  <2>1. ex[t] = "deliver" /\ ex' = [ex EXCEPT ![t] = "none"] /\ UNCHANGED toApply
    BY <1>16 DEF Deliver
  <2>2. CASE t = "loop"
    <3>1. loopPc' = "tick"
      BY <1>16, <2>2 DEF Deliver, BackIn
    <3>2. loopPc = "work" /\ flight = <<>>
      BY <2>1, <2>2, CarriedAlone DEF Control, OneExchange, Threads
    <3> QED BY <2>1, <2>2, <3>1, <3>2
  <2>3. CASE t = "user"
    <3>1. UNCHANGED loopPc
      BY <1>16, <2>3 DEF Deliver, BackIn
    <3> QED BY <2>1, <2>3, <3>1 DEF Control, SCTypes, Threads
  <2> QED BY <2>2, <2>3 DEF Threads
<1>17. CASE \E t \in Threads : Lose(t)
  BY <1>17 DEF Lose
<1>18. CASE Server \/ Fetch \/ Peek \/ Post \/ Flush \/ ServerRequest \/ Close
        \/ \E k \in OutLimits : ExpectOutboxOverflow(k)
  BY <1>6, <1>18 DEF Server, ServerReplies, Fetch, Peek, Post, Flush, ServerRequest, Close, ExpectOutboxOverflow
<1>19. CASE \E r \in Subs : AddRecurrentSubscription(r) \/ RemoveRecurrentSubscription(r)
  BY <1>6, <1>19 DEF AddRecurrentSubscription, RemoveRecurrentSubscription
<1>20. CASE UNCHANGED scVars
  BY <1>6, <1>20 DEF scVars
<1>21. ASSUME NEW t \in Threads, BeginWork(t) \/ SendOutBox(t) \/ ReadReply(t) \/ Deliver(t)
       PROVE  /\ loopPc' = "apply" => s \in toApply' \/ Boxed(s)'
              /\ loopPc' = "work" => Boxed(s)'
              /\ loopPc' = "work" /\ ex'["loop"] \in {"read", "deliver"} => Sent(s)'
              /\ loopPc' = "tick" => Settled(s)'
  <2>1. CASE BeginWork(t)
    BY <1>3, <1>5, <1>13, <2>1
  <2>2. CASE SendOutBox(t)
    BY <1>3, <1>5, <1>14, <2>2
  <2>3. CASE ReadReply(t)
    BY <1>3, <1>5, <1>15, <2>3
  <2>4. CASE Deliver(t)
    <3>1. flight = <<>> /\ Sent(s) => Settled(s)
      BY DEF Sent, OnWire
    <3> QED BY <1>3, <1>5, <1>6, <1>16, <2>4, <3>1
  <2> QED BY <1>21, <2>1, <2>2, <2>3, <2>4
<1>22. "loop" \in Threads /\ "user" \in Threads
  BY DEF Threads
<1>23. ASSUME NEW r \in Subs, ApplyRecurrentSubscriptions(r)
       PROVE  /\ loopPc' = "apply" => s \in toApply' \/ Boxed(s)'
              /\ loopPc' = "work" => Boxed(s)'
              /\ loopPc' = "work" /\ ex'["loop"] \in {"read", "deliver"} => Sent(s)'
              /\ loopPc' = "tick" => Settled(s)'
  BY <1>10, <1>23
<1> QED
  BY <1>8, <1>9, <1>11, <1>12, <1>17, <1>18, <1>19, <1>20, <1>21, <1>22, <1>23
     DEF SCNext, ClientLoop, Hook, UserThread, DoClientWork

-----------------------------------------------------------------------------
(* Two threads share one socket: the client's own, which calls the database in at a fixed rate,
   and the user's, which does so in Flush and in ServerRequest.  Whatever the limits of the boxes,
   and however often the connection is lost or the client closed and run again, mail is read in
   the order in which the database sent it, mail in the inbox is announced to Fetch, a request
   whose packet was answered finds its reply in the inbox, and the database has the recurrent
   subscriptions after the client thread's first exchange of each new connection; a request or a
   registration is missing only if the outbox lost it at its limit. *)
THEOREM SyncClientIsRight == SCSpec => []SyncClientIsSound
<1>1. SCInit => SCInv
  <2>1. SCInit => UnreadIsPresent /\ RegistrationIsCarried
    BY DEF SCInit, UnreadIsPresent, RegistrationIsCarried
  <2> QED BY <2>1, ControlStarts, OrderedStarts, CarriedStarts DEF SCInv
<1>2. SCInv /\ [SCNext]_scVars => SCInv'
  BY ControlStep, OrderedStep, CarriedStep, AnnouncedStep, RecurringStep DEF SCInv
<1>3. SCInv => SyncClientIsSound
  <2> SUFFICES ASSUME SCInv PROVE SyncClientIsSound
    OBVIOUS
  <2>1. SyncMailInOrder
    BY DEF SCInv, Ordered, MailSorted, History, SyncMailInOrder
  <2>2. FlushBringsTheReply
    BY DEF SCInv, RequestIsCarried, Asked, Has, FlushBringsTheReply, Replies
  <2>3. SubscriptionsRecur
    BY DEF SCInv, RegistrationIsCarried, Due, Settled, SubscriptionsRecur
  <2> QED BY <2>1, <2>2, <2>3 DEF SCInv, SyncClientIsSound
<1> QED BY <1>1, <1>2, <1>3, PTL DEF SCSpec
=============================================================================
