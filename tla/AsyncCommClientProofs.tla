------------------------- MODULE AsyncCommClientProofs -------------------------
(***************************************************************************)
(* Proofs about AsyncCommClient for every number of threads, variables,    *)
(* connections, posts and mail, whatever the limits of the boxes and       *)
(* whichever database is at the other end.                                 *)
(***************************************************************************)
EXTENDS AsyncCommClient, SequenceTheorems, WellFoundedInduction, TLAPS

--------------------------------------------------------------------------------
(* Sequences of numbers                                                    *)

\* Every message of s was numbered before every message of t.
Precedes(s, t) == \A a \in Elements(s), b \in Elements(t) : IsMsg(a) /\ IsMsg(b) => a < b

\* A longer sequence is in order when what is added is new.
LEMMA AppendFacts ==
    ASSUME NEW s \in Seq(Nat), NEW n \in Nat
    PROVE  /\ Append(s, n) \in Seq(Nat)
           /\ Elements(Append(s, n)) = Elements(s) \cup {n}
           /\ InOrder(s) /\ (\A e \in Elements(s) : IsMsg(e) /\ IsMsg(n) => e < n)
                  => InOrder(Append(s, n))
<1> DEFINE t == Append(s, n)
<1>1. /\ t \in Seq(Nat) /\ Len(t) = Len(s) + 1 /\ Len(s) \in Nat
      /\ DOMAIN s = 1..Len(s) /\ DOMAIN t = 1..(Len(s) + 1)
      /\ t[Len(s) + 1] = n /\ \A i \in DOMAIN s : t[i] = s[i]
  OBVIOUS
<1> HIDE DEF t
<1>2. Elements(t) = Elements(s) \cup {n}
  BY <1>1 DEF Elements
<1>3. ASSUME InOrder(s), \A e \in Elements(s) : IsMsg(e) /\ IsMsg(n) => e < n,
             NEW i \in DOMAIN t, NEW j \in DOMAIN t, i < j, IsMsg(t[i]), IsMsg(t[j])
      PROVE  t[i] < t[j]
  <2>1. i \in DOMAIN s /\ t[i] = s[i]
    BY <1>1, <1>3
  <2>2. CASE j \in DOMAIN s
    BY <1>1, <1>3, <2>1, <2>2 DEF InOrder
  <2>3. CASE j = Len(s) + 1
    BY <1>1, <1>3, <2>1, <2>3 DEF Elements
  <2> QED BY <1>1, <2>2, <2>3
<1>4. InOrder(s) /\ (\A e \in Elements(s) : IsMsg(e) /\ IsMsg(n) => e < n) => InOrder(t)
  BY <1>3 DEF InOrder
<1> QED BY <1>1, <1>2, <1>4 DEF t

\* Where the elements of a concatenation come from.
LEMMA ConcatParts ==
    ASSUME NEW s \in Seq(Nat), NEW t \in Seq(Nat)
    PROVE  /\ s \o t \in Seq(Nat) /\ Len(s \o t) = Len(s) + Len(t)
           /\ DOMAIN (s \o t) = 1..(Len(s) + Len(t))
           /\ \A i \in 1..Len(s) : (s \o t)[i] = s[i]
           /\ \A i \in 1..Len(t) : (s \o t)[Len(s) + i] = t[i]
  OBVIOUS

\* One sequence after another.
LEMMA ConcatFacts ==
    ASSUME NEW s \in Seq(Nat), NEW t \in Seq(Nat)
    PROVE  /\ s \o t \in Seq(Nat)
           /\ Elements(s \o t) = Elements(s) \cup Elements(t)
           /\ InOrder(s) /\ InOrder(t) /\ Precedes(s, t) => InOrder(s \o t)
           /\ InOrder(s \o t) => InOrder(s) /\ InOrder(t) /\ Precedes(s, t)
<1> DEFINE c == s \o t
<1>1. /\ c \in Seq(Nat) /\ Len(c) = Len(s) + Len(t) /\ Len(s) \in Nat /\ Len(t) \in Nat
      /\ DOMAIN s = 1..Len(s) /\ DOMAIN t = 1..Len(t) /\ DOMAIN c = 1..(Len(s) + Len(t))
      /\ \A i \in 1..Len(s) : c[i] = s[i]
      /\ \A i \in 1..Len(t) : c[Len(s) + i] = t[i]
  BY ConcatParts
<1> HIDE DEF c
<1>2. \A i \in DOMAIN c : (i \in DOMAIN s /\ c[i] = s[i])
                          \/ (i - Len(s) \in DOMAIN t /\ c[i] = t[i - Len(s)] /\ i > Len(s))
  <2> TAKE i \in DOMAIN c
  <2>1. CASE i <= Len(s)
    BY <1>1, <2>1
  <2>2. CASE i > Len(s)
    <3>1. i - Len(s) \in 1..Len(t) /\ Len(s) + (i - Len(s)) = i
      BY <1>1, <2>2
    <3> QED BY <1>1, <2>2, <3>1
  <2> QED BY <1>1, <2>1, <2>2
<1>3. Elements(c) = Elements(s) \cup Elements(t)
  <2>1. Elements(c) \subseteq Elements(s) \cup Elements(t)
    BY <1>2 DEF Elements
  <2>2. ASSUME NEW i \in DOMAIN s PROVE s[i] \in Elements(c)
    <3>1. i \in DOMAIN c /\ c[i] = s[i]
      BY <1>1
    <3> QED BY <3>1 DEF Elements
  <2>3. ASSUME NEW i \in DOMAIN t PROVE t[i] \in Elements(c)
    <3>1. Len(s) + i \in DOMAIN c /\ c[Len(s) + i] = t[i]
      BY <1>1
    <3> QED BY <3>1 DEF Elements
  <2> QED BY <2>1, <2>2, <2>3 DEF Elements
<1>4. ASSUME InOrder(s), InOrder(t), Precedes(s, t),
             NEW i \in DOMAIN c, NEW j \in DOMAIN c, i < j, IsMsg(c[i]), IsMsg(c[j])
      PROVE  c[i] < c[j]
  <2>1. CASE j \in DOMAIN s
    <3>1. i \in DOMAIN s /\ c[i] = s[i] /\ c[j] = s[j]
      BY <1>1, <1>4, <2>1
    <3> QED BY <1>4, <2>1, <3>1 DEF InOrder
  <2>2. CASE i \notin DOMAIN s
    <3>1. /\ i - Len(s) \in DOMAIN t /\ j - Len(s) \in DOMAIN t /\ i - Len(s) < j - Len(s)
          /\ c[i] = t[i - Len(s)] /\ c[j] = t[j - Len(s)]
      BY <1>1, <1>2, <1>4, <2>2, SMTT(20)
    <3> QED BY <1>4, <3>1 DEF InOrder
  <2>3. CASE i \in DOMAIN s /\ j \notin DOMAIN s
    <3>1. c[i] = s[i] /\ j - Len(s) \in DOMAIN t /\ c[j] = t[j - Len(s)]
      BY <1>1, <1>2, <2>3
    <3> QED BY <1>4, <2>3, <3>1 DEF Precedes, Elements
  <2> QED BY <2>1, <2>2, <2>3
<1>5. ASSUME InOrder(c) PROVE InOrder(s) /\ InOrder(t) /\ Precedes(s, t)
  <2>1. InOrder(s)
    BY <1>1, <1>5 DEF InOrder
  <2>2. ASSUME NEW i \in DOMAIN t, NEW j \in DOMAIN t, i < j, IsMsg(t[i]), IsMsg(t[j])
        PROVE  t[i] < t[j]
    <3>1. c[Len(s) + i] = t[i] /\ c[Len(s) + j] = t[j]
      BY <1>1
    <3>2. Len(s) + i \in DOMAIN c /\ Len(s) + j \in DOMAIN c /\ Len(s) + i < Len(s) + j
      <4>1. DOMAIN t = 1..Len(t) /\ DOMAIN c = 1..(Len(s) + Len(t)) /\ Len(s) \in Nat /\ Len(t) \in Nat
        BY <1>1
      <4> QED BY <2>2, <4>1
    <3> QED BY <1>5, <2>2, <3>1, <3>2 DEF InOrder
  <2>3. ASSUME NEW i \in DOMAIN s, NEW j \in DOMAIN t, IsMsg(s[i]), IsMsg(t[j])
        PROVE  s[i] < t[j]
    <3>1. /\ i \in DOMAIN c /\ Len(s) + j \in DOMAIN c /\ i < Len(s) + j
          /\ c[i] = s[i] /\ c[Len(s) + j] = t[j]
      BY <1>1, SMTT(20)
    <3> QED BY <1>5, <2>3, <3>1 DEF InOrder
  <2>4. InOrder(t)
    BY <2>2 DEF InOrder
  <2>5. Precedes(s, t)
    BY <2>3 DEF Precedes, Elements
  <2> QED BY <2>1, <2>4, <2>5
<1>6. InOrder(s) /\ InOrder(t) /\ Precedes(s, t) => InOrder(c)
  BY <1>4 DEF InOrder
<1> QED BY <1>1, <1>3, <1>5, <1>6 DEF c

\* The end of a sequence keeps its order.
LEMMA SubSeqFacts ==
    ASSUME NEW s \in Seq(Nat), NEW m \in 1..(Len(s) + 1)
    PROVE  /\ SubSeq(s, m, Len(s)) \in Seq(Nat)
           /\ Elements(SubSeq(s, m, Len(s))) \subseteq Elements(s)
           /\ InOrder(s) => InOrder(SubSeq(s, m, Len(s)))
<1> DEFINE t == SubSeq(s, m, Len(s))
<1>1. /\ t \in Seq(Nat) /\ Len(t) = Len(s) - m + 1 /\ Len(s) \in Nat
      /\ DOMAIN s = 1..Len(s) /\ DOMAIN t = 1..(Len(s) - m + 1)
      /\ \A i \in 1..(Len(s) - m + 1) : t[i] = s[m + i - 1]
  OBVIOUS
<1> HIDE DEF t
<1>2. \A i \in DOMAIN t : m + i - 1 \in DOMAIN s /\ t[i] = s[m + i - 1]
  <2> TAKE i \in DOMAIN t
  <2>1. m \in Nat /\ i \in Nat /\ m >= 1 /\ i >= 1 /\ i <= Len(s) - m + 1
    BY <1>1
  <2>2. m + i - 1 \in 1..Len(s)
    BY <1>1, <2>1, SMTT(20)
  <2> QED BY <1>1, <2>2
<1>3. Elements(t) \subseteq Elements(s)
  BY <1>2 DEF Elements
<1>4. ASSUME InOrder(s), NEW i \in DOMAIN t, NEW j \in DOMAIN t, i < j, IsMsg(t[i]), IsMsg(t[j])
      PROVE  t[i] < t[j]
  <2>1. m + i - 1 < m + j - 1
    BY <1>1, <1>4
  <2> QED BY <1>2, <1>4, <2>1 DEF InOrder
<1>5. InOrder(s) => InOrder(t)
  BY <1>4 DEF InOrder
<1> QED BY <1>1, <1>3, <1>5 DEF t

\* So does what is behind the first.
LEMMA TailFacts ==
    ASSUME NEW s \in Seq(Nat), s # <<>>
    PROVE  /\ Tail(s) \in Seq(Nat)
           /\ Elements(Tail(s)) \subseteq Elements(s)
           /\ InOrder(s) => InOrder(Tail(s))
<1>1. 2 \in 1..(Len(s) + 1) /\ Tail(s) = SubSeq(s, 2, Len(s))
  OBVIOUS
<1> QED BY <1>1, SubSeqFacts

\* Nothing is in order.
LEMMA EmptyFacts == <<>> \in Seq(Nat) /\ Elements(<<>>) = {} /\ InOrder(<<>>)
  BY DEF Elements, InOrder

\* A set of numbers that has 0, and the successor of each of its members, has them all.
LEMMA NatSetInduction ==
    ASSUME NEW S, 0 \in S, \A n \in Nat : n \in S => n + 1 \in S
    PROVE  Nat \subseteq S
<1> DEFINE T == Nat \ S
<1> SUFFICES ASSUME T # {} PROVE FALSE
  OBVIOUS
<1>1. IsWellFoundedOn(OpToRel(<, Nat), Nat)
  BY NatLessThanWellFounded
<1>2. \E x \in T : \A y \in T : ~ (<<y, x>> \in OpToRel(<, Nat))
  <2> HIDE DEF T
  <2>1. T \subseteq Nat
    BY DEF T
  <2> QED BY <1>1, <2>1, WFMin
<1>3. PICK x \in T : \A y \in T : ~ (<<y, x>> \in OpToRel(<, Nat))
  BY <1>2
<1>4. \A y \in T : ~ (y < x)
  BY <1>3 DEF OpToRel
<1>5. x # 0 /\ x - 1 \in Nat
  OBVIOUS
<1>6. x - 1 \in S
  BY <1>4, <1>5
<1> QED BY <1>5, <1>6

\* The function WithoutNull computes with, as far as k.
KeptUpTo(s, k, g) ==
    g = [n \in 0..k |-> IF n = 0 THEN <<>>
                        ELSE IF IsMsg(s[n]) THEN Append(g[n - 1], s[n]) ELSE g[n - 1]]

\* There is such a function.
LEMMA KeptExists ==
    ASSUME NEW s, NEW k \in Nat
    PROVE  \E g : KeptUpTo(s, k, g)
<1> DEFINE S == {j \in Nat : \E g : KeptUpTo(s, j, g)}
<1>1. 0 \in S
  <2>1. KeptUpTo(s, 0, [n \in 0..0 |-> <<>>])
    BY DEF KeptUpTo
  <2> QED BY <2>1
<1>2. ASSUME NEW j \in Nat, j \in S PROVE j + 1 \in S
  <2>1. PICK g : KeptUpTo(s, j, g)
    BY <1>2
  <2> DEFINE h == [n \in 0..(j + 1) |->
                     IF n = j + 1 THEN (IF IsMsg(s[n]) THEN Append(g[j], s[n]) ELSE g[j]) ELSE g[n]]
  <2>2. \A n \in 0..j : g[n] = IF n = 0 THEN <<>>
                               ELSE IF IsMsg(s[n]) THEN Append(g[n - 1], s[n]) ELSE g[n - 1]
    BY <2>1 DEF KeptUpTo
  <2>3. ASSUME NEW n \in 0..(j + 1)
        PROVE  h[n] = IF n = 0 THEN <<>>
                      ELSE IF IsMsg(s[n]) THEN Append(h[n - 1], s[n]) ELSE h[n - 1]
    <3>1. \A i \in 0..j : h[i] = g[i]
      OBVIOUS
    <3>2. h[j + 1] = IF IsMsg(s[j + 1]) THEN Append(g[j], s[j + 1]) ELSE g[j]
      OBVIOUS
    <3> HIDE DEF h
    <3>3. CASE n \in 0..j
      <4>1. n # 0 => n - 1 \in 0..j
        BY <3>3
      <4> QED BY <2>2, <3>1, <3>3, <4>1
    <3>4. CASE n = j + 1
      BY <3>1, <3>2, <3>4
    <3> QED BY <3>3, <3>4
  <2>4. h = [n \in 0..(j + 1) |-> h[n]]
    OBVIOUS
  <2>5. KeptUpTo(s, j + 1, h)
    <3> HIDE DEF h
    <3> QED BY <2>3, <2>4 DEF KeptUpTo
  <2> QED BY <2>5
<1> HIDE DEF S
<1>3. Nat \subseteq S
  BY <1>1, <1>2, NatSetInduction
<1> QED BY <1>3 DEF S

\* remove_if keeps the messages, in their order, and nothing else.
LEMMA WithoutNullFacts ==
    ASSUME NEW s \in Seq(Nat), InOrder(s)
    PROVE  /\ WithoutNull(s) \in Seq(Nat)
           /\ Elements(WithoutNull(s)) \subseteq Elements(s) \ {0}
           /\ InOrder(WithoutNull(s))
<1> DEFINE g == CHOOSE g : KeptUpTo(s, Len(s), g)
<1>0. Len(s) \in Nat /\ DOMAIN s = 1..Len(s) /\ \A i \in DOMAIN s : s[i] \in Nat
  OBVIOUS
<1>1. KeptUpTo(s, Len(s), g)
  <2>1. \E h : KeptUpTo(s, Len(s), h)
    BY <1>0, KeptExists
  <2> QED BY <2>1, Zenon
<1>2. WithoutNull(s) = g[Len(s)]
  BY DEF WithoutNull, KeptUpTo
<1> HIDE DEF g
<1>3. /\ g[0] = <<>>
      /\ \A n \in 1..Len(s) : g[n] = IF IsMsg(s[n]) THEN Append(g[n - 1], s[n]) ELSE g[n - 1]
  <2>1. \A n \in 0..Len(s) : g[n] = IF n = 0 THEN <<>>
                             ELSE IF IsMsg(s[n]) THEN Append(g[n - 1], s[n]) ELSE g[n - 1]
    BY <1>1 DEF KeptUpTo
  <2> QED BY <1>0, <2>1
<1> DEFINE Good(n) == /\ g[n] \in Seq(Nat)
                      /\ Elements(g[n]) \subseteq {s[i] : i \in 1..n} \ {0}
                      /\ InOrder(g[n])
           S == {n \in Nat : n <= Len(s) => Good(n)}
<1>4. 0 \in S
  BY <1>3, EmptyFacts
<1>5. ASSUME NEW n \in Nat, n \in S PROVE n + 1 \in S
  <2> SUFFICES ASSUME n + 1 <= Len(s) PROVE Good(n + 1)
    OBVIOUS
  <2>1. Good(n) /\ n + 1 \in DOMAIN s
    BY <1>0, <1>5
  <2>2. g[n + 1] = IF IsMsg(s[n + 1]) THEN Append(g[n], s[n + 1]) ELSE g[n]
    <3>1. n + 1 \in 1..Len(s) /\ (n + 1) - 1 = n
      BY <1>0
    <3> QED BY <1>3, <3>1
  <2>3. CASE ~IsMsg(s[n + 1])
    BY <2>1, <2>2, <2>3
  <2>4. CASE IsMsg(s[n + 1])
    <3>1. s[n + 1] \in Nat /\ s[n + 1] # 0
      BY <1>0, <2>1, <2>4 DEF IsMsg
    <3>2. \A e \in Elements(g[n]) : e < s[n + 1]
      <4>1. ASSUME NEW i \in 1..n, s[i] # 0 PROVE s[i] < s[n + 1]
        BY <1>0, <2>1, <3>1, <4>1 DEF InOrder, IsMsg
      <4> QED BY <2>1, <4>1
    <3>3. g[n + 1] = Append(g[n], s[n + 1])
      BY <2>2, <2>4
    <3>4. /\ g[n + 1] \in Seq(Nat) /\ InOrder(g[n + 1])
          /\ Elements(g[n + 1]) = Elements(g[n]) \cup {s[n + 1]}
      BY <2>1, <3>1, <3>2, <3>3, AppendFacts
    <3>5. Elements(g[n + 1]) \subseteq {s[i] : i \in 1..(n + 1)} \ {0}
      BY <2>1, <3>1, <3>4
    <3> QED BY <3>4, <3>5
  <2> QED BY <2>3, <2>4
<1>6. Good(Len(s))
  <2> HIDE DEF Good
  <2>1. Nat \subseteq S
    <3> HIDE DEF S
    <3> QED BY <1>4, <1>5, NatSetInduction
  <2> QED BY <1>0, <2>1
<1> QED BY <1>0, <1>2, <1>6 DEF Elements

--------------------------------------------------------------------------------
(* The inductive invariant                                                 *)

\* The connection, and the writing thread with it: from the new socket on it has one.
LinkOK ==
    /\ link \in [Conns -> {"none", "up", "down", "closed"}]
    /\ nconn \in 0..MaxConns
    /\ sock \in 0..nconn
    /\ lastConn \in 0..nconn
    /\ wpc \in {"new", "connect", "connected", "handshake", "stamp", "apply", "write", "send",
                "close", "disconnect", "clear", "done"}
    /\ wpc \in {"connect", "connected", "handshake", "stamp", "apply", "write", "send", "close"}
           => sock # Null
    /\ connected => nconn # 0

\* The other threads.
ThreadsOK ==
    /\ nconn \in Nat
    /\ rsock \in 0..nconn
    /\ rstart \in 0..nconn
    /\ rpc \in {"loop", "enter", "read", "deliver", "fail", "tell", "wait", "done"}
    /\ cpc \in {"running", "reader", "stop", "writer", "closed"}
    /\ runs \in 0..MaxRuns
    /\ todo \subseteq Vars

FlagsOK ==
    /\ connected \in BOOLEAN /\ quit \in BOOLEAN /\ wquit \in BOOLEAN /\ rquit \in BOOLEAN
    /\ poisoned \in BOOLEAN /\ crashed \in BOOLEAN

\* A thread in Post has a message to post.
PostersOK ==
    /\ posted \in Seq(Request)
    /\ registered \subseteq Vars
    /\ upc \in [Posters -> {"idle", "box", "splice", "note"}]
    /\ ureq \in [Posters -> Request \cup {NoRequest}]
    /\ \A u \in Posters : upc[u] # "idle" => ureq[u] \in Request

\* A list of messages of which n have been posted.
Posts(s, n) == s \in Seq(Nat) /\ Elements(s) \subseteq 0..n /\ InOrder(s)

\* Each list is in order, and each goes before the next; no request to terminate is sent.
OutOK ==
    /\ Posts(outbox, Len(posted)) /\ Posts(out, Len(posted)) /\ Posts(stuff, Len(posted))
    /\ sent \in Seq([id : Nat, on : Conns])
    /\ Posts(Ids(sent), Len(posted))
    /\ 0 \notin Elements(stuff) /\ 0 \notin Elements(Ids(sent))
    /\ Precedes(Ids(sent), stuff) /\ Precedes(Ids(sent), out) /\ Precedes(Ids(sent), outbox)
    /\ Precedes(stuff, out) /\ Precedes(stuff, outbox) /\ Precedes(out, outbox)

\* The same of mail.
InOK ==
    /\ nmail \in 0..MaxMail
    /\ mailPresent \in BOOLEAN
    /\ Posts(fetched, nmail) /\ Posts(inbox, nmail) /\ Posts(pkt, nmail)
    /\ 0 \notin Elements(fetched)
    /\ Precedes(fetched, inbox) /\ Precedes(fetched, pkt) /\ Precedes(inbox, pkt)
    /\ rpc = "deliver" => pkt # <<>>

ClientInv ==
    /\ LinkOK /\ ThreadsOK /\ FlagsOK /\ PostersOK /\ OutOK /\ InOK
    /\ MailIsAnnounced

--------------------------------------------------------------------------------
(* The threads                                                             *)

\* No step takes the writing thread's socket away while it uses it.
LEMMA LinkStep ==
    ASSUME LinkOK, Next
    PROVE  LinkOK'
<1> USE ClientAssumption DEF connVars, writerVars, readerVars, quitVars, outVars, userVars, inVars,
                             history, Null, Conns
<1> DEFINE quiet == UNCHANGED <<link, nconn, sock, connected, lastConn, wpc>>
<1>0. quiet => LinkOK'
  BY DEF LinkOK
<1>1. CASE NewSocket
  BY <1>1 DEF LinkOK, NewSocket
<1>2. CASE Connect
  BY <1>2 DEF LinkOK, Connect
<1>3. CASE GiveUp /\ wpc \in {"connect", "connected", "handshake"}
  BY <1>3 DEF LinkOK, GiveUp
<1>4. CASE BeginHandShake \/ HandShake \/ Stamp \/ EndApply
  BY <1>4 DEF LinkOK, BeginHandShake, HandShake, Stamp, EndApply
<1>5. CASE GreetingThrows \/ \E v \in Vars : ApplyRecurrentSubscription(v)
  BY <1>0, <1>5 DEF GreetingThrows, ApplyRecurrentSubscription
<1>6. CASE DoWriting \/ SendPkt \/ SendPktThrows
  BY <1>6 DEF LinkOK, DoWriting, SendPkt, SendPktThrows, OnFailure
<1>7. CASE CloseSocket
  BY <1>7 DEF LinkOK, CloseSocket
<1>8. CASE Disconnect \/ ClearAfterClose
  BY <1>8 DEF LinkOK, Disconnect, ClearAfterClose
<1>9. CASE WriterQuits
  BY <1>9 DEF LinkOK, WriterQuits
<1>10. CASE Writer
  BY <1>1, <1>3, <1>4, <1>5, <1>6, <1>7, <1>8, <1>9, <1>10
     DEF Writer, ConnectQuits, HandShakeThrows, HandShakePoisoned
<1>11. CASE Reader
  <2>1. quiet
    BY <1>11 DEF Reader, ReaderUnchanged, ReaderLoops, ReaderQuits, CallReadPkt, ReadPkt,
                 ReadPktThrows, ReadPktCrashes, Deliver, NoteConnection, RequestTerminate,
                 ReaderWaits
  <2> QED BY <1>0, <2>1
<1>12. CASE (\E u \in Users : User(u)) \/ (\E u \in Posters : InPost(u)) \/ Fetch
  <2>1. quiet
    BY <1>12 DEF User, Post, InPost, Box, Splice, NoteRegistration, Fetch, UserUnchanged
  <2> QED BY <1>0, <2>1
<1>13. CASE Close \/ JoinReader \/ StopWriter \/ JoinWriter
  <2>1. quiet
    BY <1>13 DEF Close, JoinReader, StopWriter, JoinWriter, CloserUnchanged
  <2> QED BY <1>0, <2>1
<1>14. CASE Run
  BY <1>14 DEF LinkOK, Run
<1>15. CASE \E c \in Conns : LinkBreaks(c)
  BY <1>15 DEF LinkOK, LinkBreaks
<1> QED BY <1>2, <1>10, <1>11, <1>12, <1>13, <1>14, <1>15 DEF Next, Closer

\* The reading thread and the one that closes the client.
LEMMA ThreadsStep ==
    ASSUME LinkOK, ThreadsOK, Next
    PROVE  ThreadsOK'
<1> USE ClientAssumption DEF connVars, writerVars, readerVars, quitVars, outVars, userVars, inVars,
                             history, Null, Conns
<1>1. nconn' \in Nat /\ nconn \in Nat /\ nconn <= nconn'
  <2>1. nconn' = nconn \/ nconn' = nconn + 1
    <3>1. CASE Connect \/ Writer
      BY <3>1 DEF Connect, Writer, NewSocket, ConnectQuits, BeginHandShake, GreetingThrows,
             HandShakeThrows, HandShakePoisoned, HandShake, Stamp, ApplyRecurrentSubscription,
             EndApply, DoWriting, SendPkt, SendPktThrows, CloseSocket, Disconnect, ClearAfterClose,
             WriterQuits, GiveUp
    <3>2. CASE Reader
      BY <3>2 DEF Reader, ReaderUnchanged, ReaderLoops, ReaderQuits, CallReadPkt, ReadPkt,
             ReadPktThrows, ReadPktCrashes, Deliver, NoteConnection, RequestTerminate, ReaderWaits
    <3>3. CASE (\E u \in Users : User(u)) \/ (\E u \in Posters : InPost(u)) \/ Fetch
      BY <3>3 DEF User, Post, InPost, Box, Splice, NoteRegistration, Fetch, UserUnchanged
    <3>4. CASE Closer
      BY <3>4 DEF Closer, Close, JoinReader, StopWriter, JoinWriter, Run, CloserUnchanged
    <3>5. CASE \E c \in Conns : LinkBreaks(c)
      BY <3>5 DEF LinkBreaks
    <3> QED BY <3>1, <3>2, <3>3, <3>4, <3>5 DEF Next
  <2> QED BY <2>1 DEF ThreadsOK
<1> DEFINE quiet == UNCHANGED <<rsock, rstart, rpc, cpc, runs, todo>>
<1>2. quiet => ThreadsOK'
  BY <1>1 DEF ThreadsOK
<1>3. CASE Stamp \/ \E v \in Vars : ApplyRecurrentSubscription(v)
  <2>1. todo' \subseteq Vars
    BY <1>3 DEF ThreadsOK, Stamp, ApplyRecurrentSubscription
  <2>2. UNCHANGED <<rsock, rstart, rpc, cpc, runs>>
    BY <1>3 DEF Stamp, ApplyRecurrentSubscription, WriterUnchanged
  <2> QED BY <1>1, <2>1, <2>2 DEF ThreadsOK
<1>4. CASE Connect \/ NewSocket \/ ConnectQuits \/ BeginHandShake \/ GreetingThrows
           \/ HandShakeThrows \/ HandShakePoisoned \/ HandShake \/ EndApply
  <2>1. quiet
    BY <1>4 DEF Connect, NewSocket, ConnectQuits, BeginHandShake, GreetingThrows, HandShakeThrows,
                HandShakePoisoned, HandShake, EndApply, GiveUp, WriterUnchanged
  <2> QED BY <1>2, <2>1
<1>5. CASE DoWriting \/ SendPkt \/ SendPktThrows \/ CloseSocket \/ Disconnect \/ ClearAfterClose
           \/ WriterQuits
  <2>1. quiet
    BY <1>5 DEF DoWriting, SendPkt, SendPktThrows, CloseSocket, Disconnect, ClearAfterClose,
                WriterQuits, WriterUnchanged
  <2> QED BY <1>2, <2>1
<1>6. CASE Reader
  <2>1. rsock' \in 0..nconn
    BY <1>6 DEF LinkOK, ThreadsOK, Reader, ReaderLoops, ReaderQuits, CallReadPkt, ReadPkt,
                ReadPktThrows, ReadPktCrashes, Deliver, NoteConnection, RequestTerminate,
                ReaderWaits
  <2>2. rstart' \in 0..nconn
    BY <1>6 DEF LinkOK, ThreadsOK, Reader, ReaderLoops, ReaderQuits, CallReadPkt, ReadPkt,
                ReadPktThrows, ReadPktCrashes, Deliver, NoteConnection, RequestTerminate,
                ReaderWaits
  <2>3. rpc' \in {"loop", "enter", "read", "deliver", "fail", "tell", "wait", "done"}
    BY <1>6 DEF ThreadsOK, Reader, ReaderLoops, ReaderQuits, CallReadPkt, ReadPkt,
                ReadPktThrows, ReadPktCrashes, Deliver, NoteConnection, RequestTerminate,
                ReaderWaits
  <2>4. UNCHANGED <<cpc, runs, todo>>
    BY <1>6 DEF Reader, ReaderUnchanged, ReaderLoops, ReaderQuits, CallReadPkt, ReadPkt,
                ReadPktThrows, ReadPktCrashes, Deliver, NoteConnection, RequestTerminate,
                ReaderWaits
  <2> QED BY <1>1, <2>1, <2>2, <2>3, <2>4 DEF ThreadsOK
<1>7. CASE (\E u \in Users : User(u)) \/ (\E u \in Posters : InPost(u)) \/ Fetch
  <2>1. quiet
    BY <1>7 DEF User, Post, InPost, Box, Splice, NoteRegistration, Fetch, UserUnchanged
  <2> QED BY <1>2, <2>1
<1>8. CASE Close \/ JoinReader \/ StopWriter \/ JoinWriter
  BY <1>1, <1>8 DEF ThreadsOK, Close, JoinReader, StopWriter, JoinWriter, CloserUnchanged
<1>9. CASE Run
  BY <1>1, <1>9 DEF ThreadsOK, Run
<1>10. CASE \E c \in Conns : LinkBreaks(c)
  BY <1>2, <1>10 DEF LinkBreaks
<1> QED BY <1>3, <1>4, <1>5, <1>6, <1>7, <1>8, <1>9, <1>10 DEF Next, Closer, Writer

\* The flags are TRUE or FALSE.
LEMMA FlagsStep ==
    ASSUME FlagsOK, Next
    PROVE  FlagsOK'
<1> USE DEF connVars, writerVars, readerVars, quitVars, outVars, userVars, inVars, history
<1>1. CASE Connect \/ NewSocket \/ ConnectQuits \/ BeginHandShake \/ GreetingThrows
           \/ HandShakeThrows \/ HandShakePoisoned \/ HandShake \/ Stamp \/ EndApply
  <2>1. /\ connected' \in {TRUE, FALSE, connected} /\ quit' \in {TRUE, quit}
        /\ poisoned' \in {TRUE, poisoned} /\ crashed' \in {TRUE, crashed}
        /\ UNCHANGED <<wquit, rquit>>
    BY <1>1 DEF Connect, NewSocket, ConnectQuits, BeginHandShake, GreetingThrows, HandShakeThrows,
                HandShakePoisoned, HandShake, Stamp, EndApply, GiveUp, WriterUnchanged
  <2> QED BY <2>1 DEF FlagsOK
<1>2. CASE DoWriting \/ SendPkt \/ SendPktThrows \/ CloseSocket \/ Disconnect \/ ClearAfterClose
           \/ WriterQuits \/ \E v \in Vars : ApplyRecurrentSubscription(v)
  <2>1. connected' \in {FALSE, connected} /\ UNCHANGED <<quit, wquit, rquit, poisoned, crashed>>
    BY <1>2 DEF DoWriting, SendPkt, SendPktThrows, CloseSocket, Disconnect, ClearAfterClose,
                WriterQuits, WriterUnchanged, ApplyRecurrentSubscription
  <2> QED BY <2>1 DEF FlagsOK
<1>3. CASE Reader
  <2>1. crashed' \in {TRUE, crashed} /\ UNCHANGED <<connected, quit, wquit, rquit, poisoned>>
    BY <1>3 DEF Reader, ReaderUnchanged, ReaderLoops, ReaderQuits, CallReadPkt, ReadPkt,
                ReadPktThrows, ReadPktCrashes, Deliver, NoteConnection, RequestTerminate,
                ReaderWaits
  <2> QED BY <2>1 DEF FlagsOK
<1>4. CASE (\E u \in Users : User(u)) \/ (\E u \in Posters : InPost(u)) \/ Fetch
  <2>1. UNCHANGED <<connected, quit, wquit, rquit, poisoned, crashed>>
    BY <1>4 DEF User, Post, InPost, Box, Splice, NoteRegistration, Fetch, UserUnchanged
  <2> QED BY <2>1 DEF FlagsOK
<1>5. CASE Closer
  <2>1. /\ quit' \in {TRUE, FALSE, quit} /\ wquit' \in {TRUE, FALSE, wquit}
        /\ rquit' \in {TRUE, FALSE, rquit} /\ UNCHANGED <<connected, poisoned, crashed>>
    BY <1>5 DEF Closer, Close, JoinReader, StopWriter, JoinWriter, Run, CloserUnchanged
  <2> QED BY <2>1 DEF FlagsOK
<1>6. CASE \E c \in Conns : LinkBreaks(c)
  <2>1. UNCHANGED <<connected, quit, wquit, rquit, poisoned, crashed>>
    BY <1>6 DEF LinkBreaks
  <2> QED BY <2>1 DEF FlagsOK
<1> QED BY <1>1, <1>2, <1>3, <1>4, <1>5, <1>6 DEF Next, Writer

--------------------------------------------------------------------------------
(* What is posted                                                          *)

\* Lists stay lists of posted messages when more is posted.
LEMMA PostsGrow ==
    ASSUME NEW s, NEW m \in Nat, NEW n \in Nat, m <= n, Posts(s, m)
    PROVE  Posts(s, n)
  BY DEF Posts

\* An empty list goes before and behind any.
LEMMA EmptyPosts ==
    ASSUME NEW n \in Nat
    PROVE  Posts(<<>>, n) /\ \A s : Precedes(s, <<>>) /\ Precedes(<<>>, s)
  BY EmptyFacts DEF Posts, Precedes

\* Who posts, and what.
LEMMA PostersStep ==
    ASSUME LinkOK, PostersOK, ThreadsOK, Next
    PROVE  PostersOK'
<1> USE ClientAssumption DEF connVars, writerVars, readerVars, quitVars, outVars, userVars, inVars,
                             history
<1> DEFINE quiet == UNCHANGED <<posted, upc, ureq>>
<1>1. quiet /\ registered' \in {registered, {}} => PostersOK'
  BY DEF PostersOK
<1>2. ASSUME NEW u \in Posters, NEW kind \in Kinds, NEW v \in Vars, CallPost(u, kind, v),
             UNCHANGED <<posted, registered>>
      PROVE  PostersOK'
  <2> DEFINE r == [kind |-> kind, var |-> v, on |-> nconn]
  <2>1. r \in Request
    BY <1>2 DEF CallPost, LinkOK, Request, Conns
  <2>2. ureq' = [ureq EXCEPT ![u] = r] /\ upc' = [upc EXCEPT ![u] = "box"]
    BY <1>2 DEF CallPost
  <2> HIDE DEF r
  <2> QED BY <1>2, <2>1, <2>2 DEF PostersOK
<1>3. CASE Connect \/ NewSocket \/ ConnectQuits \/ BeginHandShake \/ GreetingThrows
           \/ HandShakeThrows \/ HandShakePoisoned \/ HandShake \/ Stamp \/ EndApply
  <2>1. quiet /\ registered' \in {registered, {}}
    BY <1>3 DEF Connect, NewSocket, ConnectQuits, BeginHandShake, GreetingThrows, HandShakeThrows,
                HandShakePoisoned, HandShake, Stamp, EndApply, GiveUp, WriterUnchanged,
                ClearResources
  <2> QED BY <1>1, <2>1
<1>4. CASE DoWriting \/ SendPkt \/ SendPktThrows \/ CloseSocket \/ Disconnect \/ ClearAfterClose
           \/ WriterQuits
  <2>1. quiet /\ registered' \in {registered, {}}
    BY <1>4 DEF DoWriting, SendPkt, SendPktThrows, CloseSocket, Disconnect, ClearAfterClose,
                WriterQuits, WriterUnchanged, ClearResources
  <2> QED BY <1>1, <2>1
<1>5. CASE \E v \in Vars : ApplyRecurrentSubscription(v)
  BY <1>2, <1>5 DEF ApplyRecurrentSubscription, Posters, Kinds
<1>6. CASE Reader
  <2>1. quiet /\ registered' = registered
    BY <1>6 DEF Reader, ReaderUnchanged, ReaderLoops, ReaderQuits, CallReadPkt, ReadPkt,
                ReadPktThrows, ReadPktCrashes, Deliver, NoteConnection, RequestTerminate,
                ReaderWaits
  <2> QED BY <1>1, <2>1
<1>7. CASE \E u \in Users : User(u)
  BY <1>2, <1>7 DEF User, Post, Posters
<1>8. ASSUME NEW u \in Posters, Box(u) PROVE PostersOK'
  <2>1. ureq[u] \in Request
    BY <1>8 DEF PostersOK, Box
  <2>2. posted' \in Seq(Request)
    BY <1>8, <2>1 DEF PostersOK, Box
  <2>3. upc' = [upc EXCEPT ![u] = "splice"] /\ UNCHANGED <<registered, ureq>>
    BY <1>8 DEF Box
  <2> QED BY <2>1, <2>2, <2>3 DEF PostersOK
<1>9. ASSUME NEW u \in Posters, Splice(u) PROVE PostersOK'
  BY <1>9 DEF PostersOK, Splice
<1>10. ASSUME NEW u \in Posters, NoteRegistration(u) PROVE PostersOK'
  <2>1. ureq[u] \in Request
    BY <1>10 DEF PostersOK, NoteRegistration
  <2>2. registered' \subseteq Vars
    <3>1. ureq[u].var \in Vars
      BY <2>1 DEF Request
    <3> QED BY <1>10, <3>1 DEF PostersOK, NoteRegistration
  <2>3. upc' = [upc EXCEPT ![u] = "idle"] /\ ureq' = [ureq EXCEPT ![u] = NoRequest]
        /\ posted' = posted
    BY <1>10 DEF NoteRegistration
  <2> QED BY <2>2, <2>3 DEF PostersOK
<1>11. CASE Fetch \/ Closer \/ \E c \in Conns : LinkBreaks(c)
  <2>1. quiet /\ registered' \in {registered, {}}
    BY <1>11 DEF Fetch, UserUnchanged, Closer, Close, JoinReader, StopWriter, JoinWriter, Run,
                 CloserUnchanged, ClearResources, LinkBreaks
  <2> QED BY <1>1, <2>1
<1> QED BY <1>3, <1>4, <1>5, <1>6, <1>7, <1>8, <1>9, <1>10, <1>11 DEF Next, Writer, InPost

\* DoWriting takes the queue, unless it asks to terminate.
LEMMA TakeStep ==
    ASSUME OutOK, PostersOK, DoWriting
    PROVE  OutOK'
<1> USE DEF writerVars
<1>0. Len(posted) \in Nat
  BY DEF PostersOK
<1>1. out' = <<>> /\ UNCHANGED <<posted, outbox, sent>>
  BY DEF DoWriting, history
<1>2. CASE TerminateRequested
  <2>1. stuff' = stuff
    BY <1>2 DEF DoWriting
  <2> QED BY <1>0, <1>1, <2>1, EmptyPosts DEF OutOK
<1>3. CASE ~TerminateRequested
  <2>1. stuff' = out
    BY <1>3 DEF DoWriting
  <2>2. 0 \notin Elements(out)
    BY <1>3 DEF TerminateRequested, Terminate
  <2> QED BY <1>0, <1>1, <2>1, <2>2, EmptyPosts DEF OutOK
<1> QED BY <1>2, <1>3

\* What is sent goes behind what was sent.
LEMMA SendStep ==
    ASSUME LinkOK, PostersOK, OutOK, SendPkt
    PROVE  OutOK'
<1>0. Len(posted) \in Nat
  BY DEF PostersOK
<1>1. stuff' = <<>> /\ UNCHANGED <<posted, outbox, out>>
  BY DEF SendPkt, outVars
<1>2. sock \in Conns
  BY ClientAssumption DEF LinkOK, SendPkt, Null, Conns
<1>3. stuff \in Seq(Nat) /\ sent \in Seq([id : Nat, on : Conns]) /\ Ids(sent) \in Seq(Nat)
  BY DEF OutOK, Posts
<1>4. CASE link[sock] # "up"
  <2>1. sent' = sent
    BY <1>3, <1>4 DEF SendPkt, Arrived
  <2> QED BY <1>0, <1>1, <2>1, EmptyPosts DEF OutOK, Elements
<1>5. CASE link[sock] = "up"
  <2> DEFINE new == [i \in DOMAIN stuff |-> [id |-> stuff[i], on |-> sock]]
  <2>1. sent' = sent \o new
    BY <1>5 DEF SendPkt, Arrived
  <2>2. new \in Seq([id : Nat, on : Conns]) /\ Len(new) = Len(stuff)
        /\ \A i \in 1..Len(stuff) : new[i].id = stuff[i]
    <3>1. /\ DOMAIN stuff = 1..Len(stuff) /\ Len(stuff) \in Nat
          /\ \A i \in 1..Len(stuff) : stuff[i] \in Nat
      BY <1>3
    <3>2. \A i \in 1..Len(stuff) : new[i] \in [id : Nat, on : Conns] /\ new[i].id = stuff[i]
      BY <1>2, <3>1
    <3>3. new = [i \in 1..Len(stuff) |-> new[i]]
      BY <3>1
    <3> HIDE DEF new
    <3> QED BY <3>1, <3>2, <3>3
  <2> HIDE DEF new
  <2>3. Ids(sent') = Ids(sent) \o stuff
    <3>1. /\ sent' \in Seq([id : Nat, on : Conns]) /\ Len(sent') = Len(sent) + Len(stuff)
          /\ DOMAIN sent' = 1..(Len(sent) + Len(stuff)) /\ DOMAIN sent = 1..Len(sent)
          /\ Len(sent) \in Nat /\ Len(stuff) \in Nat
          /\ \A i \in 1..Len(sent) : sent'[i] = sent[i]
          /\ \A i \in 1..Len(stuff) : sent'[Len(sent) + i] = new[i]
      <4>1. Len(sent) \in Nat /\ Len(stuff) \in Nat /\ DOMAIN sent = 1..Len(sent)
        BY <1>3
      <4> QED BY <1>3, <2>1, <2>2, <4>1, ConcatProperties
    <3>2. Len(Ids(sent)) = Len(sent) /\ \A i \in 1..Len(sent) : Ids(sent)[i] = sent[i].id
      BY <1>3, <3>1 DEF Ids
    <3> DEFINE cat == Ids(sent) \o stuff
    <3>3. /\ cat \in Seq(Nat) /\ DOMAIN cat = 1..(Len(sent) + Len(stuff))
          /\ \A i \in 1..Len(sent) : cat[i] = sent[i].id
          /\ \A i \in 1..Len(stuff) : cat[Len(sent) + i] = stuff[i]
      <4> DEFINE ids == Ids(sent)
      <4>1. ids \in Seq(Nat) /\ stuff \in Seq(Nat) /\ Len(ids) = Len(sent) /\ cat = ids \o stuff
        BY <1>3, <3>2
      <4>2. \A i \in 1..Len(sent) : ids[i] = sent[i].id
        BY <3>2
      <4> HIDE DEF ids, cat
      <4>3. /\ cat \in Seq(Nat) /\ DOMAIN cat = 1..(Len(ids) + Len(stuff))
            /\ \A i \in 1..Len(ids) : cat[i] = ids[i]
            /\ \A i \in 1..Len(stuff) : cat[Len(ids) + i] = stuff[i]
        BY <4>1, ConcatParts, Zenon
      <4> QED BY <4>1, <4>2, <4>3
    <3> HIDE DEF cat
    <3>4. ASSUME NEW i \in DOMAIN sent' PROVE sent'[i].id = cat[i]
      <4>1. CASE i \in 1..Len(sent)
        BY <3>1, <3>3, <4>1
      <4>2. CASE i \notin 1..Len(sent)
        <5>1. i - Len(sent) \in 1..Len(stuff) /\ Len(sent) + (i - Len(sent)) = i
          BY <3>1, <4>2
        <5> QED BY <2>2, <3>1, <3>3, <5>1, ZenonT(30)
      <4> QED BY <4>1, <4>2
    <3>5. cat = [i \in DOMAIN sent' |-> cat[i]]
      BY <3>1, <3>3
    <3>6. Ids(sent') = cat
      BY <3>4, <3>5 DEF Ids
    <3> QED BY <3>6 DEF cat
  <2>4. /\ Ids(sent') \in Seq(Nat)
        /\ Elements(Ids(sent')) = Elements(Ids(sent)) \cup Elements(stuff)
        /\ InOrder(Ids(sent'))
    BY <1>3, <2>3, ConcatFacts DEF OutOK, Posts
  <2>5. Posts(Ids(sent'), Len(posted)) /\ 0 \notin Elements(Ids(sent'))
    BY <2>4 DEF OutOK, Posts
  <2>6. Precedes(Ids(sent'), out) /\ Precedes(Ids(sent'), outbox)
    BY <2>4 DEF OutOK, Precedes
  <2>7. sent' \in Seq([id : Nat, on : Conns])
    BY <1>3, <2>1, <2>2
  <2>8. Posts(out, Len(posted)) /\ Posts(outbox, Len(posted)) /\ Precedes(out, outbox)
    BY DEF OutOK
  <2>9. /\ Posts(stuff', Len(posted)) /\ 0 \notin Elements(stuff') /\ Precedes(Ids(sent'), stuff')
        /\ Precedes(stuff', out) /\ Precedes(stuff', outbox)
    BY <1>0, <1>1, EmptyPosts, EmptyFacts
  <2>10. Ids(sent)' = Ids(sent')
    BY DEF Ids
  <2> QED BY <1>1, <2>5, <2>6, <2>7, <2>8, <2>9, <2>10 DEF OutOK
<1> QED BY <1>4, <1>5

\* Post, under its first lock: the new number is the highest.
LEMMA BoxStep ==
    ASSUME OutOK, PostersOK, NEW u \in Posters, Box(u)
    PROVE  OutOK'
<1> DEFINE n == Len(posted)
           box == Append(outbox, n + 1)
<1>1. n \in Nat /\ Len(posted') = n + 1
  BY DEF PostersOK, Box
<1>2. UNCHANGED <<out, stuff, sent>>
  BY DEF Box, UserUnchanged, writerVars, history
<1>3. outbox \in Seq(Nat) /\ Elements(outbox) \subseteq 0..n /\ InOrder(outbox)
  BY DEF OutOK, Posts
<1> HIDE DEF n
<1>4. box \in Seq(Nat) /\ Elements(box) = Elements(outbox) \cup {n + 1} /\ InOrder(box)
  <2>1. \A e \in Elements(outbox) : e < n + 1
    BY <1>1, <1>3
  <2>2. n + 1 \in Nat
    BY <1>1
  <2> QED BY <1>3, <2>1, <2>2, AppendFacts
<1>5. box # <<>>
  BY <1>1, <1>3
<1> HIDE DEF box
<1>6. /\ outbox' \in Seq(Nat) /\ InOrder(outbox')
      /\ Elements(outbox') \subseteq Elements(outbox) \cup {n + 1}
  <2>1. outbox' = box \/ outbox' = Tail(box)
    BY DEF Box, Boxed, box, n
  <2> QED BY <1>4, <1>5, <2>1, TailFacts
<1>7. Posts(outbox', n + 1)
  BY <1>1, <1>3, <1>6 DEF Posts
<1>8. ASSUME NEW s, Posts(s, n), Precedes(s, outbox) PROVE Posts(s, n + 1) /\ Precedes(s, outbox')
  <2>1. \A a \in Elements(s) : a < n + 1
    BY <1>1, <1>8 DEF Posts
  <2>2. Posts(s, n + 1)
    BY <1>1, <1>8, PostsGrow
  <2> QED BY <1>6, <1>8, <2>1, <2>2 DEF Precedes
<1>9. Posts(out, n) /\ Posts(stuff, n) /\ Posts(Ids(sent), n)
  BY DEF OutOK, n
<1>10. /\ Posts(out, n + 1) /\ Posts(stuff, n + 1) /\ Posts(Ids(sent), n + 1)
       /\ Precedes(out, outbox') /\ Precedes(stuff, outbox') /\ Precedes(Ids(sent), outbox')
  BY <1>8, <1>9 DEF OutOK
<1> QED BY <1>1, <1>2, <1>7, <1>10 DEF OutOK, Ids

\* Post, under its second lock: what is ditched leaves the rest in order.
LEMMA SpliceStep ==
    ASSUME OutOK, PostersOK, NEW u \in Posters, Splice(u)
    PROVE  OutOK'
<1> DEFINE n == Len(posted)
           d == Ditched(out)
<1>1. n \in Nat
  BY DEF PostersOK
<1>2. out' = d \o outbox /\ outbox' = <<>> /\ UNCHANGED <<posted, stuff, sent>>
  BY DEF Splice, Spliced, UserUnchanged, writerVars, history
<1>3. out \in Seq(Nat) /\ InOrder(out) /\ outbox \in Seq(Nat) /\ InOrder(outbox)
      /\ Elements(out) \subseteq 0..n /\ Elements(outbox) \subseteq 0..n
  BY DEF OutOK, Posts
<1>4. d \in Seq(Nat) /\ Elements(d) \subseteq Elements(out) /\ InOrder(d)
  <2>1. CASE Len(out) > OutLimit
    <3>1. Len(out) - OutLimit \div 2 + 1 \in 1..(Len(out) + 1)
      <4>1. OutLimit \in Nat /\ Len(out) \in Nat
        BY <1>3, ClientAssumption
      <4>2. OutLimit \div 2 \in Nat /\ OutLimit \div 2 <= OutLimit
        BY <4>1
      <4> QED BY <2>1, <4>1, <4>2
    <3>2. d = SubSeq(out, Len(out) - OutLimit \div 2 + 1, Len(out))
      BY <2>1 DEF Ditched
    <3> QED BY <1>3, <3>1, <3>2, SubSeqFacts
  <2>2. CASE ~(Len(out) > OutLimit)
    BY <1>3, <2>2 DEF Ditched
  <2> QED BY <2>1, <2>2
<1> HIDE DEF d, n
<1>5. Precedes(d, outbox)
  BY <1>4 DEF OutOK, Precedes
<1>6. out' \in Seq(Nat) /\ Elements(out') = Elements(d) \cup Elements(outbox) /\ InOrder(out')
  BY <1>2, <1>3, <1>4, <1>5, ConcatFacts
<1>7. Posts(out', n)
  BY <1>3, <1>4, <1>6 DEF Posts
<1>8. Precedes(stuff, out') /\ Precedes(Ids(sent), out')
  BY <1>4, <1>6 DEF OutOK, Precedes
<1>9. Posts(outbox', n) /\ \A s : Precedes(s, outbox')
  BY <1>1, <1>2, EmptyPosts
<1>10. Posts(stuff, n) /\ Posts(Ids(sent), n)
  BY DEF OutOK, n
<1> QED BY <1>2, <1>7, <1>8, <1>9, <1>10 DEF OutOK, Ids, n

\* A request to terminate is no message.
LEMMA TerminateStep ==
    ASSUME OutOK, PostersOK, out' = Append(out, Terminate),
           UNCHANGED <<posted, stuff, outbox, sent>>
    PROVE  OutOK'
<1>1. /\ out \in Seq(Nat) /\ InOrder(out)
      /\ Elements(out) \subseteq 0..Len(posted) /\ Len(posted) \in Nat
  BY DEF OutOK, Posts, PostersOK
<1>2. out' \in Seq(Nat) /\ Elements(out') = Elements(out) \cup {0} /\ InOrder(out')
  BY <1>1, AppendFacts DEF Terminate, IsMsg
<1>3. Posts(out', Len(posted))
  BY <1>1, <1>2 DEF Posts
<1>4. Precedes(stuff, out') /\ Precedes(Ids(sent), out') /\ Precedes(out', outbox)
  BY <1>2 DEF OutOK, Precedes, IsMsg
<1> QED BY <1>3, <1>4 DEF OutOK, Ids

\* The lists that wait to be sent.
LEMMA OutStep ==
    ASSUME LinkOK, PostersOK, OutOK, Next
    PROVE  OutOK'
<1> USE DEF connVars, writerVars, readerVars, quitVars, outVars, userVars, inVars, history
<1> DEFINE quiet == UNCHANGED <<posted, stuff, out, sent>>
<1>1. ASSUME quiet, outbox' \in {outbox, <<>>} PROVE OutOK'
  <2>1. Len(posted) \in Nat
    BY DEF PostersOK
  <2>2. CASE outbox' = outbox
    BY <1>1, <2>2 DEF OutOK, Ids
  <2>3. CASE outbox' = <<>>
    <3>1. Posts(outbox', Len(posted)) /\ \A s : Precedes(s, outbox')
      BY <2>1, <2>3, EmptyPosts
    <3> QED BY <1>1, <3>1 DEF OutOK, Ids
  <2> QED BY <1>1, <2>2, <2>3
<1>2. CASE Connect \/ NewSocket \/ ConnectQuits \/ BeginHandShake \/ GreetingThrows
           \/ HandShakeThrows \/ HandShakePoisoned \/ HandShake \/ Stamp \/ EndApply
  <2>1. quiet /\ outbox' \in {outbox, <<>>}
    BY <1>2 DEF Connect, NewSocket, ConnectQuits, BeginHandShake, GreetingThrows, HandShakeThrows,
                HandShakePoisoned, HandShake, Stamp, EndApply, GiveUp, WriterUnchanged,
                ClearResources
  <2> QED BY <1>1, <2>1
<1>3. CASE CloseSocket \/ Disconnect \/ ClearAfterClose \/ WriterQuits
           \/ \E v \in Vars : ApplyRecurrentSubscription(v)
  <2>1. quiet /\ outbox' \in {outbox, <<>>}
    BY <1>3 DEF CloseSocket, Disconnect, ClearAfterClose, WriterQuits, ClearResources,
                ApplyRecurrentSubscription
  <2> QED BY <1>1, <2>1
<1>4. CASE DoWriting
  BY <1>4, TakeStep
<1>5. CASE SendPkt
  BY <1>5, SendStep
<1>6. CASE SendPktThrows
  <2>1. stuff' = <<>> /\ UNCHANGED <<posted, out, outbox, sent>>
    BY <1>6 DEF SendPktThrows
  <2>2. Len(posted) \in Nat
    BY DEF PostersOK
  <2>3. Posts(stuff', Len(posted)) /\ 0 \notin Elements(stuff')
        /\ \A s : Precedes(s, stuff') /\ Precedes(stuff', s)
    BY <2>1, <2>2, EmptyPosts, EmptyFacts
  <2> QED BY <2>1, <2>3 DEF OutOK, Ids
<1>7. CASE RequestTerminate
  BY <1>7, TerminateStep DEF RequestTerminate, ReaderUnchanged
<1>8. CASE Reader /\ ~RequestTerminate
  <2>1. quiet /\ outbox' = outbox
    BY <1>8 DEF Reader, ReaderUnchanged, ReaderLoops, ReaderQuits, CallReadPkt, ReadPkt,
                ReadPktThrows, ReadPktCrashes, Deliver, NoteConnection, ReaderWaits
  <2> QED BY <1>1, <2>1
<1>9. CASE \E u \in Users : User(u)
  <2>1. quiet /\ outbox' = outbox
    BY <1>9 DEF User, Post, UserUnchanged
  <2> QED BY <1>1, <2>1
<1>10. ASSUME NEW u \in Posters, Box(u) PROVE OutOK'
  BY <1>10, BoxStep
<1>11. ASSUME NEW u \in Posters, Splice(u) PROVE OutOK'
  BY <1>11, SpliceStep
<1>12. ASSUME NEW u \in Posters, NoteRegistration(u) PROVE OutOK'
  <2>1. quiet /\ outbox' = outbox
    BY <1>12 DEF NoteRegistration, UserUnchanged
  <2> QED BY <1>1, <2>1
<1>13. CASE JoinReader
  BY <1>13, TerminateStep DEF JoinReader, CloserUnchanged
<1>14. CASE Fetch \/ Close \/ StopWriter \/ JoinWriter \/ Run \/ \E c \in Conns : LinkBreaks(c)
  <2>1. quiet /\ outbox' \in {outbox, <<>>}
    BY <1>14 DEF Fetch, UserUnchanged, Close, StopWriter, JoinWriter, Run, CloserUnchanged,
                 ClearResources, LinkBreaks
  <2> QED BY <1>1, <2>1
<1> QED BY <1>2, <1>3, <1>4, <1>5, <1>6, <1>7, <1>8, <1>9, <1>10, <1>11, <1>12, <1>13, <1>14
        DEF Next, Writer, InPost, Closer

--------------------------------------------------------------------------------
(* Mail                                                                    *)

\* What the database sends next is numbered next.
LEMMA ReadStep ==
    ASSUME InOK, NEW p \in Packets, ReadPkt(p)
    PROVE  InOK'
<1>0. nmail \in Nat /\ nmail <= MaxMail /\ MaxMail \in Nat
  BY ClientAssumption DEF InOK
<1>1. UNCHANGED <<fetched, inbox, mailPresent>> /\ pkt' = p /\ rpc' = "deliver"
  BY DEF ReadPkt
<1>2. \/ p = <<0>>
      \/ nmail < MaxMail /\ (p = <<0, nmail + 1>> \/ p = <<nmail + 1>>)
  BY DEF Packets, TimingMsg
<1>3. CASE p = <<0>>
  <2>1. nmail' = nmail
    BY <1>3 DEF ReadPkt, IsMsg
  <2>2. p \in Seq(Nat) /\ Elements(p) = {0} /\ InOrder(p) /\ p # <<>>
    BY <1>3 DEF Elements, InOrder
  <2>3. Posts(p, nmail) /\ \A s : Precedes(s, p)
    BY <1>0, <2>2 DEF Posts, Precedes, IsMsg
  <2> QED BY <1>1, <2>1, <2>2, <2>3 DEF InOK
<1>4. CASE nmail < MaxMail /\ (p = <<0, nmail + 1>> \/ p = <<nmail + 1>>)
  <2>1. nmail' = nmail + 1
    <3>1. p[Len(p)] = nmail + 1
      <4>1. CASE p = <<0, nmail + 1>>
        BY <4>1
      <4>2. CASE p = <<nmail + 1>>
        BY <4>2
      <4> QED BY <1>4, <4>1, <4>2
    <3>2. IsMsg(p[Len(p)])
      BY <1>0, <3>1 DEF IsMsg
    <3> QED BY <3>2 DEF ReadPkt
  <2>2. p \in Seq(Nat) /\ Elements(p) \subseteq {0, nmail + 1} /\ InOrder(p) /\ p # <<>>
    <3>1. CASE p = <<0, nmail + 1>>
      BY <1>0, <3>1 DEF Elements, InOrder, IsMsg
    <3>2. CASE p = <<nmail + 1>>
      BY <1>0, <3>2 DEF Elements, InOrder
    <3> QED BY <1>4, <3>1, <3>2
  <2>3. Posts(p, nmail + 1)
    BY <1>0, <2>2 DEF Posts
  <2>4. ASSUME NEW s, Posts(s, nmail) PROVE Posts(s, nmail + 1) /\ Precedes(s, p)
    <3>1. \A a \in Elements(s) : a < nmail + 1
      BY <1>0, <2>4 DEF Posts
    <3>2. Precedes(s, p)
      BY <2>2, <3>1 DEF Precedes, IsMsg
    <3>3. nmail + 1 \in Nat /\ nmail <= nmail + 1
      BY <1>0
    <3> QED BY <1>0, <2>4, <3>2, <3>3, PostsGrow
  <2>5. /\ Posts(fetched, nmail + 1) /\ Posts(inbox, nmail + 1)
        /\ Precedes(fetched, p) /\ Precedes(inbox, p)
    BY <2>4 DEF InOK
  <2>6. nmail + 1 \in 0..MaxMail
    BY <1>0, <1>4
  <2> QED BY <1>1, <2>1, <2>2, <2>3, <2>5, <2>6 DEF InOK
<1> QED BY <1>2, <1>3, <1>4

\* The packet joins the inbox, of which only the front may go.
LEMMA DeliverStep ==
    ASSUME InOK, Deliver
    PROVE  InOK'
<1>0. nmail \in Nat
  BY ClientAssumption DEF InOK
<1>1. /\ inbox' = Delivered /\ pkt' = <<>> /\ rpc' = "loop" /\ UNCHANGED <<nmail, fetched>>
      /\ pkt # <<>>
  BY DEF Deliver, InOK
<1>2. mailPresent' \in BOOLEAN
  <2>1. mailPresent' = Announced(Delivered)
    BY DEF Deliver
  <2>2. Announced(Delivered) \in BOOLEAN
    BY DEF Announced
  <2> QED BY <2>1, <2>2, Zenon
<1>3. /\ inbox \in Seq(Nat) /\ pkt \in Seq(Nat) /\ InOrder(inbox) /\ InOrder(pkt)
      /\ Elements(inbox) \subseteq 0..nmail /\ Elements(pkt) \subseteq 0..nmail
  BY DEF InOK, Posts
<1>4. Purged \in Seq(Nat) /\ InOrder(Purged) /\ Elements(Purged) \subseteq Elements(inbox)
  BY <1>3, EmptyFacts DEF Purged
<1>5. Untimed \in Seq(Nat) /\ InOrder(Untimed) /\ Elements(Untimed) \subseteq Elements(pkt)
  BY <1>1, <1>3, TailFacts DEF Untimed
<1>6. ASSUME NEW s \in Seq(Nat), InOrder(s), Elements(s) \subseteq Elements(pkt)
      PROVE  /\ Purged \o s \in Seq(Nat) /\ InOrder(Purged \o s)
             /\ Elements(Purged \o s) \subseteq Elements(inbox) \cup Elements(pkt)
  <2>1. Precedes(Purged, s)
    BY <1>4, <1>6 DEF InOK, Precedes
  <2> QED BY <1>4, <1>6, <2>1, ConcatFacts
<1>7. /\ inbox' \in Seq(Nat) /\ InOrder(inbox')
      /\ Elements(inbox') \subseteq Elements(inbox) \cup Elements(pkt)
  <2>1. CASE ~OldDB
    <3>1. inbox' = Purged \o Untimed
      BY <1>1, <2>1 DEF Delivered
    <3> HIDE DEF Deliver
    <3> QED BY <1>5, <1>6, <3>1
  <2>2. CASE OldDB
    <3> DEFINE all == Purged \o pkt
    <3>1. inbox' = Tail(all)
      BY <1>1, <2>2 DEF Delivered
    <3>2. /\ all \in Seq(Nat) /\ InOrder(all)
          /\ Elements(all) \subseteq Elements(inbox) \cup Elements(pkt)
      BY <1>3, <1>6
    <3>3. all # <<>>
      <4>1. /\ Len(all) = Len(Purged) + Len(pkt)
            /\ Len(Purged) \in Nat /\ Len(pkt) \in Nat /\ Len(pkt) # 0
        BY <1>1, <1>3, <1>4
      <4> QED BY <4>1
    <3> HIDE DEF all
    <3> QED BY <3>1, <3>2, <3>3, TailFacts
  <2> QED BY <2>1, <2>2
<1>8. Posts(inbox', nmail)
  BY <1>3, <1>7 DEF Posts
<1>9. Precedes(fetched, inbox')
  BY <1>7 DEF InOK, Precedes
<1>10. Posts(pkt', nmail) /\ \A s : Precedes(s, pkt')
  BY <1>0, <1>1, EmptyPosts
<1> QED BY <1>1, <1>2, <1>8, <1>9, <1>10 DEF InOK

\* The application is given the messages of the inbox.
LEMMA FetchStep ==
    ASSUME InOK, Fetch
    PROVE  InOK'
<1>0. nmail \in Nat
  BY ClientAssumption DEF InOK
<1>1. /\ fetched' = fetched \o WithoutNull(inbox) /\ inbox' = <<>> /\ mailPresent' = FALSE
      /\ UNCHANGED <<nmail, pkt, rpc>>
  BY DEF Fetch, UserUnchanged, readerVars
<1>2. /\ fetched \in Seq(Nat) /\ InOrder(fetched) /\ Elements(fetched) \subseteq 0..nmail
      /\ inbox \in Seq(Nat) /\ InOrder(inbox) /\ Elements(inbox) \subseteq 0..nmail
  BY DEF InOK, Posts
<1> DEFINE w == WithoutNull(inbox)
<1>3. w \in Seq(Nat) /\ Elements(w) \subseteq Elements(inbox) \ {0} /\ InOrder(w)
  BY <1>2, WithoutNullFacts
<1> HIDE DEF w
<1>4. Precedes(fetched, w) /\ Precedes(w, pkt)
  BY <1>3 DEF InOK, Precedes
<1>5. /\ fetched' \in Seq(Nat) /\ InOrder(fetched')
      /\ Elements(fetched') = Elements(fetched) \cup Elements(w)
  BY <1>1, <1>2, <1>3, <1>4, ConcatFacts DEF w
<1>6. Posts(fetched', nmail) /\ 0 \notin Elements(fetched')
  BY <1>2, <1>3, <1>5 DEF Posts, InOK
<1>7. Precedes(fetched', pkt)
  BY <1>4, <1>5 DEF InOK, Precedes
<1>8. Posts(inbox', nmail) /\ \A s : Precedes(s, inbox') /\ Precedes(inbox', s)
  BY <1>0, <1>1, EmptyPosts
<1> QED BY <1>1, <1>6, <1>7, <1>8 DEF InOK

\* The lists of mail.
LEMMA InStep ==
    ASSUME InOK, ThreadsOK, Next
    PROVE  InOK'
<1> USE DEF connVars, writerVars, readerVars, quitVars, outVars, userVars, inVars, history
<1> DEFINE quiet == /\ UNCHANGED <<nmail, fetched, pkt, mailPresent>>
                    /\ rpc' = "deliver" => rpc = "deliver"
<1>1. ASSUME quiet, inbox' \in {inbox, <<>>} PROVE InOK'
  <2>1. nmail \in Nat
    BY ClientAssumption DEF InOK
  <2>2. CASE inbox' = inbox
    BY <1>1, <2>2 DEF InOK
  <2>3. CASE inbox' = <<>>
    <3>1. Posts(inbox', nmail) /\ \A s : Precedes(s, inbox') /\ Precedes(inbox', s)
      BY <2>1, <2>3, EmptyPosts
    <3> QED BY <1>1, <3>1 DEF InOK
  <2> QED BY <1>1, <2>2, <2>3
<1>2. CASE Connect \/ NewSocket \/ ConnectQuits \/ BeginHandShake \/ GreetingThrows
           \/ HandShakeThrows \/ HandShakePoisoned \/ HandShake \/ Stamp \/ EndApply
  <2>1. quiet /\ inbox' \in {inbox, <<>>}
    BY <1>2 DEF Connect, NewSocket, ConnectQuits, BeginHandShake, GreetingThrows, HandShakeThrows,
                HandShakePoisoned, HandShake, Stamp, EndApply, GiveUp, WriterUnchanged,
                ClearResources
  <2> QED BY <1>1, <2>1
<1>3. CASE DoWriting \/ SendPkt \/ SendPktThrows \/ CloseSocket \/ Disconnect \/ ClearAfterClose
           \/ WriterQuits \/ \E v \in Vars : ApplyRecurrentSubscription(v)
  <2>1. quiet /\ inbox' \in {inbox, <<>>}
    BY <1>3 DEF DoWriting, SendPkt, SendPktThrows, CloseSocket, Disconnect, ClearAfterClose,
                WriterQuits, ClearResources, ApplyRecurrentSubscription, WriterUnchanged
  <2> QED BY <1>1, <2>1
<1>4. ASSUME NEW p \in Packets, ReadPkt(p) PROVE InOK'
  BY <1>4, ReadStep
<1>5. CASE Deliver
  BY <1>5, DeliverStep
<1>6. CASE ReaderLoops \/ ReaderQuits \/ CallReadPkt \/ ReadPktThrows \/ ReadPktCrashes
           \/ NoteConnection \/ RequestTerminate \/ ReaderWaits
  <2>1. quiet /\ inbox' = inbox
    BY <1>6 DEF ReaderLoops, ReaderQuits, CallReadPkt, ReadPktThrows, ReadPktCrashes,
                NoteConnection, RequestTerminate, ReaderWaits
  <2> QED BY <1>1, <2>1
<1>7. CASE (\E u \in Users : User(u)) \/ (\E u \in Posters : InPost(u))
  <2>1. quiet /\ inbox' = inbox
    BY <1>7 DEF User, Post, InPost, Box, Splice, NoteRegistration, UserUnchanged
  <2> QED BY <1>1, <2>1
<1>8. CASE Fetch
  BY <1>8, FetchStep
<1>9. CASE Closer \/ \E c \in Conns : LinkBreaks(c)
  <2>1. quiet /\ inbox' \in {inbox, <<>>}
    BY <1>9 DEF Closer, Close, JoinReader, StopWriter, JoinWriter, Run, CloserUnchanged,
                ClearResources, LinkBreaks
  <2> QED BY <1>1, <2>1
<1> QED BY <1>2, <1>3, <1>4, <1>5, <1>6, <1>7, <1>8, <1>9 DEF Next, Writer, Reader

\* The flag and the inbox change together, or the inbox is emptied.
LEMMA AnnouncedStep ==
    ASSUME MailIsAnnounced, Next
    PROVE  MailIsAnnounced'
<1> USE DEF connVars, writerVars, readerVars, quitVars, outVars, userVars, inVars, history
<1>1. (inbox' = <<>> \/ UNCHANGED <<inbox, mailPresent>>) => MailIsAnnounced'
  BY DEF MailIsAnnounced
<1>2. CASE Connect \/ Writer
  <2>1. inbox' = <<>> \/ UNCHANGED <<inbox, mailPresent>>
    BY <1>2 DEF Connect, Writer, NewSocket, ConnectQuits, BeginHandShake, GreetingThrows,
                HandShakeThrows, HandShakePoisoned, HandShake, Stamp, ApplyRecurrentSubscription,
                EndApply, DoWriting, SendPkt, SendPktThrows, CloseSocket, Disconnect,
                ClearAfterClose, WriterQuits, GiveUp, ClearResources
  <2> QED BY <1>1, <2>1
<1>3. CASE Deliver
  BY <1>3 DEF Deliver, Announced, MailIsAnnounced
<1>4. CASE Reader /\ ~Deliver
  <2>1. UNCHANGED <<inbox, mailPresent>>
    BY <1>4 DEF Reader, ReaderLoops, ReaderQuits, CallReadPkt, ReadPkt, ReadPktThrows,
                ReadPktCrashes, NoteConnection, RequestTerminate, ReaderWaits
  <2> QED BY <1>1, <2>1
<1>5. CASE (\E u \in Users : User(u)) \/ (\E u \in Posters : InPost(u)) \/ Fetch
  <2>1. inbox' = <<>> \/ UNCHANGED <<inbox, mailPresent>>
    BY <1>5 DEF User, Post, InPost, Box, Splice, NoteRegistration, Fetch
  <2> QED BY <1>1, <2>1
<1>6. CASE Closer \/ \E c \in Conns : LinkBreaks(c)
  <2>1. inbox' = <<>> \/ UNCHANGED <<inbox, mailPresent>>
    BY <1>6 DEF Closer, Close, JoinReader, StopWriter, JoinWriter, Run, CloserUnchanged,
                ClearResources, LinkBreaks
  <2> QED BY <1>1, <2>1
<1> QED BY <1>2, <1>3, <1>4, <1>5, <1>6 DEF Next

--------------------------------------------------------------------------------
(* Theorems                                                                *)

\* The inductive invariant holds when the client is made.
LEMMA ClientStarts == Init => ClientInv
<1> SUFFICES ASSUME Init PROVE ClientInv
  OBVIOUS
<1> USE ClientAssumption
<1>1. LinkOK
  BY DEF Init, LinkOK, Null
<1>2. ThreadsOK
  BY DEF Init, ThreadsOK, Null
<1>3. FlagsOK
  <2>1. /\ connected = FALSE /\ quit = FALSE /\ wquit = FALSE /\ rquit = FALSE
        /\ poisoned = FALSE /\ crashed = FALSE
    BY Zenon DEF Init
  <2> QED BY <2>1 DEF FlagsOK
<1>4. PostersOK
  BY DEF Init, PostersOK
<1>5. OutOK
  <2>1. outbox = <<>> /\ out = <<>> /\ stuff = <<>> /\ sent = <<>> /\ posted = <<>>
    BY DEF Init
  <2>2. Ids(sent) = <<>> /\ Len(posted) = 0 /\ sent \in Seq([id : Nat, on : Conns])
    BY <2>1 DEF Ids
  <2> QED BY <2>1, <2>2, EmptyPosts, EmptyFacts DEF OutOK
<1>6. InOK
  <2>1. fetched = <<>> /\ inbox = <<>> /\ pkt = <<>> /\ nmail = 0 /\ rpc = "loop"
    BY DEF Init
  <2>2. mailPresent \in BOOLEAN
    BY DEF Init
  <2> QED BY <2>1, <2>2, EmptyPosts, EmptyFacts DEF InOK
<1>7. MailIsAnnounced
  BY DEF Init, MailIsAnnounced
<1> QED BY <1>1, <1>2, <1>3, <1>4, <1>5, <1>6, <1>7 DEF ClientInv

\* Every step of every thread keeps it.
LEMMA ClientStep == ClientInv /\ [Next]_vars => ClientInv'
<1> SUFFICES ASSUME ClientInv, [Next]_vars PROVE ClientInv'
  OBVIOUS
<1>1. CASE Next
  <2>1. LinkOK' /\ ThreadsOK' /\ FlagsOK'
    BY <1>1, LinkStep, ThreadsStep, FlagsStep DEF ClientInv
  <2>2. PostersOK' /\ OutOK'
    BY <1>1, PostersStep, OutStep DEF ClientInv
  <2>3. InOK' /\ MailIsAnnounced'
    BY <1>1, InStep, AnnouncedStep DEF ClientInv
  <2> QED BY <2>1, <2>2, <2>3 DEF ClientInv
<1>2. CASE UNCHANGED vars
  <2> USE <1>2 DEF vars, connVars, writerVars, readerVars, quitVars, outVars, userVars, inVars,
                   history
  <2>1. LinkOK' /\ ThreadsOK' /\ FlagsOK'
    BY DEF ClientInv, LinkOK, ThreadsOK, FlagsOK
  <2>2. PostersOK' /\ OutOK'
    BY DEF ClientInv, PostersOK, OutOK, Ids
  <2>3. InOK' /\ MailIsAnnounced'
    BY DEF ClientInv, InOK, MailIsAnnounced
  <2> QED BY <2>1, <2>2, <2>3 DEF ClientInv
<1> QED BY <1>1, <1>2

\* The inductive invariant holds in every reachable state.
LEMMA ClientInvariance == Spec => []ClientInv
  BY ClientStarts, ClientStep, PTL DEF Spec

\* Numbers that are in order and are no request to terminate ascend.
LEMMA OrderedAscend ==
    ASSUME NEW s, InOrder(s), 0 \notin Elements(s)
    PROVE  Increasing(s)
  BY DEF InOrder, Increasing, Elements, IsMsg

\* Three lists, each before the next.
LEMMA ThreeInOrder ==
    ASSUME NEW r \in Seq(Nat), NEW s \in Seq(Nat), NEW t \in Seq(Nat),
           InOrder(r), InOrder(s), InOrder(t), Precedes(r, s), Precedes(r, t), Precedes(s, t)
    PROVE  /\ r \o s \o t \in Seq(Nat) /\ InOrder(r \o s \o t)
           /\ Elements(r \o s \o t) = Elements(r) \cup Elements(s) \cup Elements(t)
<1>1. r \o s \in Seq(Nat) /\ InOrder(r \o s) /\ Elements(r \o s) = Elements(r) \cup Elements(s)
  BY ConcatFacts
<1>2. Precedes(r \o s, t)
  BY <1>1 DEF Precedes
<1> QED BY <1>1, <1>2, ConcatFacts

\* A sequence whose elements are in a set is a sequence over it.
LEMMA SeqNarrows ==
    ASSUME NEW S, NEW T, NEW s \in Seq(S), \A i \in DOMAIN s : s[i] \in T
    PROVE  s \in Seq(T)
<1>1. Len(s) \in Nat /\ DOMAIN s = 1..Len(s) /\ s = [i \in 1..Len(s) |-> s[i]]
  OBVIOUS
<1>2. s \in [1..Len(s) -> T]
  BY <1>1
<1> QED BY <1>1, <1>2, SeqDef

\* PostsAreInOrder: however the threads that post, the writing thread and the reading thread
\* interleave, and however often the connection is lost, messages reach the database in the
\* order in which Post numbered them and none twice, and what waits is behind what was sent.
THEOREM PostsAreInOrder == Spec => []PostsKeepTheirOrder
<1>1. ClientInv => PostsKeepTheirOrder
  <2> SUFFICES ASSUME OutOK PROVE PostsKeepTheirOrder
    BY DEF ClientInv
  <2> DEFINE ids == Ids(sent)
  <2>1. /\ ids \in Seq(Nat) /\ stuff \in Seq(Nat) /\ out \in Seq(Nat) /\ outbox \in Seq(Nat)
        /\ InOrder(ids) /\ InOrder(stuff) /\ InOrder(out) /\ InOrder(outbox)
        /\ 0 \notin Elements(ids)
        /\ Precedes(ids, stuff) /\ Precedes(ids, out) /\ Precedes(ids, outbox)
        /\ Precedes(stuff, out) /\ Precedes(stuff, outbox) /\ Precedes(out, outbox)
    BY DEF OutOK, Posts
  <2> HIDE DEF ids
  <2>2. /\ Unsent \in Seq(Nat) /\ InOrder(Unsent)
        /\ Elements(Unsent) = Elements(stuff) \cup Elements(out) \cup Elements(outbox)
    BY <2>1, ThreeInOrder DEF Unsent
  <2>3. Precedes(ids, Unsent)
    BY <2>1, <2>2 DEF Precedes
  <2>4. InOrder(ids \o Unsent)
    BY <2>1, <2>2, <2>3, ConcatFacts
  <2>5. Increasing(ids)
    BY <2>1, OrderedAscend
  <2> QED BY <2>4, <2>5 DEF PostsKeepTheirOrder, ids
<1> QED BY <1>1, ClientInvariance, PTL

\* MailIsInOrder: the application fetches mail in the order in which the database sent it and
\* none twice, across connections, purges of the inbox and either kind of database.
THEOREM MailIsInOrder == Spec => []MailKeepsItsOrder
<1>1. ClientInv => MailKeepsItsOrder
  <2> SUFFICES ASSUME InOK PROVE MailKeepsItsOrder
    BY DEF ClientInv
  <2>1. InOrder(fetched \o inbox \o pkt)
    BY ThreeInOrder DEF InOK, Posts
  <2>2. Increasing(fetched)
    BY OrderedAscend DEF InOK, Posts
  <2> QED BY <2>1, <2>2 DEF MailKeepsItsOrder
<1> QED BY <1>1, ClientInvariance, PTL

\* MailIsNeverHidden: Fetch, which tests m_bMailPresent before it takes the lock, never finds
\* it false while there is mail in the inbox.
THEOREM MailIsNeverHidden == Spec => []MailIsAnnounced
<1>1. ClientInv => MailIsAnnounced
  BY DEF ClientInv
<1> QED BY <1>1, ClientInvariance, PTL

\* ClientTypes: the variables of the client keep their types: the writing thread has a socket
\* whenever it uses one, and no request to terminate is ever sent to the database.
THEOREM ClientTypes == Spec => []TypeOK
<1>1. ClientInv => TypeOK
  <2> SUFFICES ASSUME ClientInv PROVE TypeOK
    OBVIOUS
  <2>0. Len(posted) \in Nat /\ nmail \in Nat
    BY ClientAssumption DEF ClientInv, PostersOK, InOK
  <2>1. ASSUME NEW s, NEW n \in Nat, Posts(s, n) PROVE s \in Seq(0..n)
    <3>1. s \in Seq(Nat) /\ \A i \in DOMAIN s : s[i] \in 0..n
      BY <2>1 DEF Posts, Elements
    <3> QED BY <3>1, SeqNarrows
  <2>2. {stuff, out, outbox} \subseteq Seq(0..Len(posted))
    BY <2>0, <2>1 DEF ClientInv, OutOK
  <2>3. {pkt, inbox, fetched} \subseteq Seq(0..nmail)
    BY <2>0, <2>1 DEF ClientInv, InOK
  <2>4. sent \in Seq([id : 1..Len(posted), on : Conns])
    <3>1. sent \in Seq([id : Nat, on : Conns])
      BY DEF ClientInv, OutOK
    <3>2. ASSUME NEW i \in DOMAIN sent PROVE sent[i] \in [id : 1..Len(posted), on : Conns]
      <4>1. sent[i].id \in Elements(Ids(sent))
        <5>1. i \in DOMAIN Ids(sent) /\ Ids(sent)[i] = sent[i].id
          BY DEF Ids
        <5> QED BY <5>1 DEF Elements
      <4>2. sent[i].id \in 1..Len(posted)
        BY <2>0, <4>1 DEF ClientInv, OutOK, Posts
      <4>3. sent[i] \in [id : Nat, on : Conns]
        <5> DEFINE R == [id : Nat, on : Conns]
        <5>1. sent \in Seq(R)
          BY <3>1
        <5> HIDE DEF R
        <5>2. sent[i] \in R
          BY <5>1
        <5> QED BY <5>2 DEF R
      <4>4. sent[i] = [id |-> sent[i].id, on |-> sent[i].on] /\ sent[i].on \in Conns
        BY <4>3
      <4> QED BY <4>2, <4>4
    <3> QED BY <3>1, <3>2, SeqNarrows
  <2>5. {connected, quit, wquit, rquit, mailPresent, poisoned, crashed} \subseteq BOOLEAN
    BY Zenon DEF ClientInv, FlagsOK, InOK
  <2>6. {sock, lastConn, rsock, rstart} \subseteq 0..nconn
    BY DEF ClientInv, LinkOK, ThreadsOK
  <2> QED BY <2>2, <2>3, <2>4, <2>5, <2>6 DEF ClientInv, LinkOK, ThreadsOK, PostersOK, InOK, TypeOK
<1> QED BY <1>1, ClientInvariance, PTL
================================================================================
