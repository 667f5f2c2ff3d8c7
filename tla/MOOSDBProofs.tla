----------------------------- MODULE MOOSDBProofs -----------------------------
(***************************************************************************)
(* Proofs about MOOSDB for every set of clients, variables, filters and    *)
(* intervals.                                                              *)
(***************************************************************************)
EXTENDS MOOSDB, WellFoundedInduction, TLAPS

\* What Subs, filter tables and boxes look like.
SubsType == [Vars -> [Clients -> RegisterInfo \cup {NoSub}]]
FiltersType == [Clients -> [FilterIds -> Periods \cup {-1}]]
BoxesType == [Clients -> Seq(Msg)]

\* The interval a wildcard gives a new subscriber is one some client asked for.
LEMMA WildcardPeriodType ==
    ASSUME NEW STATE F, F \in FiltersType, NEW c \in Clients, NEW STATE src, NEW STATE v,
           MatchingFilters(F, c, src, v) # {}
    PROVE  WildcardPeriod(F, c, src, v) \in Periods
<1> DEFINE M == MatchingFilters(F, c, src, v)
<1>1. M \in SUBSET FilterIds
  BY DEF MatchingFilters
<1>2. \E f \in M : \A g \in M : g <= f
  BY <1>1, FilterAssumption
<1>3. (CHOOSE f \in M : \A g \in M : g <= f) \in M
  BY <1>2
<1>4. ASSUME NEW f \in M PROVE F[c][f] \in Periods
  <2>1. f \in FilterIds /\ F[c][f] >= 0
    BY DEF MatchingFilters
  <2>2. F[c][f] \in Periods \cup {-1}
    BY <2>1 DEF FiltersType
  <2> QED BY <2>1, <2>2
<1> QED BY <1>3, <1>4 DEF WildcardPeriod

\* Everything a write leaves in the table of subscribers is a subscription or none.
LEMMA SubscribersAtWriteType ==
    ASSUME NEW STATE m, m \in Msg, NEW STATE S, S \in SubsType, NEW STATE F, F \in FiltersType
    PROVE  SubscribersAtWrite(m, S, F) \in [Clients -> RegisterInfo \cup {NoSub}]
<1>1. m.var \in Vars
  BY DEF Msg
<1>2. ASSUME NEW c \in Clients
      PROVE  SubscribersAtWrite(m, S, F)[c] \in RegisterInfo \cup {NoSub}
  <2>1. CASE written[m.var] = 0 /\ MatchingFilters(F, c, m.src, m.var) # {}
    <3>1. WildcardPeriod(F, c, m.src, m.var) \in Periods
      BY <2>1, WildcardPeriodType
    <3> QED BY <2>1, <3>1 DEF SubscribersAtWrite, NewSubscriber, RegisterInfo
  <2>2. CASE ~(written[m.var] = 0 /\ MatchingFilters(F, c, m.src, m.var) # {})
    BY <1>1, <2>2 DEF SubscribersAtWrite, SubsType
  <2> QED BY <2>1, <2>2
<1> QED BY <1>2 DEF SubscribersAtWrite

\* OnNotify keeps every table of the database well typed.
LEMMA NotifyType ==
    ASSUME TypeOK, NEW STATE m, m \in Msg, NEW STATE S, S \in SubsType, NEW STATE F, F \in FiltersType, NEW STATE H, H \in BoxesType,
           Notify(m, S, F, H)
    PROVE  /\ exists' \subseteq Vars
           /\ type' \in [Vars -> Types \cup {NotSet}]
           /\ written' \in [Vars -> Nat]
           /\ val' \in [Vars -> Nat]
           /\ who' \in [Vars -> Sources \cup {NoSource}]
           /\ writers' \in [Vars -> SUBSET Sources]
           /\ wtime' \in [Vars -> Nat]
           /\ subs' \in SubsType
           /\ filters' \in FiltersType
           /\ held' \in BoxesType
<1> DEFINE S1 == SubscribersAtWrite(m, S, F)
           D  == IF Accepts(m) THEN Due(S1) ELSE {}
<1>1. m.var \in Vars /\ m.src \in Sources /\ m.type \in Types /\ m.val \in Nat
  BY DEF Msg
<1>2. S1 \in [Clients -> RegisterInfo \cup {NoSub}]
  BY SubscribersAtWriteType
<1>3. exists' \subseteq Vars
  BY <1>1 DEF Notify, TypeOK
<1>4. /\ type' \in [Vars -> Types \cup {NotSet}]
      /\ written' \in [Vars -> Nat]
      /\ val' \in [Vars -> Nat]
      /\ who' \in [Vars -> Sources \cup {NoSource}]
      /\ writers' \in [Vars -> SUBSET Sources]
      /\ wtime' \in [Vars -> Nat]
  <2>1. CASE Accepts(m)
    <3>1. Store(m)
      BY <2>1 DEF Notify
    <3> QED BY <1>1, <3>1 DEF Store, TypeOK
  <2>2. CASE ~Accepts(m)
    BY <2>2 DEF Notify, varState, TypeOK
  <2> QED BY <2>1, <2>2
<1>5. subs' \in SubsType
  <2> DEFINE R == [c \in Clients |-> IF c \in D THEN SetLastTimeSent(S1[c]) ELSE S1[c]]
  <2>1. ASSUME NEW c \in Clients PROVE R[c] \in RegisterInfo \cup {NoSub}
    <3>1. CASE c \in D
      <4>1. S1[c] \in RegisterInfo
        BY <1>2, <3>1 DEF Due
      <4> QED BY <3>1, <4>1 DEF SetLastTimeSent, RegisterInfo, TypeOK
    <3>2. CASE c \notin D
      BY <1>2, <3>2
    <3> QED BY <3>1, <3>2
  <2>2. R \in [Clients -> RegisterInfo \cup {NoSub}]
    BY <2>1
  <2>3. subs' = [S EXCEPT ![m.var] = R]
    BY DEF Notify
  <2> QED BY <1>1, <2>2, <2>3 DEF SubsType
<1>6. filters' \in FiltersType
  BY DEF Notify
<1>7. held' \in BoxesType
  BY DEF Notify, AddMessageToClientBox, BoxesType
<1> QED BY <1>3, <1>4, <1>5, <1>6, <1>7

\* A notification of a known source and type is a message.
LEMMA NotificationType ==
    ASSUME TypeOK, NEW STATE v, v \in Vars, NEW STATE src, src \in Sources, NEW STATE t, t \in Types
    PROVE  Notification(v, src, t) \in Msg
BY DEF TypeOK, Notification, Msg

\* A message the database publishes about one of its own variables is a message.
LEMMA OwnNotificationType ==
    ASSUME TypeOK, NEW STATE v, v \in OwnVars
    PROVE  OwnNotification(v) \in Msg /\ OwnNotification(v).var = v
<1>1. v \in Vars /\ OwnType[v] \in Types /\ DBName \in Sources
  BY OwnVarsAssumption, NamesAssumption
<1>2. Notification(v, DBName, OwnType[v]) \in Msg
  BY <1>1, NotificationType
<1> QED BY <1>2 DEF OwnNotification, Notification

\* The current value of a written variable, as a message.
LEMMA Var2MsgType ==
    ASSUME TypeOK, NEW STATE v, v \in Vars, who[v] \in Sources, type[v] \in Types
    PROVE  Var2Msg(v) \in Msg
BY DEF TypeOK, Var2Msg, Msg

\* What OnRegister records of a subscriber is a CMOOSRegisterInfo.
LEMMA RegistrationType ==
    ASSUME TypeOK, NEW STATE v, NEW STATE p, p \in Periods
    PROVE  Registration(v, p) \in RegisterInfo
BY DEF TypeOK, Registration, RegisterInfo

\* A variable that has been written has a source, a type and a value, and is in the map.
WrittenOK ==
    \A v \in Vars :
        /\ val[v] = written[v]
        /\ written[v] # 0 =>
               /\ v \in exists
               /\ type[v] \in Types
               /\ who[v] \in writers[v]

\* The client whose packet is processed is connected.
PktOK ==
    /\ phase # "idle" => cur \in connected
    /\ phase = "summary" => todo # 0

TypeInv == TypeOK /\ WrittenOK /\ PktOK

-------------------------------------------------------------------------------
(* Boxes                                                                   *)

\* A non-empty set of natural numbers with an upper bound has a greatest element.
LEMMA GreatestExists ==
    ASSUME NEW A \in SUBSET Nat, NEW b \in Nat, A # {}, \A i \in A : i <= b
    PROVE  \E i \in A : \A j \in A : j <= i
<1> DEFINE T == {b - i : i \in A}
<1>1. T \subseteq Nat /\ T # {}
  <2>1. ASSUME NEW i \in A PROVE b - i \in Nat
    <3>1. i \in Nat /\ i <= b
      OBVIOUS
    <3> QED BY <3>1
  <2> QED BY <2>1
<1>2. \E x \in T : \A y \in T : ~(<<y, x>> \in OpToRel(<, Nat))
  BY <1>1, NatLessThanWellFounded, WFMin
<1>3. PICK x \in T : \A y \in T : ~(<<y, x>> \in OpToRel(<, Nat))
  BY <1>2
<1>4. ASSUME NEW y \in T PROVE x <= y
  <2>1. ~(y < x)
    BY <1>1, <1>3 DEF OpToRel
  <2> QED BY <1>1, <2>1
<1>5. PICK i \in A : x = b - i
  OBVIOUS
<1>6. ASSUME NEW j \in A PROVE j <= i
  <2>1. x <= b - j
    BY <1>4
  <2> QED BY <1>5, <2>1
<1> QED BY <1>6

\* A box that has a message about v has a last one.
LEMMA LastAboutExists ==
    ASSUME NEW s \in Seq(Msg), NEW v, NEW i \in DOMAIN s, s[i].var = v
    PROVE  /\ LastAbout(s, v) \in DOMAIN s
           /\ s[LastAbout(s, v)].var = v
           /\ \A j \in DOMAIN s : s[j].var = v => j <= LastAbout(s, v)
<1> DEFINE A == {k \in DOMAIN s : s[k].var = v}
<1>1. Len(s) \in Nat /\ DOMAIN s = 1 .. Len(s)
  OBVIOUS
<1>2. A \in SUBSET Nat /\ A # {} /\ \A k \in A : k <= Len(s)
  BY <1>1
<1>3. \E k \in A : \A j \in A : j <= k
  BY <1>1, <1>2, GreatestExists
<1>4. \E k \in DOMAIN s : s[k].var = v /\ \A j \in DOMAIN s : s[j].var = v => j <= k
  BY <1>3
<1> QED BY <1>4 DEF LastAbout

\* Message i of box s is the last one about v.
IsLastAbout(s, v, i) ==
    /\ i \in DOMAIN s
    /\ s[i].var = v
    /\ \A j \in DOMAIN s : s[j].var = v => j <= i

\* The newest value in a box is the one the last message about the variable carries.
LEMMA NewestInIs ==
    ASSUME NEW s \in Seq(Msg), NEW v, NEW old, NEW i, IsLastAbout(s, v, i)
    PROVE  NewestIn(s, v, old) = s[i].val
<1>1. LastAbout(s, v) = i
  <2>1. /\ LastAbout(s, v) \in DOMAIN s
        /\ s[LastAbout(s, v)].var = v
        /\ \A j \in DOMAIN s : s[j].var = v => j <= LastAbout(s, v)
    BY LastAboutExists DEF IsLastAbout
  <2> QED BY <2>1 DEF IsLastAbout
<1> QED BY <1>1 DEF NewestIn, IsLastAbout

\* A message at the end of a box is the newest about its variable and about no other.
LEMMA NewestInAppend ==
    ASSUME NEW s \in Seq(Msg), NEW m \in Msg, NEW v, NEW old
    PROVE  NewestIn(Append(s, m), v, old) = IF m.var = v THEN m.val ELSE NewestIn(s, v, old)
<1> DEFINE a == Append(s, m)
<1>1. /\ a \in Seq(Msg)
      /\ DOMAIN a = 1 .. Len(s) + 1
      /\ DOMAIN s = 1 .. Len(s)
      /\ Len(s) \in Nat
      /\ \A i \in DOMAIN s : a[i] = s[i]
      /\ a[Len(s) + 1] = m
  OBVIOUS
<1> HIDE DEF a
<1>2. CASE m.var = v
  <2>1. Len(s) + 1 \in DOMAIN a /\ \A j \in DOMAIN a : j <= Len(s) + 1
    BY <1>1
  <2>2. NewestIn(a, v, old) = a[Len(s) + 1].val
    BY <1>1, <1>2, <2>1, NewestInIs DEF IsLastAbout
  <2> QED BY <1>1, <1>2, <2>2 DEF a
<1>3. CASE m.var # v /\ \E i \in DOMAIN s : s[i].var = v
  <2>1. /\ LastAbout(s, v) \in DOMAIN s
        /\ s[LastAbout(s, v)].var = v
        /\ \A j \in DOMAIN s : s[j].var = v => j <= LastAbout(s, v)
    BY <1>3, LastAboutExists
  <2>2. \A j \in DOMAIN a : a[j].var = v => j <= LastAbout(s, v)
    BY <1>1, <1>3, <2>1
  <2>3. LastAbout(s, v) \in DOMAIN a /\ a[LastAbout(s, v)] = s[LastAbout(s, v)]
    BY <1>1, <2>1
  <2>4. a \in Seq(Msg) /\ a[LastAbout(s, v)].var = v
    BY <1>1, <2>1, <2>3
  <2>5. IsLastAbout(a, v, LastAbout(s, v))
    BY <2>2, <2>3, <2>4 DEF IsLastAbout
  <2>6. NewestIn(a, v, old) = a[LastAbout(s, v)].val
    BY <2>4, <2>5, NewestInIs
  <2> QED BY <1>3, <2>3, <2>6 DEF NewestIn, a
<1>4. CASE m.var # v /\ ~\E i \in DOMAIN s : s[i].var = v
  <2>1. ~\E i \in DOMAIN a : a[i].var = v
    BY <1>1, <1>4
  <2> QED BY <1>4, <2>1 DEF NewestIn, a
<1> QED BY <1>2, <1>3, <1>4

\* In a joined box the newest message comes from the second part if that has one.
LEMMA NewestInConcat ==
    ASSUME NEW s \in Seq(Msg), NEW t \in Seq(Msg), NEW v, NEW old
    PROVE  NewestIn(s \o t, v, old) =
               IF \E i \in DOMAIN t : t[i].var = v THEN t[LastAbout(t, v)].val ELSE NewestIn(s, v, old)
<1> DEFINE a == s \o t
<1>1. /\ a \in Seq(Msg)
      /\ DOMAIN a = 1 .. Len(s) + Len(t)
      /\ DOMAIN s = 1 .. Len(s)
      /\ DOMAIN t = 1 .. Len(t)
      /\ Len(s) \in Nat
      /\ Len(t) \in Nat
      /\ \A i \in DOMAIN s : a[i] = s[i]
      /\ \A i \in DOMAIN t : a[Len(s) + i] = t[i]
      /\ \A i \in DOMAIN a : i \notin DOMAIN s => i - Len(s) \in DOMAIN t /\ a[i] = t[i - Len(s)]
  OBVIOUS
<1> HIDE DEF a
<1>2. CASE \E i \in DOMAIN t : t[i].var = v
  <2> DEFINE k == LastAbout(t, v)
  <2>1. /\ k \in DOMAIN t
        /\ t[k].var = v
        /\ \A j \in DOMAIN t : t[j].var = v => j <= k
    BY <1>2, LastAboutExists
  <2> HIDE DEF k
  <2>2. Len(s) + k \in DOMAIN a /\ a[Len(s) + k] = t[k]
    BY <1>1, <2>1
  <2>3. \A j \in DOMAIN a : a[j].var = v => j <= Len(s) + k
    BY <1>1, <2>1
  <2>4. a \in Seq(Msg) /\ a[Len(s) + k].var = v
    BY <1>1, <2>1, <2>2
  <2>5. IsLastAbout(a, v, Len(s) + k)
    BY <2>2, <2>3, <2>4 DEF IsLastAbout
  <2>6. NewestIn(a, v, old) = a[Len(s) + k].val
    BY <2>4, <2>5, NewestInIs
  <2> QED BY <1>2, <2>2, <2>6 DEF k, a
<1>3. CASE (~\E i \in DOMAIN t : t[i].var = v) /\ \E i \in DOMAIN s : s[i].var = v
  <2> DEFINE k == LastAbout(s, v)
  <2>1. /\ k \in DOMAIN s
        /\ s[k].var = v
        /\ \A j \in DOMAIN s : s[j].var = v => j <= k
    BY <1>3, LastAboutExists
  <2> HIDE DEF k
  <2>2. \A j \in DOMAIN a : a[j].var = v => j <= k
    BY <1>1, <1>3, <2>1
  <2>3. k \in DOMAIN a /\ a[k] = s[k]
    BY <1>1, <2>1
  <2>4. a \in Seq(Msg) /\ a[k].var = v
    BY <1>1, <2>1, <2>3
  <2>5. IsLastAbout(a, v, k)
    BY <2>2, <2>3, <2>4 DEF IsLastAbout
  <2>6. NewestIn(a, v, old) = a[k].val
    BY <2>4, <2>5, NewestInIs
  <2> QED BY <1>3, <2>3, <2>6 DEF NewestIn, k, a
<1>4. CASE (~\E i \in DOMAIN t : t[i].var = v) /\ ~\E i \in DOMAIN s : s[i].var = v
  <2>1. ~\E i \in DOMAIN a : a[i].var = v
    BY <1>1, <1>4
  <2> QED BY <1>4, <2>1 DEF NewestIn, a
<1> QED BY <1>2, <1>3, <1>4

\* The newest value is a number.
LEMMA NewestType ==
    ASSUME TypeOK, NEW STATE c, c \in Clients, NEW STATE v, v \in Vars
    PROVE  Newest(c, v) \in Nat
<1>1. held[c] \in Seq(Msg) /\ seen[c][v] \in Nat
  BY DEF TypeOK
<1>2. CASE \E i \in DOMAIN held[c] : held[c][i].var = v
  <2>1. LastAbout(held[c], v) \in DOMAIN held[c]
    BY <1>1, <1>2, LastAboutExists
  <2>2. held[c][LastAbout(held[c], v)] \in Msg
    BY <1>1, <2>1
  <2> QED BY <1>2, <2>2 DEF Newest, NewestIn, Msg
<1>3. CASE ~\E i \in DOMAIN held[c] : held[c][i].var = v
  BY <1>1, <1>3 DEF Newest, NewestIn
<1> QED BY <1>2, <1>3

-------------------------------------------------------------------------------
(* Types                                                                   *)

\* OnNotify with the number of this write as its value keeps the variables in order.
LEMMA NotifyWritten ==
    ASSUME TypeInv, NEW STATE m, m \in Msg, m.val = written[m.var] + 1,
           NEW STATE S, S \in SubsType, NEW STATE F, F \in FiltersType, NEW STATE H, H \in BoxesType,
           Notify(m, S, F, H)
    PROVE  WrittenOK'
<1>1. m.var \in Vars /\ m.src \in Sources /\ m.type \in Types
  BY DEF Msg
<1>2. exists' = exists \cup {m.var}
  BY DEF Notify
<1>3. CASE Accepts(m)
  <2>1. Store(m)
    BY <1>3 DEF Notify
  <2> QED BY <1>1, <1>2, <2>1 DEF Store, TypeInv, TypeOK, WrittenOK
<1>4. CASE ~Accepts(m)
  <2>1. UNCHANGED varState
    BY <1>4 DEF Notify
  <2> QED BY <1>2, <2>1 DEF varState, TypeInv, TypeOK, WrittenOK
<1> QED BY <1>3, <1>4

\* Splicing a box into a reply leaves boxes and history well typed.
LEMMA DeliverType ==
    ASSUME TypeOK, NEW STATE c, c \in Clients, Deliver(c)
    PROVE  held' \in BoxesType /\ seen' \in [Clients -> [Vars -> Nat]]
<1>1. held' \in BoxesType
  BY DEF Deliver, TypeOK, BoxesType
<1>2. [v \in Vars |-> Newest(c, v)] \in [Vars -> Nat]
  BY NewestType
<1> QED BY <1>1, <1>2 DEF Deliver, TypeOK

\* Handlers that are one call of OnNotify.
LEMMA NotifyTypeInv ==
    ASSUME TypeInv, NEW STATE m, m \in Msg, m.val = written[m.var] + 1,
           Notify(m, subs, filters, held), UNCHANGED <<seen, wild, now>>,
           declined' = Undecline(m.var, SubscribersAtWrite(m, subs, filters)),
           connected' \subseteq Clients, connected \subseteq connected',
           phase' = phase, cur' = cur, summaryTime' = summaryTime, todo' \in {todo, todo + 1}
    PROVE  TypeInv'
<1>1. subs \in SubsType /\ filters \in FiltersType /\ held \in BoxesType
  BY DEF TypeInv, TypeOK, SubsType, FiltersType, BoxesType
<1>2. declined' \in [Clients -> SUBSET Vars]
  BY DEF Undecline, TypeInv, TypeOK
<1>3. /\ exists' \subseteq Vars
      /\ type' \in [Vars -> Types \cup {NotSet}]
      /\ written' \in [Vars -> Nat]
      /\ val' \in [Vars -> Nat]
      /\ who' \in [Vars -> Sources \cup {NoSource}]
      /\ writers' \in [Vars -> SUBSET Sources]
      /\ wtime' \in [Vars -> Nat]
      /\ subs' \in SubsType
      /\ filters' \in FiltersType
      /\ held' \in BoxesType
  BY <1>1, NotifyType DEF TypeInv
<1>4. TypeOK'
  BY <1>2, <1>3 DEF TypeInv, TypeOK, SubsType, FiltersType, BoxesType
<1>5. WrittenOK'
  BY <1>1, NotifyWritten
<1>6. PktOK'
  BY DEF TypeInv, TypeOK, PktOK
<1> QED BY <1>4, <1>5, <1>6 DEF TypeInv

\* The values OnRegister posts for the variables a filter matches.
LEMMA WildcardMail ==
    ASSUME TypeInv, NEW STATE f, f \in FilterIds,
           NEW o \in Orders({v \in Matched(f) : written[v] # 0})
    PROVE  /\ Len(o) \in Nat
           /\ DOMAIN o = 1 .. Len(o)
           /\ [i \in DOMAIN o |-> Var2Msg(o[i])] \in Seq(Msg)
           /\ \A i \in DOMAIN o : o[i] \in Matched(f) /\ written[o[i]] # 0
           /\ \A v \in Matched(f) : written[v] # 0 => \E i \in DOMAIN o : o[i] = v
           /\ \A i, j \in DOMAIN o : o[i] = o[j] => i = j
<1> DEFINE P == {v \in Matched(f) : written[v] # 0}
<1>1. PICK n \in 0 .. MaxHeld : o \in [1 .. n -> P]
  BY DEF Orders
<1>2. n \in Nat /\ DOMAIN o = 1 .. n /\ Len(o) = n
  BY <1>1, TimeAssumption
<1>3. \A i \in DOMAIN o : o[i] \in P
  BY <1>1
<1>4. ASSUME NEW i \in DOMAIN o PROVE Var2Msg(o[i]) \in Msg
  <2>1. o[i] \in Vars /\ written[o[i]] # 0
    BY <1>3 DEF Matched, TypeInv, TypeOK
  <2>2. who[o[i]] \in Sources /\ type[o[i]] \in Types
    BY <2>1 DEF TypeInv, TypeOK, WrittenOK
  <2> QED BY <2>1, <2>2, Var2MsgType DEF TypeInv
<1>5. [i \in DOMAIN o |-> Var2Msg(o[i])] \in Seq(Msg)
  BY <1>2, <1>4
<1> QED BY <1>2, <1>3, <1>5 DEF Orders

\* The constructor establishes the strengthened type invariant.
LEMMA TypeInvInit == Init => TypeInv
<1> SUFFICES ASSUME Init PROVE TypeInv
  OBVIOUS
<1>1. TypeOK
  BY NamesAssumption, OwnVarsAssumption, TimeAssumption DEF Init, TypeOK
<1>2. WrittenOK
  BY DEF Init, WrittenOK
<1>3. PktOK
  BY DEF Init, PktOK
<1> QED BY <1>1, <1>2, <1>3 DEF TypeInv

\* Every handler preserves it.
LEMMA TypeInvStep == TypeInv /\ [Next]_vars => TypeInv'
<1> SUFFICES ASSUME TypeInv, [Next]_vars PROVE TypeInv'
  OBVIOUS
<1> USE DEF TypeInv
<1>1. ASSUME NEW c \in Clients, BeginPkt(c) PROVE TypeInv'
  BY <1>1 DEF BeginPkt, TypeOK, WrittenOK, PktOK, varState, history
<1>2. ASSUME NEW v \in Vars, NEW src \in Sources, NEW t \in Types, OnNotify(v, src, t) PROVE TypeInv'
  <2> DEFINE m == Notification(v, src, t)
  <2>1. m \in Msg /\ m.val = written[m.var] + 1 /\ m.var = v
    BY NotificationType DEF Notification
  <2> HIDE DEF m
  <2>2. /\ Notify(m, subs, filters, held)
        /\ declined' = Undecline(m.var, SubscribersAtWrite(m, subs, filters))
        /\ UNCHANGED <<connected, phase, cur, todo, summaryTime, now, seen, wild>>
    BY <1>2, <2>1 DEF OnNotify, m, pktState
  <2> QED BY <2>1, <2>2, NotifyTypeInv DEF TypeOK
<1>3. ASSUME NEW v \in Vars, NEW p \in Periods, OnRegister(v, p) PROVE TypeInv'
  <2>1. cur \in Clients
    BY <1>3 DEF OnRegister, InPkt, PktOK, TypeOK
  <2>2. Registration(v, p) \in RegisterInfo
    BY RegistrationType
  <2>3. subs' \in SubsType
    BY <1>3, <2>1, <2>2 DEF OnRegister, TypeOK, SubsType
  <2>4. held' \in BoxesType
    <3>1. CASE v \in exists /\ written[v] # 0
      <4>1. who[v] \in Sources /\ type[v] \in Types
        BY <3>1 DEF TypeOK, WrittenOK
      <4>2. Var2Msg(v) \in Msg
        BY <4>1, Var2MsgType
      <4> QED BY <1>3, <3>1, <2>1, <4>2 DEF OnRegister, HasValue, TypeOK, BoxesType
    <3>2. CASE ~(v \in exists /\ written[v] # 0)
      BY <1>3, <3>2 DEF OnRegister, HasValue, TypeOK, BoxesType
    <3> QED BY <3>1, <3>2
  <2>5. declined' \in [Clients -> SUBSET Vars] /\ exists' \subseteq Vars
    BY <1>3, <2>1 DEF OnRegister, TypeOK
  <2>6. TypeOK'
    BY <1>3, <2>3, <2>4, <2>5 DEF OnRegister, TypeOK, SubsType, BoxesType, varState, pktState
  <2>7. WrittenOK' /\ PktOK'
    BY <1>3 DEF OnRegister, WrittenOK, PktOK, varState, pktState
  <2> QED BY <2>6, <2>7
<1>4. ASSUME NEW f \in FilterIds, NEW p \in Periods, OnWildcardRegister(f, p) PROVE TypeInv'
  <2>1. cur \in Clients
    BY <1>4 DEF OnWildcardRegister, InPkt, PktOK, TypeOK
  <2>2. subs' \in SubsType
    <3>1. \A v \in Vars : Registration(v, p) \in RegisterInfo
      BY RegistrationType
    <3> QED BY <1>4, <2>1, <3>1 DEF OnWildcardRegister, TypeOK, SubsType
  <2>3. filters' \in FiltersType /\ wild' \in FiltersType
    BY <1>4, <2>1 DEF OnWildcardRegister, TypeOK, FiltersType
  <2>4. held' \in BoxesType
    <3>1. PICK o \in Orders({v \in Matched(f) : written[v] # 0}) :
              held' = [held EXCEPT ![cur] = @ \o [i \in DOMAIN o |-> Var2Msg(o[i])]]
      BY <1>4 DEF OnWildcardRegister
    <3>2. [i \in DOMAIN o |-> Var2Msg(o[i])] \in Seq(Msg)
      BY WildcardMail
    <3> QED BY <2>1, <3>1, <3>2 DEF TypeOK, BoxesType
  <2>5. declined' \in [Clients -> SUBSET Vars]
    BY <1>4, <2>1 DEF OnWildcardRegister, TypeOK
  <2>6. TypeOK'
    BY <1>4, <2>2, <2>3, <2>4, <2>5
       DEF OnWildcardRegister, TypeOK, SubsType, FiltersType, BoxesType, varState, pktState
  <2>7. WrittenOK' /\ PktOK'
    BY <1>4 DEF OnWildcardRegister, WrittenOK, PktOK, varState, pktState
  <2> QED BY <2>6, <2>7
<1>5. ASSUME NEW v \in Vars, OnUnRegister(v) PROVE TypeInv'
  <2>1. cur \in Clients
    BY <1>5 DEF OnUnRegister, InPkt, PktOK, TypeOK
  <2>2. subs' \in SubsType /\ declined' \in [Clients -> SUBSET Vars]
    BY <1>5, <2>1 DEF OnUnRegister, TypeOK, SubsType
  <2>3. TypeOK'
    BY <1>5, <2>2 DEF OnUnRegister, TypeOK, SubsType, varState, pktState
  <2>4. WrittenOK' /\ PktOK'
    BY <1>5 DEF OnUnRegister, WrittenOK, PktOK, varState, pktState
  <2> QED BY <2>3, <2>4
<1>6. ASSUME NEW f \in FilterIds, OnWildcardUnRegister(f) PROVE TypeInv'
  <2>1. cur \in Clients
    BY <1>6 DEF OnWildcardUnRegister, InPkt, PktOK, TypeOK
  <2>2. subs' \in SubsType
    BY <1>6, <2>1 DEF OnWildcardUnRegister, TypeOK, SubsType
  <2>3. declined' \in [Clients -> SUBSET Vars] /\ wild' \in FiltersType
    BY <1>6, <2>1 DEF OnWildcardUnRegister, TypeOK, FiltersType, Matched
  <2>4. TypeOK'
    BY <1>6, <2>2, <2>3 DEF OnWildcardUnRegister, TypeOK, SubsType, FiltersType, varState, pktState
  <2>5. WrittenOK' /\ PktOK'
    BY <1>6 DEF OnWildcardUnRegister, WrittenOK, PktOK, varState, pktState
  <2> QED BY <2>4, <2>5
<1>7. ASSUME OnClearRequested PROVE TypeInv'
  <2>1. TypeOK'
    BY <1>7 DEF OnClearRequested, ClearedBoxes, TypeOK, pktState
  <2>2. WrittenOK' /\ PktOK'
    BY <1>7 DEF OnClearRequested, WrittenOK, PktOK, pktState
  <2> QED BY <2>1, <2>2
<1>8. ASSUME EndRx PROVE TypeInv'
  <2>1. cur \in Clients
    BY <1>8 DEF EndRx, PktOK, TypeOK
  <2>2. CASE now - summaryTime > SummaryPeriod
    BY <1>8, <2>2 DEF EndRx, TypeOK, WrittenOK, PktOK, varState
  <2>3. CASE ~(now - summaryTime > SummaryPeriod)
    <3>1. held' \in BoxesType /\ seen' \in [Clients -> [Vars -> Nat]]
      BY <1>8, <2>1, <2>3, DeliverType DEF EndRx
    <3>2. TypeOK'
      BY <1>8, <2>3, <3>1 DEF EndRx, TypeOK, BoxesType, varState
    <3>3. WrittenOK' /\ PktOK'
      BY <1>8, <2>3 DEF EndRx, WrittenOK, PktOK, varState
    <3> QED BY <3>2, <3>3
  <2> QED BY <2>2, <2>3
<1>9. ASSUME UpdateSummary PROVE TypeInv'
  <2> DEFINE m == OwnNotification(SummaryVars[todo])
  <2>1. SummaryVars[todo] \in OwnVars
    <3>1. todo # 0
      BY <1>9 DEF UpdateSummary, TypeOK, PktOK
    <3> QED BY <1>9, <3>1, OwnVarsAssumption DEF UpdateSummary, TypeOK
  <2>2. m \in Msg /\ m.val = written[m.var] + 1
    BY <2>1, OwnNotificationType DEF OwnNotification, Notification
  <2> HIDE DEF m
  <2>3. /\ Notify(m, subs, filters, held)
        /\ declined' = Undecline(m.var, SubscribersAtWrite(m, subs, filters))
        /\ UNCHANGED <<connected, phase, cur, summaryTime, now, seen, wild>>
        /\ todo' = todo + 1
    BY <1>9 DEF UpdateSummary, m, TypeOK
  <2> QED BY <2>2, <2>3, NotifyTypeInv DEF TypeOK
<1>10. ASSUME SkipSummary PROVE TypeInv'
  BY <1>10 DEF SkipSummary, TypeOK, WrittenOK, PktOK, varState, history
<1>11. ASSUME EndSummary PROVE TypeInv'
  <2>1. cur \in Clients
    BY <1>11 DEF EndSummary, PktOK, TypeOK
  <2>2. held' \in BoxesType /\ seen' \in [Clients -> [Vars -> Nat]]
    BY <1>11, <2>1, DeliverType DEF EndSummary
  <2>3. TypeOK'
    BY <1>11, <2>2 DEF EndSummary, TypeOK, BoxesType, varState
  <2>4. WrittenOK' /\ PktOK'
    BY <1>11 DEF EndSummary, WrittenOK, PktOK, varState
  <2> QED BY <2>3, <2>4
<1>12. ASSUME NEW c \in Clients, OnFetchAllMail(c) PROVE TypeInv'
  <2>1. held' \in BoxesType /\ seen' \in [Clients -> [Vars -> Nat]]
    BY <1>12, DeliverType DEF OnFetchAllMail
  <2>2. TypeOK'
    BY <1>12, <2>1 DEF OnFetchAllMail, TypeOK, BoxesType, varState, pktState
  <2>3. WrittenOK' /\ PktOK'
    BY <1>12 DEF OnFetchAllMail, WrittenOK, PktOK, varState, pktState
  <2> QED BY <2>2, <2>3
<1>13. ASSUME NEW c \in Clients, OnConnect(c) PROVE TypeInv'
  <2> DEFINE m == OwnNotification(EventVar)
  <2>1. m \in Msg /\ m.val = written[m.var] + 1 /\ m.var = EventVar
    BY OwnVarsAssumption, OwnNotificationType DEF OwnNotification, Notification
  <2> HIDE DEF m
  <2>2. /\ Notify(m, subs, filters, held)
        /\ declined' = Undecline(m.var, SubscribersAtWrite(m, subs, filters))
        /\ UNCHANGED <<phase, cur, todo, summaryTime, now, seen, wild>>
        /\ connected' = connected \cup {c}
    BY <1>13, <2>1 DEF OnConnect, m, pktState
  <2> QED BY <2>1, <2>2, NotifyTypeInv DEF TypeOK
<1>14. ASSUME NEW c \in Clients, OnDisconnect(c) PROVE TypeInv'
  <2> DEFINE m == OwnNotification(EventVar)
  <2>1. m \in Msg /\ m.val = written[m.var] + 1 /\ m.var = EventVar
    BY OwnVarsAssumption, OwnNotificationType DEF OwnNotification, Notification
  <2> HIDE DEF m
  <2>2. RemoveSubscriber(c) \in SubsType
    BY DEF RemoveSubscriber, TypeOK, SubsType
  <2>3. ClearFilters(c) \in FiltersType
    BY DEF ClearFilters, TypeOK, FiltersType
  <2>4. EraseBox(c) \in BoxesType
    BY DEF EraseBox, TypeOK, BoxesType
  <2>5. Notify(m, RemoveSubscriber(c), ClearFilters(c), EraseBox(c))
    BY <1>14 DEF OnDisconnect, m
  <2>6. /\ exists' \subseteq Vars
        /\ type' \in [Vars -> Types \cup {NotSet}]
        /\ written' \in [Vars -> Nat]
        /\ val' \in [Vars -> Nat]
        /\ who' \in [Vars -> Sources \cup {NoSource}]
        /\ writers' \in [Vars -> SUBSET Sources]
        /\ wtime' \in [Vars -> Nat]
        /\ subs' \in SubsType
        /\ filters' \in FiltersType
        /\ held' \in BoxesType
    BY <2>1, <2>2, <2>3, <2>4, <2>5, NotifyType
  <2>7. WrittenOK'
    BY <2>1, <2>2, <2>3, <2>4, <2>5, NotifyWritten
  <2>8. declined' \in [Clients -> SUBSET Vars]
    BY <1>14 DEF OnDisconnect, Undecline, TypeOK
  <2>9. seen' \in [Clients -> [Vars -> Nat]] /\ wild' \in FiltersType
    BY <1>14 DEF OnDisconnect, TypeOK, FiltersType
  <2>10. TypeOK'
    BY <1>14, <2>6, <2>8, <2>9 DEF OnDisconnect, TypeOK, SubsType, FiltersType, BoxesType, pktState
  <2>11. PktOK'
    BY <1>14 DEF OnDisconnect, PktOK, pktState
  <2> QED BY <2>7, <2>10, <2>11
<1>15. ASSUME Tick PROVE TypeInv'
  BY <1>15 DEF Tick, TypeOK, WrittenOK, PktOK, varState, pktState, history
<1>16. ASSUME UNCHANGED vars PROVE TypeInv'
  BY <1>16 DEF vars, TypeOK, WrittenOK, PktOK, varState, pktState, history
<1> QED
  BY <1>1, <1>2, <1>3, <1>4, <1>5, <1>6, <1>7, <1>8, <1>9, <1>10, <1>11, <1>12, <1>13, <1>14, <1>15, <1>16
     DEF Next, ProcessMsg

-------------------------------------------------------------------------------
(* The invariant of the mail                                               *)

\* A client has been sent nothing newer than what is stored.
SeenOK == \A c \in Clients, v \in Vars : seen[c][v] <= val[v]

\* Nothing was written or sent in the future.
TimeOK ==
    /\ StartTime <= now
    /\ \A v \in Vars : wtime[v] <= now
    /\ \A v \in Vars, c \in Clients : subs[v][c].last <= now

MailInv ==
    /\ TypeInv
    /\ NothingForTheDeparted
    /\ MailIsGenuine
    /\ MailInWriteOrder
    /\ SeenOK
    /\ TimeOK
    /\ StaleOnlyWhenThrottled

\* Nothing of client c in the tables S, F and H.
Nothing(c, S, F, H) ==
    /\ \A v \in Vars : S[v][c] = NoSub
    /\ \A f \in FilterIds : F[c][f] = -1
    /\ H[c] = <<>>

\* A write leaves nothing for a client of which there was nothing.
LEMMA NotifyNothing ==
    ASSUME TypeInv, NEW STATE m, m \in Msg, NEW STATE S, S \in SubsType, NEW STATE F, F \in FiltersType,
           NEW STATE H, H \in BoxesType, Notify(m, S, F, H), NEW c \in Clients, Nothing(c, S, F, H)
    PROVE  /\ \A v \in Vars : subs'[v][c] = NoSub
           /\ \A f \in FilterIds : filters'[c][f] = -1
           /\ held'[c] = <<>>
<1> DEFINE S1 == SubscribersAtWrite(m, S, F)
           D  == IF Accepts(m) THEN Due(S1) ELSE {}
           R  == [k \in Clients |-> IF k \in D THEN SetLastTimeSent(S1[k]) ELSE S1[k]]
<1>1. m.var \in Vars
  BY DEF Msg
<1>2. MatchingFilters(F, c, m.src, m.var) = {}
  BY DEF MatchingFilters, Nothing
<1>3. S1[c] = NoSub
  BY <1>1, <1>2 DEF SubscribersAtWrite, Nothing
<1>4. c \notin D
  BY <1>3 DEF Due
<1>5. subs' = [S EXCEPT ![m.var] = R] /\ filters' = F /\ held' = AddMessageToClientBox(D, m, H)
  BY DEF Notify
<1>6. R[c] = NoSub
  BY <1>3, <1>4
<1> HIDE DEF R, D
<1>7. \A v \in Vars : subs'[v][c] = NoSub
  BY <1>1, <1>5, <1>6 DEF SubsType, Nothing
<1>8. held'[c] = <<>>
  BY <1>4, <1>5 DEF AddMessageToClientBox, Nothing
<1> QED BY <1>5, <1>7, <1>8 DEF Nothing

\* The tables S and H agree with the stored ones for client c.
Same(c, S, H) ==
    /\ \A v \in Vars : S[v][c] = subs[v][c]
    /\ H[c] = held[c]
    /\ seen'[c] = seen[c]

\* What a write leaves for a client whose subscriptions and box it found as they were stored.
LEMMA NotifySame ==
    ASSUME MailInv, NEW STATE m, m \in Msg, m.val = written[m.var] + 1,
           NEW STATE S, S \in SubsType, NEW STATE F, F \in FiltersType, NEW STATE H, H \in BoxesType,
           Notify(m, S, F, H), now' = now, NEW c \in Clients,
           \/ Same(c, S, H)
           \/ Nothing(c, S, F, H) /\ seen'[c] = [v \in Vars |-> 0]
    PROVE  /\ \A i \in DOMAIN held'[c] :
                  /\ held'[c][i].var \in exists'
                  /\ held'[c][i].type = type'[held'[c][i].var]
                  /\ held'[c][i].src \in writers'[held'[c][i].var]
                  /\ held'[c][i].val \in 1 .. val'[held'[c][i].var]
           /\ \A i \in DOMAIN held'[c] :
                  /\ seen'[c][held'[c][i].var] <= held'[c][i].val
                  /\ \A j \in DOMAIN held'[c] :
                         i < j /\ held'[c][i].var = held'[c][j].var => held'[c][i].val <= held'[c][j].val
           /\ \A v \in Vars : seen'[c][v] <= val'[v]
           /\ \A v \in Vars : subs'[v][c].last <= now
           /\ \A v \in Vars :
                  (subs'[v][c] # NoSub /\ written'[v] # 0 /\ NewestIn(held'[c], v, seen'[c][v]) # val'[v])
                      => wtime'[v] - subs'[v][c].last \in 0 .. subs'[v][c].period - 1
<1> DEFINE x == m.var
           S1 == SubscribersAtWrite(m, S, F)
           D  == IF Accepts(m) THEN Due(S1) ELSE {}
           R  == [k \in Clients |-> IF k \in D THEN SetLastTimeSent(S1[k]) ELSE S1[k]]
<1>1. x \in Vars /\ m.src \in Sources /\ m.type \in Types /\ m.val = val[x] + 1 /\ val[x] \in Nat
  BY DEF Msg, MailInv, TypeInv, WrittenOK, TypeOK
<1>2. /\ exists' = exists \cup {x}
      /\ subs' = [S EXCEPT ![x] = R]
      /\ held' = AddMessageToClientBox(D, m, H)
  BY DEF Notify
<1>3. /\ \A v \in Vars \ {x} : /\ type'[v] = type[v]
                               /\ written'[v] = written[v]
                               /\ val'[v] = val[v]
                               /\ writers'[v] = writers[v]
                               /\ wtime'[v] = wtime[v]
      /\ Accepts(m) => /\ type'[x] = m.type
                       /\ written'[x] = written[x] + 1
                       /\ val'[x] = m.val
                       /\ writers'[x] = writers[x] \cup {m.src}
                       /\ wtime'[x] = now
      /\ ~Accepts(m) => /\ written[x] # 0
                        /\ type'[x] = type[x]
                        /\ written'[x] = written[x]
                        /\ val'[x] = val[x]
                        /\ writers'[x] = writers[x]
                        /\ wtime'[x] = wtime[x]
  <2>1. CASE Accepts(m)
    <3>1. Store(m)
      BY <2>1 DEF Notify
    <3> QED BY <1>1, <2>1, <3>1 DEF Store, MailInv, TypeInv, TypeOK
  <2>2. CASE ~Accepts(m)
    <3>1. UNCHANGED varState
      BY <2>2 DEF Notify
    <3> QED BY <2>2, <3>1 DEF varState, Accepts
  <2> QED BY <2>1, <2>2
<1>4. S1 \in [Clients -> RegisterInfo \cup {NoSub}]
  BY SubscribersAtWriteType
<1>5. \A v \in Vars : subs'[v][c] = IF v = x THEN R[c] ELSE S[v][c]
  BY <1>1, <1>2 DEF SubsType
<1>6. held'[c] = IF c \in D THEN Append(H[c], m) ELSE H[c]
  BY <1>2 DEF AddMessageToClientBox
<1>7. CASE Nothing(c, S, F, H) /\ seen'[c] = [v \in Vars |-> 0]
  <2>1. /\ \A v \in Vars : subs'[v][c] = NoSub
        /\ held'[c] = <<>>
    BY <1>7, NotifyNothing DEF MailInv
  <2>2. \A v \in Vars : val'[v] \in Nat
    <3>1. val' \in [Vars -> Nat]
      BY NotifyType DEF MailInv, TypeInv
    <3> QED BY <3>1
  <2>3. \A v \in Vars : subs'[v][c].last <= now
    BY <2>1 DEF NoSub, MailInv, TypeInv, TypeOK
  <2> QED BY <1>7, <2>1, <2>2, <2>3
<1>8. CASE Same(c, S, H)
  <2> DEFINE b == held[c]
  <2>1. H[c] = b /\ seen'[c] = seen[c] /\ b \in Seq(Msg) /\ now \in Nat
    BY <1>8 DEF Same, MailInv, TypeInv, TypeOK
  <2>2. \A i \in DOMAIN b : /\ b[i] \in Msg
                            /\ b[i].var \in exists
                            /\ b[i].type = type[b[i].var]
                            /\ b[i].src \in writers[b[i].var]
                            /\ b[i].val \in 1 .. val[b[i].var]
    BY <2>1 DEF MailInv, MailIsGenuine
  <2>3. \A i \in DOMAIN b :
           /\ seen[c][b[i].var] <= b[i].val
           /\ \A j \in DOMAIN b : i < j /\ b[i].var = b[j].var => b[i].val <= b[j].val
    BY DEF MailInv, MailInWriteOrder
  <2>4. \A v \in Vars : /\ seen[c][v] \in Nat
                        /\ seen[c][v] <= val[v]
                        /\ val[v] \in Nat
                        /\ val[v] = written[v]
                        /\ wtime[v] \in Nat
                        /\ wtime[v] <= now
    BY DEF MailInv, TypeInv, TypeOK, WrittenOK, SeenOK, TimeOK
  <2>5. \A v \in Vars : S[v][c] = subs[v][c] /\ subs[v][c] \in RegisterInfo \cup {NoSub} /\ subs[v][c].last <= now
    BY <1>8 DEF Same, MailInv, TypeInv, TypeOK, TimeOK
  <2>6. S1[c].last <= now /\ (S1[c] # S[x][c] => S1[c] \in RegisterInfo /\ Expired(S1[c]))
    <3>1. CASE written[x] = 0 /\ MatchingFilters(F, c, m.src, x) # {}
      <4>1. WildcardPeriod(F, c, m.src, x) \in Periods
        BY <3>1, WildcardPeriodType
      <4>2. S1[c] = NewSubscriber(WildcardPeriod(F, c, m.src, x))
        BY <3>1 DEF SubscribersAtWrite
      <4>3. S1[c] \in RegisterInfo /\ S1[c].period \in Periods /\ S1[c].last = 0
        BY <4>1, <4>2 DEF NewSubscriber, RegisterInfo
      <4>4. S1[c].period \in Nat /\ S1[c].period <= StartTime /\ StartTime <= now /\ StartTime \in Nat
        BY <4>3, TimeAssumption, ClockAssumption DEF MailInv, TimeOK
      <4> QED BY <2>1, <4>3, <4>4 DEF Expired
    <3>2. CASE ~(written[x] = 0 /\ MatchingFilters(F, c, m.src, x) # {})
      BY <1>1, <2>5, <3>2 DEF SubscribersAtWrite
    <3> QED BY <3>1, <3>2
  <2>7. \A v \in Vars : subs'[v][c].last <= now
    <3>1. R[c].last <= now
      BY <2>1, <2>6 DEF SetLastTimeSent
    <3> QED BY <1>5, <2>5, <3>1
  <2>8. \A v \in Vars : seen'[c][v] <= val'[v]
    BY <1>1, <1>3, <2>1, <2>4
  <2>9. \A i \in DOMAIN b : /\ b[i].var \in exists'
                            /\ b[i].type = type'[b[i].var]
                            /\ b[i].src \in writers'[b[i].var]
                            /\ b[i].val \in 1 .. val'[b[i].var]
    <3> SUFFICES ASSUME NEW i \in DOMAIN b
                 PROVE  /\ b[i].var \in exists'
                        /\ b[i].type = type'[b[i].var]
                        /\ b[i].src \in writers'[b[i].var]
                        /\ b[i].val \in 1 .. val'[b[i].var]
      OBVIOUS
    <3>1. b[i].var \in Vars
      BY <2>2 DEF Msg
    <3>2. CASE b[i].var # x
      BY <1>2, <1>3, <2>2, <3>1, <3>2
    <3>3. CASE b[i].var = x
      <4>1. written[x] # 0
        BY <1>1, <2>2, <2>4, <3>3
      <4>2. Accepts(m) => m.type = type[x]
        BY <4>1 DEF Accepts
      <4> QED BY <1>1, <1>2, <1>3, <2>2, <2>4, <3>3, <4>2
    <3> QED BY <3>2, <3>3
  <2>10. CASE c \notin D
    <3>1. held'[c] = b
      BY <1>6, <2>1, <2>10
    <3>2. ASSUME NEW v \in Vars, subs'[v][c] # NoSub, written'[v] # 0, NewestIn(b, v, seen[c][v]) # val'[v]
          PROVE  wtime'[v] - subs'[v][c].last \in 0 .. subs'[v][c].period - 1
      <4>1. CASE v # x \/ ~Accepts(m)
        <5>1. subs'[v][c] = subs[v][c]
          <6>1. CASE v # x
            BY <1>5, <2>5, <6>1
          <6>2. CASE v = x /\ ~Accepts(m)
            <7>1. R[c] = S1[c]
              BY <2>10
            <7>2. S1[c] = S[x][c]
              BY <1>3, <6>2 DEF SubscribersAtWrite
            <7> QED BY <1>5, <2>5, <6>2, <7>1, <7>2
          <6> QED BY <4>1, <6>1, <6>2
        <5>2. written'[v] = written[v] /\ val'[v] = val[v] /\ wtime'[v] = wtime[v]
          BY <1>3, <4>1
        <5> QED BY <3>2, <5>1, <5>2 DEF MailInv, StaleOnlyWhenThrottled, Subscribed, Newest
      <4>2. CASE v = x /\ Accepts(m)
        <5>1. subs'[v][c] = S1[c]
          BY <1>5, <2>10, <4>2
        <5>2. S1[c] \in RegisterInfo /\ ~Expired(S1[c])
          BY <1>4, <2>10, <3>2, <4>2, <5>1 DEF Due
        <5>3. S1[c].period \in Nat /\ S1[c].last \in Nat
          BY <5>2, TimeAssumption DEF RegisterInfo
        <5>4. now - S1[c].last < S1[c].period /\ S1[c].last <= now
          BY <2>1, <2>6, <5>2, <5>3 DEF Expired
        <5>5. wtime'[v] = now
          BY <1>3, <4>2
        <5> QED BY <2>1, <5>1, <5>3, <5>4, <5>5
      <4> QED BY <4>1, <4>2
    <3> QED BY <2>1, <2>3, <2>7, <2>8, <2>9, <3>1, <3>2
  <2>11. CASE c \in D
    <3> DEFINE a == Append(b, m)
    <3>1. held'[c] = a /\ Accepts(m)
      BY <1>6, <2>1, <2>11
    <3>2. /\ DOMAIN a = 1 .. Len(b) + 1
          /\ DOMAIN b = 1 .. Len(b)
          /\ Len(b) \in Nat
          /\ \A i \in DOMAIN b : a[i] = b[i]
          /\ a[Len(b) + 1] = m
      BY <2>1
    <3>3. \A v \in Vars : NewestIn(a, v, seen[c][v]) = IF m.var = v THEN m.val ELSE NewestIn(b, v, seen[c][v])
      BY <2>1, NewestInAppend
    <3> HIDE DEF a
    <3>4. /\ m.var \in exists'
          /\ m.type = type'[m.var]
          /\ m.src \in writers'[m.var]
          /\ m.val \in 1 .. val'[m.var]
      BY <1>1, <1>2, <1>3, <3>1
    <3>5. \A i \in DOMAIN a : /\ a[i].var \in exists'
                              /\ a[i].type = type'[a[i].var]
                              /\ a[i].src \in writers'[a[i].var]
                              /\ a[i].val \in 1 .. val'[a[i].var]
      BY <2>9, <3>2, <3>4
    <3>6. ASSUME NEW i \in DOMAIN a
          PROVE  /\ seen[c][a[i].var] <= a[i].val
                 /\ \A j \in DOMAIN a : i < j /\ a[i].var = a[j].var => a[i].val <= a[j].val
      <4>1. CASE i \in DOMAIN b
        <5>1. seen[c][a[i].var] <= a[i].val
          BY <2>3, <3>2, <4>1
        <5>2. ASSUME NEW j \in DOMAIN a, i < j, a[i].var = a[j].var PROVE a[i].val <= a[j].val
          <6>1. CASE j \in DOMAIN b
            BY <2>3, <3>2, <4>1, <5>2, <6>1
          <6>2. CASE j = Len(b) + 1
            <7>1. b[i].var = x /\ b[i].val <= val[x] /\ b[i].val \in Int
              BY <2>2, <3>2, <4>1, <5>2, <6>2
            <7> QED BY <1>1, <3>2, <4>1, <6>2, <7>1
          <6> QED BY <3>2, <6>1, <6>2
        <5> QED BY <5>1, <5>2
      <4>2. CASE i = Len(b) + 1
        BY <1>1, <2>4, <3>2, <4>2
      <4> QED BY <3>2, <4>1, <4>2
    <3>7. ASSUME NEW v \in Vars, subs'[v][c] # NoSub, written'[v] # 0, NewestIn(a, v, seen[c][v]) # val'[v]
          PROVE  wtime'[v] - subs'[v][c].last \in 0 .. subs'[v][c].period - 1
      <4>1. v # x
        BY <1>3, <3>1, <3>3, <3>7
      <4>2. subs'[v][c] = subs[v][c] /\ written'[v] = written[v] /\ val'[v] = val[v] /\ wtime'[v] = wtime[v]
        BY <1>3, <1>5, <2>5, <4>1
      <4>3. Newest(c, v) # val[v]
        BY <3>3, <3>7, <4>1, <4>2 DEF Newest
      <4> QED BY <3>7, <4>2, <4>3 DEF MailInv, StaleOnlyWhenThrottled, Subscribed
    <3> QED BY <2>1, <2>7, <2>8, <3>1, <3>5, <3>6, <3>7
  <2> QED BY <2>10, <2>11
<1> QED BY <1>7, <1>8

\* An action that is a call of OnNotify keeps the invariant of the mail.
LEMMA NotifyMailInv ==
    ASSUME MailInv, TypeInv', NEW STATE m, m \in Msg, m.val = written[m.var] + 1,
           NEW STATE S, S \in SubsType, NEW STATE F, F \in FiltersType, NEW STATE H, H \in BoxesType,
           Notify(m, S, F, H), now' = now,
           \A c \in Clients : \/ Same(c, S, H)
                              \/ Nothing(c, S, F, H) /\ seen'[c] = [v \in Vars |-> 0],
           \A c \in Clients : c \notin connected' => Nothing(c, S, F, H)
    PROVE  MailInv'
<1>1. NothingForTheDeparted'
  <2>1. ASSUME NEW c \in Clients \ connected'
        PROVE  /\ \A v \in Vars : subs'[v][c] = NoSub
               /\ \A f \in FilterIds : filters'[c][f] = -1
               /\ held'[c] = <<>>
    BY NotifyNothing DEF MailInv
  <2> QED BY <2>1 DEF NothingForTheDeparted, Subscribed
<1>2. ASSUME NEW c \in Clients
      PROVE  /\ \A i \in DOMAIN held'[c] :
                  /\ held'[c][i].var \in exists'
                  /\ held'[c][i].type = type'[held'[c][i].var]
                  /\ held'[c][i].src \in writers'[held'[c][i].var]
                  /\ held'[c][i].val \in 1 .. val'[held'[c][i].var]
             /\ \A i \in DOMAIN held'[c] :
                  /\ seen'[c][held'[c][i].var] <= held'[c][i].val
                  /\ \A j \in DOMAIN held'[c] :
                         i < j /\ held'[c][i].var = held'[c][j].var => held'[c][i].val <= held'[c][j].val
             /\ \A v \in Vars : seen'[c][v] <= val'[v]
             /\ \A v \in Vars : subs'[v][c].last <= now
             /\ \A v \in Vars :
                  (subs'[v][c] # NoSub /\ written'[v] # 0 /\ NewestIn(held'[c], v, seen'[c][v]) # val'[v])
                      => wtime'[v] - subs'[v][c].last \in 0 .. subs'[v][c].period - 1
  BY NotifySame
<1>3. MailIsGenuine'
  BY <1>2 DEF MailIsGenuine
<1>4. MailInWriteOrder'
  BY <1>2 DEF MailInWriteOrder
<1>5. SeenOK'
  BY <1>2 DEF SeenOK
<1>6. TimeOK'
  <2>1. \A v \in Vars : wtime'[v] <= now
    <3>1. CASE Accepts(m)
      <4>1. Store(m)
        BY <3>1 DEF Notify
      <4> QED BY <4>1 DEF Store, MailInv, TypeInv, TypeOK, TimeOK, Msg
    <3>2. CASE ~Accepts(m)
      <4>1. UNCHANGED varState
        BY <3>2 DEF Notify
      <4> QED BY <4>1 DEF varState, MailInv, TimeOK
    <3> QED BY <3>1, <3>2
  <2> QED BY <1>2, <2>1 DEF MailInv, TimeOK
<1>7. StaleOnlyWhenThrottled'
  BY <1>2 DEF StaleOnlyWhenThrottled, Subscribed, Newest
<1> QED BY <1>1, <1>3, <1>4, <1>5, <1>6, <1>7 DEF MailInv

\* Delivering a box keeps what is newest for its owner, and empties the box.
LEMMA DeliverMailInv ==
    ASSUME MailInv, TypeInv', NEW STATE c, c \in Clients, Deliver(c),
           UNCHANGED <<exists, varState, subs, filters, connected, now>>
    PROVE  MailInv'
<1>1. /\ held' = [held EXCEPT ![c] = <<>>]
      /\ seen' = [seen EXCEPT ![c] = [v \in Vars |-> Newest(c, v)]]
  BY DEF Deliver
<1>2. held \in [Clients -> Seq(Msg)] /\ seen \in [Clients -> [Vars -> Nat]]
  BY DEF MailInv, TypeInv, TypeOK
<1>3. /\ held'[c] = <<>>
      /\ \A v \in Vars : seen'[c][v] = Newest(c, v)
      /\ \A k \in Clients \ {c} : held'[k] = held[k] /\ seen'[k] = seen[k]
  BY <1>1, <1>2
<1> HIDE DEF Deliver
<1>4. NothingForTheDeparted'
  BY <1>3 DEF MailInv, NothingForTheDeparted, Subscribed
<1>5. MailIsGenuine'
  <2>1. ASSUME NEW k \in Clients, NEW i \in DOMAIN held'[k] PROVE k # c
    BY <1>3
  <2> QED BY <1>3, <2>1 DEF MailInv, MailIsGenuine, varState
<1>6. MailInWriteOrder'
  <2>1. ASSUME NEW k \in Clients, NEW i \in DOMAIN held'[k] PROVE k # c
    BY <1>3
  <2> QED BY <1>3, <2>1 DEF MailInv, MailInWriteOrder
<1>7. SeenOK'
  <2>1. ASSUME NEW v \in Vars PROVE Newest(c, v) <= val[v]
    <3>1. CASE \E i \in DOMAIN held[c] : held[c][i].var = v
      <4> DEFINE k == LastAbout(held[c], v)
      <4>1. k \in DOMAIN held[c] /\ held[c][k].var = v
        BY <1>2, <3>1, LastAboutExists
      <4>2. held[c][k].val \in 1 .. val[v]
        BY <4>1 DEF MailInv, MailIsGenuine
      <4>3. val[v] \in Nat
        BY DEF MailInv, TypeInv, TypeOK
      <4> QED BY <3>1, <4>2, <4>3 DEF Newest, NewestIn
    <3>2. CASE ~\E i \in DOMAIN held[c] : held[c][i].var = v
      BY <3>2 DEF Newest, NewestIn, MailInv, SeenOK
    <3> QED BY <3>1, <3>2
  <2> QED BY <1>3, <2>1 DEF MailInv, SeenOK, varState
<1>8. TimeOK'
  BY DEF MailInv, TimeOK, varState
<1>9. StaleOnlyWhenThrottled'
  <2>1. ASSUME NEW k \in Clients, NEW v \in Vars PROVE NewestIn(held'[k], v, seen'[k][v]) = Newest(k, v)
    <3>1. CASE k = c
      BY <1>3, <3>1 DEF NewestIn
    <3>2. CASE k # c
      BY <1>3, <3>2 DEF Newest
    <3> QED BY <3>1, <3>2
  <2>2. ASSUME NEW k \in Clients, NEW v \in Vars PROVE Newest(k, v)' = Newest(k, v)
    BY <2>1 DEF Newest
  <2> QED BY <2>2 DEF MailInv, StaleOnlyWhenThrottled, Subscribed, varState
<1> QED BY <1>4, <1>5, <1>6, <1>7, <1>8, <1>9 DEF MailInv

\* A client that registers: its subscriptions change, and mail with the current values of the
\* changed ones that have been written is put at the end of its box.
LEMMA RegisterMailInv ==
    ASSUME MailInv, TypeInv', cur \in connected, NEW STATE t, t \in Seq(Msg), NEW STATE W, W \in SUBSET Vars,
           exists \subseteq exists',
           UNCHANGED <<varState, connected, seen, now>>,
           held' = [held EXCEPT ![cur] = @ \o t],
           \A k \in Clients \ {cur} : filters'[k] = filters[k],
           \A v \in Vars : \A k \in Clients : (k # cur \/ v \notin W) => subs'[v][k] = subs[v][k],
           \A v \in W : subs'[v][cur].last <= now,
           \A i \in DOMAIN t : \E v \in W : t[i] = Var2Msg(v) /\ written[v] # 0,
           \A v \in W : written[v] # 0 => \E i \in DOMAIN t : t[i] = Var2Msg(v)
    PROVE  MailInv'
<1> DEFINE b == held[cur]
           a == b \o t
<1>1. cur \in Clients /\ held \in [Clients -> Seq(Msg)] /\ seen \in [Clients -> [Vars -> Nat]]
  BY DEF MailInv, TypeInv, TypeOK
<1>2. held'[cur] = a /\ \A k \in Clients \ {cur} : held'[k] = held[k]
  BY <1>1
<1>3. /\ a \in Seq(Msg)
      /\ DOMAIN a = 1 .. Len(b) + Len(t)
      /\ DOMAIN b = 1 .. Len(b)
      /\ DOMAIN t = 1 .. Len(t)
      /\ Len(b) \in Nat
      /\ Len(t) \in Nat
      /\ \A i \in DOMAIN b : a[i] = b[i]
      /\ \A i \in DOMAIN a : i \notin DOMAIN b => i - Len(b) \in DOMAIN t /\ a[i] = t[i - Len(b)]
  BY <1>1
<1>4. \A v \in Vars : NewestIn(a, v, seen[cur][v]) =
          IF \E i \in DOMAIN t : t[i].var = v THEN t[LastAbout(t, v)].val ELSE NewestIn(b, v, seen[cur][v])
  BY <1>1, NewestInConcat, SMTT(20)
<1> HIDE DEF a
<1>5. ASSUME NEW i \in DOMAIN t
      PROVE  /\ t[i].var \in Vars
             /\ t[i].var \in exists'
             /\ t[i].type = type[t[i].var]
             /\ t[i].src \in writers[t[i].var]
             /\ t[i].val = val[t[i].var]
             /\ t[i].val \in 1 .. val[t[i].var]
  <2>1. PICK v \in W : t[i] = Var2Msg(v) /\ written[v] # 0
    OBVIOUS
  <2>2. val[v] \in Nat /\ val[v] # 0 /\ v \in exists /\ who[v] \in writers[v]
    BY <2>1 DEF MailInv, TypeInv, TypeOK, WrittenOK
  <2> QED BY <2>1, <2>2 DEF Var2Msg
<1>6. NothingForTheDeparted'
  BY <1>2 DEF MailInv, NothingForTheDeparted, Subscribed
<1>7. \A i \in DOMAIN b : /\ b[i].var \in exists
                          /\ b[i].type = type[b[i].var]
                          /\ b[i].src \in writers[b[i].var]
                          /\ b[i].val \in 1 .. val[b[i].var]
  BY <1>1 DEF MailInv, MailIsGenuine
<1>8. MailIsGenuine'
  <2>1. ASSUME NEW i \in DOMAIN a
        PROVE  /\ a[i].var \in exists'
               /\ a[i].type = type[a[i].var]
               /\ a[i].src \in writers[a[i].var]
               /\ a[i].val \in 1 .. val[a[i].var]
    <3>1. CASE i \in DOMAIN b
      BY <1>3, <1>7, <3>1
    <3>2. CASE i \notin DOMAIN b
      BY <1>3, <1>5, <3>2, SMTT(20)
    <3> QED BY <3>1, <3>2
  <2>2. ASSUME NEW k \in Clients \ {cur}, NEW i \in DOMAIN held[k]
        PROVE  /\ held[k][i].var \in exists'
               /\ held[k][i].type = type[held[k][i].var]
               /\ held[k][i].src \in writers[held[k][i].var]
               /\ held[k][i].val \in 1 .. val[held[k][i].var]
    BY DEF MailInv, MailIsGenuine
  <2> QED BY <1>2, <2>1, <2>2 DEF MailIsGenuine, varState
<1>9. MailInWriteOrder'
  <2>1. ASSUME NEW i \in DOMAIN a
        PROVE  /\ seen[cur][a[i].var] <= a[i].val
               /\ \A j \in DOMAIN a : i < j /\ a[i].var = a[j].var => a[i].val <= a[j].val
    <3>1. CASE i \in DOMAIN b
      <4>1. seen[cur][a[i].var] <= a[i].val
        BY <1>1, <1>3, <3>1 DEF MailInv, MailInWriteOrder
      <4>2. ASSUME NEW j \in DOMAIN a, i < j, a[i].var = a[j].var PROVE a[i].val <= a[j].val
        <5>1. CASE j \in DOMAIN b
          <6>1. b[i].val <= b[j].val
            BY <1>1, <1>3, <3>1, <4>2, <5>1 DEF MailInv, MailInWriteOrder
          <6> QED BY <1>3, <3>1, <5>1, <6>1
        <5>2. CASE j \notin DOMAIN b
          <6>1. a[j].val = val[a[j].var]
            BY <1>3, <1>5, <5>2, SMTT(20)
          <6>2. a[i].val \in 1 .. val[a[i].var]
            BY <1>3, <1>7, <3>1
          <6> QED BY <4>2, <6>1, <6>2
        <5> QED BY <5>1, <5>2
      <4> QED BY <4>1, <4>2
    <3>2. CASE i \notin DOMAIN b
      <4>1. a[i].var \in Vars /\ a[i].val = val[a[i].var]
        BY <1>3, <1>5, <3>2, SMTT(20)
      <4>2. ASSUME NEW j \in DOMAIN a, i < j, a[i].var = a[j].var PROVE a[i].val <= a[j].val
        <5>1. j \notin DOMAIN b
          BY <1>3, <3>2, <4>2
        <5>2. a[j].val = val[a[j].var]
          BY <1>3, <1>5, <5>1, SMTT(20)
        <5>3. val[a[i].var] \in Nat
          BY <4>1 DEF MailInv, TypeInv, TypeOK
        <5> QED BY <4>1, <4>2, <5>2, <5>3
      <4> QED BY <1>1, <4>1, <4>2 DEF MailInv, SeenOK
    <3> QED BY <3>1, <3>2
  <2>2. ASSUME NEW k \in Clients, NEW i \in DOMAIN held'[k]
        PROVE  /\ seen[k][held'[k][i].var] <= held'[k][i].val
               /\ \A j \in DOMAIN held'[k] :
                      i < j /\ held'[k][i].var = held'[k][j].var => held'[k][i].val <= held'[k][j].val
    <3>1. CASE k = cur
      <4>1. held'[k] = a /\ i \in DOMAIN a
        BY <1>2, <3>1
      <4> QED BY <2>1, <3>1, <4>1, ZenonT(30)
    <3>2. CASE k # cur
      BY <1>2, <3>2 DEF MailInv, MailInWriteOrder
    <3> QED BY <3>1, <3>2
  <2> QED BY <2>2 DEF MailInWriteOrder
<1>10. SeenOK'
  BY DEF MailInv, SeenOK, varState
<1>11. TimeOK'
  BY DEF MailInv, TimeOK, varState
<1>12. StaleOnlyWhenThrottled'
  <2> SUFFICES ASSUME NEW k \in Clients, NEW v \in Vars, subs'[v][k] # NoSub, written[v] # 0,
                      NewestIn(held'[k], v, seen[k][v]) # val[v]
               PROVE  wtime[v] - subs'[v][k].last \in 0 .. subs'[v][k].period - 1
    BY DEF StaleOnlyWhenThrottled, Subscribed, Newest, varState
  <2>1. CASE k # cur
    BY <1>2, <2>1 DEF MailInv, StaleOnlyWhenThrottled, Subscribed, Newest
  <2>2. CASE k = cur /\ \E i \in DOMAIN t : t[i].var = v
    <3>1. LastAbout(t, v) \in DOMAIN t /\ t[LastAbout(t, v)].var = v
      BY <2>2, LastAboutExists
    <3>2. t[LastAbout(t, v)].val = val[v]
      BY <1>5, <3>1
    <3> QED BY <1>2, <1>4, <2>2, <3>2
  <2>3. CASE k = cur /\ ~\E i \in DOMAIN t : t[i].var = v
    <3>1. v \notin W
      BY <2>3 DEF Var2Msg
    <3>2. subs'[v][cur] = subs[v][cur] /\ NewestIn(b, v, seen[cur][v]) # val[v]
      BY <1>1, <1>2, <1>4, <2>3, <3>1, ZenonT(30)
    <3> QED BY <1>1, <2>3, <3>2 DEF MailInv, StaleOnlyWhenThrottled, Subscribed, Newest
  <2> QED BY <2>1, <2>2, <2>3
<1> QED BY <1>6, <1>8, <1>9, <1>10, <1>11, <1>12 DEF MailInv

\* The constructor establishes the invariant about mail.
LEMMA MailInvInit == Init => MailInv
<1> SUFFICES ASSUME Init PROVE MailInv
  OBVIOUS
<1>1. TypeInv
  BY TypeInvInit
<1>2. NothingForTheDeparted
  BY DEF Init, NothingForTheDeparted, Subscribed
<1>3. MailIsGenuine /\ MailInWriteOrder
  BY DEF Init, MailIsGenuine, MailInWriteOrder
<1>4. SeenOK /\ StaleOnlyWhenThrottled
  BY DEF Init, SeenOK, StaleOnlyWhenThrottled
<1>5. TimeOK
  BY TimeAssumption DEF Init, TimeOK, NoSub
<1> QED BY <1>1, <1>2, <1>3, <1>4, <1>5 DEF MailInv

\* Steps that touch neither the mail nor the variables.
LEMMA IdleMailInv ==
    ASSUME MailInv, TypeInv', UNCHANGED <<exists, varState, subs, filters, held, connected, now, seen>>
    PROVE  MailInv'
<1>1. NothingForTheDeparted'
  BY DEF MailInv, NothingForTheDeparted, Subscribed
<1>2. MailIsGenuine' /\ MailInWriteOrder'
  BY DEF MailInv, MailIsGenuine, MailInWriteOrder, varState
<1>3. SeenOK' /\ TimeOK'
  BY DEF MailInv, SeenOK, TimeOK, varState
<1>4. StaleOnlyWhenThrottled'
  BY DEF MailInv, StaleOnlyWhenThrottled, Subscribed, Newest, varState
<1> QED BY <1>1, <1>2, <1>3, <1>4 DEF MailInv

\* Steps that only take subscriptions of the current client away.
LEMMA UnRegisterMailInv ==
    ASSUME MailInv, TypeInv', UNCHANGED <<exists, varState, filters, held, connected, now, seen>>,
           \A v \in Vars, k \in Clients : subs'[v][k] \in {subs[v][k], NoSub}
    PROVE  MailInv'
<1>1. NothingForTheDeparted'
  BY DEF MailInv, NothingForTheDeparted, Subscribed
<1>2. MailIsGenuine' /\ MailInWriteOrder'
  BY DEF MailInv, MailIsGenuine, MailInWriteOrder, varState
<1>3. SeenOK'
  BY DEF MailInv, SeenOK, varState
<1>4. TimeOK'
  <2>1. NoSub.last <= now
    BY DEF NoSub, MailInv, TypeInv, TypeOK
  <2> QED BY <2>1 DEF MailInv, TimeOK, varState
<1>5. StaleOnlyWhenThrottled'
  BY DEF MailInv, StaleOnlyWhenThrottled, Subscribed, Newest, varState
<1> QED BY <1>1, <1>2, <1>3, <1>4, <1>5 DEF MailInv

\* Every handler preserves it: one step per action of Next.
LEMMA MailInvStep == MailInv /\ [Next]_vars => MailInv'
<1> SUFFICES ASSUME MailInv, [Next]_vars PROVE MailInv'
  OBVIOUS
<1>0. TypeInv /\ TypeInv'
  BY TypeInvStep DEF MailInv
<1>a. subs \in SubsType /\ filters \in FiltersType /\ held \in BoxesType
  BY <1>0 DEF TypeInv, TypeOK, SubsType, FiltersType, BoxesType
<1>b. ASSUME NEW STATE m, m \in Msg, m.val = written[m.var] + 1, Notify(m, subs, filters, held),
             UNCHANGED <<seen, now>>, connected \subseteq connected'
      PROVE  MailInv'
  <2>1. \A c \in Clients : Same(c, subs, held)
    BY <1>b DEF Same
  <2>2. \A c \in Clients : c \notin connected' => Nothing(c, subs, filters, held)
    BY <1>b DEF MailInv, NothingForTheDeparted, Subscribed, Nothing
  <2> QED BY <1>0, <1>a, <1>b, <2>1, <2>2, NotifyMailInv
<1>1. ASSUME NEW c \in Clients, BeginPkt(c) PROVE MailInv'
  BY <1>0, <1>1, IdleMailInv DEF BeginPkt, history
<1>2. ASSUME NEW v \in Vars, NEW src \in Sources, NEW t \in Types, OnNotify(v, src, t) PROVE MailInv'
  <2> DEFINE m == Notification(v, src, t)
  <2>1. m \in Msg /\ m.val = written[m.var] + 1
    BY <1>0, NotificationType DEF TypeInv, Notification
  <2> HIDE DEF m
  <2>2. Notify(m, subs, filters, held) /\ UNCHANGED <<connected, seen, now>>
    BY <1>2 DEF OnNotify, m
  <2> QED BY <1>b, <2>1, <2>2
<1>3. ASSUME NEW v \in Vars, NEW p \in Periods, OnRegister(v, p) PROVE MailInv'
  <2> DEFINE W == {v}
  <2>1. cur \in connected /\ cur \in Clients
    BY <1>0, <1>3 DEF OnRegister, InPkt, TypeInv, PktOK, TypeOK
  <2>2. /\ exists \subseteq exists'
        /\ UNCHANGED <<varState, connected, seen, now>>
        /\ \A k \in Clients \ {cur} : filters'[k] = filters[k]
    BY <1>3 DEF OnRegister
  <2>3. /\ \A w \in Vars : \A k \in Clients : (k # cur \/ w \notin W) => subs'[w][k] = subs[w][k]
        /\ subs'[v][cur] = Registration(v, p)
    BY <1>a, <1>3, <2>1 DEF OnRegister, SubsType
  <2>4. \A w \in W : subs'[w][cur].last <= now
    BY <1>0, <2>3 DEF Registration, TypeInv, TypeOK
  <2>a. W \in SUBSET Vars /\ \A w \in W : w = v
    OBVIOUS
  <2>b. v \in W
    OBVIOUS
  <2> HIDE DEF W
  <2>5. CASE v \in exists /\ written[v] # 0
    <3> DEFINE t == <<Var2Msg(v)>>
    <3>1. who[v] \in Sources /\ type[v] \in Types
      BY <1>0, <2>5 DEF TypeInv, TypeOK, WrittenOK
    <3>2. Var2Msg(v) \in Msg
      BY <1>0, <3>1, Var2MsgType DEF TypeInv
    <3>3. t \in Seq(Msg) /\ DOMAIN t = {1} /\ t[1] = Var2Msg(v)
      BY <3>2
    <3>4. Append(held[cur], Var2Msg(v)) = held[cur] \o t
      BY <1>a, <2>1, <3>2 DEF BoxesType
    <3>5. held' = [held EXCEPT ![cur] = @ \o t]
      BY <1>3, <2>5, <3>4 DEF OnRegister, HasValue
    <3> HIDE DEF t
    <3>6. /\ \A i \in DOMAIN t : \E w \in W : t[i] = Var2Msg(w) /\ written[w] # 0
          /\ \A w \in W : written[w] # 0 => \E i \in DOMAIN t : t[i] = Var2Msg(w)
      BY <2>5, <2>a, <2>b, <3>3
    <3> QED BY <1>0, <2>1, <2>a, <2>2, <2>3, <2>4, <3>3, <3>5, <3>6, RegisterMailInv, ZenonT(30)
  <2>6. CASE ~(v \in exists /\ written[v] # 0)
    <3> DEFINE t == << >>
    <3>1. t \in Seq(Msg) /\ DOMAIN t = {} /\ \A s \in Seq(Msg) : s \o t = s
      OBVIOUS
    <3>2. held' = [held EXCEPT ![cur] = @ \o t]
      <4>1. held' = held
        BY <1>3, <2>6 DEF OnRegister, HasValue
      <4>2. held[cur] \o t = held[cur]
        BY <1>a, <2>1, <3>1 DEF BoxesType
      <4> QED BY <1>a, <4>1, <4>2 DEF BoxesType
    <3>3. written[v] = 0
      BY <1>0, <2>6 DEF TypeInv, WrittenOK
    <3> HIDE DEF t
    <3>4. /\ \A i \in DOMAIN t : \E w \in W : t[i] = Var2Msg(w) /\ written[w] # 0
          /\ \A w \in W : written[w] # 0 => \E i \in DOMAIN t : t[i] = Var2Msg(w)
      BY <2>a, <3>1, <3>3
    <3> QED BY <1>0, <2>1, <2>a, <2>2, <2>3, <2>4, <3>1, <3>2, <3>4, RegisterMailInv
  <2> QED BY <2>5, <2>6
<1>4. ASSUME NEW f \in FilterIds, NEW p \in Periods, OnWildcardRegister(f, p) PROVE MailInv'
  <2>1. cur \in connected /\ cur \in Clients
    BY <1>0, <1>4 DEF OnWildcardRegister, InPkt, TypeInv, PktOK, TypeOK
  <2>2. /\ exists \subseteq exists'
        /\ UNCHANGED <<varState, connected, seen, now>>
        /\ \A k \in Clients \ {cur} : filters'[k] = filters[k]
    BY <1>4, <1>a, <2>1 DEF OnWildcardRegister, FiltersType
  <2>3. Matched(f) \in SUBSET Vars
    BY <1>0 DEF Matched, TypeInv, TypeOK
  <2>4. /\ \A w \in Vars : \A k \in Clients : (k # cur \/ w \notin Matched(f)) => subs'[w][k] = subs[w][k]
        /\ \A w \in Matched(f) : subs'[w][cur] = Registration(w, p)
    BY <1>a, <1>4, <2>1, <2>3 DEF OnWildcardRegister, SubsType
  <2>5. \A w \in Matched(f) : subs'[w][cur].last <= now
    <3>1. ASSUME NEW w PROVE Registration(w, p).last <= now
      BY <1>0 DEF Registration, TypeInv, TypeOK
    <3> QED BY <2>4, <3>1
  <2>6. PICK o \in Orders({v \in Matched(f) : written[v] # 0}) :
            held' = [held EXCEPT ![cur] = @ \o [i \in DOMAIN o |-> Var2Msg(o[i])]]
    BY <1>4 DEF OnWildcardRegister
  <2> DEFINE t == [i \in DOMAIN o |-> Var2Msg(o[i])]
  <2>7. /\ t \in Seq(Msg)
        /\ \A i \in DOMAIN o : o[i] \in Matched(f) /\ written[o[i]] # 0
        /\ \A v \in Matched(f) : written[v] # 0 => \E i \in DOMAIN o : o[i] = v
    BY <1>0, WildcardMail
  <2>8. DOMAIN t = DOMAIN o /\ \A i \in DOMAIN t : t[i] = Var2Msg(o[i])
    OBVIOUS
  <2>9. held' = [held EXCEPT ![cur] = @ \o t]
    BY <2>6
  <2> HIDE DEF t
  <2>10. /\ \A i \in DOMAIN t : \E w \in Matched(f) : t[i] = Var2Msg(w) /\ written[w] # 0
         /\ \A w \in Matched(f) : written[w] # 0 => \E i \in DOMAIN t : t[i] = Var2Msg(w)
    BY <2>7, <2>8
  <2> DEFINE W == Matched(f)
  <2>11. /\ W \in SUBSET Vars
         /\ \A v \in Vars : \A k \in Clients : (k # cur \/ v \notin W) => subs'[v][k] = subs[v][k]
         /\ \A v \in W : subs'[v][cur].last <= now
         /\ \A i \in DOMAIN t : \E v \in W : t[i] = Var2Msg(v) /\ written[v] # 0
         /\ \A v \in W : written[v] # 0 => \E i \in DOMAIN t : t[i] = Var2Msg(v)
    BY <2>3, <2>4, <2>5, <2>10
  <2>12. t \in Seq(Msg)
    BY <2>7
  <2> HIDE DEF W
  <2> QED BY <1>0, <2>1, <2>2, <2>9, <2>11, <2>12, RegisterMailInv
<1>5. ASSUME NEW v \in Vars, OnUnRegister(v) PROVE MailInv'
  <2>1. cur \in Clients
    BY <1>0, <1>5 DEF OnUnRegister, InPkt, TypeInv, PktOK, TypeOK
  <2>2. \A w \in Vars, k \in Clients : subs'[w][k] \in {subs[w][k], NoSub}
    BY <1>a, <1>5, <2>1 DEF OnUnRegister, SubsType
  <2> QED BY <1>0, <1>5, <2>2, UnRegisterMailInv DEF OnUnRegister
<1>6. ASSUME NEW f \in FilterIds, OnWildcardUnRegister(f) PROVE MailInv'
  <2>1. cur \in Clients
    BY <1>0, <1>6 DEF OnWildcardUnRegister, InPkt, TypeInv, PktOK, TypeOK
  <2>2. \A w \in Vars, k \in Clients : subs'[w][k] \in {subs[w][k], NoSub}
    BY <1>a, <1>6, <2>1 DEF OnWildcardUnRegister, SubsType
  <2> QED BY <1>0, <1>6, <2>2, UnRegisterMailInv DEF OnWildcardUnRegister
<1>7. ASSUME OnClearRequested PROVE MailInv'
  <2>1. \A c \in Clients : held'[c] = <<>>
    BY <1>7 DEF OnClearRequested, ClearedBoxes
  <2>2. NothingForTheDeparted'
    BY <1>7, <2>1 DEF OnClearRequested, MailInv, NothingForTheDeparted, Subscribed
  <2>3. MailIsGenuine' /\ MailInWriteOrder'
    BY <2>1 DEF MailIsGenuine, MailInWriteOrder
  <2>4. SeenOK'
    BY <1>7 DEF OnClearRequested, SeenOK
  <2>5. TimeOK'
    BY <1>0, <1>7 DEF OnClearRequested, MailInv, TimeOK, TypeInv, TypeOK
  <2>6. StaleOnlyWhenThrottled'
    BY <1>7 DEF OnClearRequested, StaleOnlyWhenThrottled
  <2> QED BY <1>0, <2>2, <2>3, <2>4, <2>5, <2>6 DEF MailInv
<1>8. ASSUME EndRx PROVE MailInv'
  <2>1. cur \in Clients
    BY <1>0, <1>8 DEF EndRx, TypeInv, PktOK, TypeOK
  <2>2. CASE now - summaryTime > SummaryPeriod
    BY <1>0, <1>8, <2>2, IdleMailInv DEF EndRx
  <2>3. CASE ~(now - summaryTime > SummaryPeriod)
    BY <1>0, <1>8, <2>1, <2>3, DeliverMailInv DEF EndRx
  <2> QED BY <2>2, <2>3
<1>9. ASSUME UpdateSummary PROVE MailInv'
  <2> DEFINE m == OwnNotification(SummaryVars[todo])
  <2>1. SummaryVars[todo] \in OwnVars
    BY <1>0, <1>9, OwnVarsAssumption DEF UpdateSummary, TypeInv, TypeOK, PktOK
  <2>2. m \in Msg /\ m.val = written[m.var] + 1
    BY <1>0, <2>1, OwnNotificationType DEF TypeInv, OwnNotification, Notification
  <2> HIDE DEF m
  <2>3. Notify(m, subs, filters, held) /\ UNCHANGED <<connected, seen, now>>
    BY <1>9 DEF UpdateSummary, m
  <2> QED BY <1>b, <2>2, <2>3
<1>10. ASSUME SkipSummary PROVE MailInv'
  BY <1>0, <1>10, IdleMailInv DEF SkipSummary, history
<1>11. ASSUME EndSummary PROVE MailInv'
  <2>1. cur \in Clients
    BY <1>0, <1>11 DEF EndSummary, TypeInv, PktOK, TypeOK
  <2> QED BY <1>0, <1>11, <2>1, DeliverMailInv DEF EndSummary
<1>12. ASSUME NEW c \in Clients, OnFetchAllMail(c) PROVE MailInv'
  BY <1>0, <1>12, DeliverMailInv DEF OnFetchAllMail
<1>13. ASSUME NEW c \in Clients, OnConnect(c) PROVE MailInv'
  <2> DEFINE m == OwnNotification(EventVar)
  <2>1. m \in Msg /\ m.val = written[m.var] + 1
    BY <1>0, OwnVarsAssumption, OwnNotificationType DEF TypeInv, OwnNotification, Notification
  <2> HIDE DEF m
  <2>2. Notify(m, subs, filters, held) /\ UNCHANGED <<seen, now>> /\ connected' = connected \cup {c}
    BY <1>13 DEF OnConnect, m
  <2> QED BY <1>b, <2>1, <2>2
<1>14. ASSUME NEW c \in Clients, OnDisconnect(c) PROVE MailInv'
  <2> DEFINE m == OwnNotification(EventVar)
             S == RemoveSubscriber(c)
             F == ClearFilters(c)
             H == EraseBox(c)
  <2>1. m \in Msg /\ m.val = written[m.var] + 1
    BY <1>0, OwnVarsAssumption, OwnNotificationType DEF TypeInv, OwnNotification, Notification
  <2>2. S \in SubsType /\ F \in FiltersType /\ H \in BoxesType
    BY <1>a DEF RemoveSubscriber, ClearFilters, EraseBox, SubsType, FiltersType, BoxesType
  <2>3. Nothing(c, S, F, H)
    BY <1>a DEF Nothing, RemoveSubscriber, ClearFilters, EraseBox, SubsType, FiltersType, BoxesType
  <2>4. seen'[c] = [v \in Vars |-> 0] /\ \A k \in Clients \ {c} : seen'[k] = seen[k]
    BY <1>0, <1>14 DEF OnDisconnect, TypeInv, TypeOK
  <2>5. \A k \in Clients \ {c} : Same(k, S, H)
    BY <1>a, <2>4 DEF Same, RemoveSubscriber, EraseBox, SubsType, BoxesType
  <2>6. \A k \in Clients : k \notin connected' => Nothing(k, S, F, H)
    <3>1. ASSUME NEW k \in Clients, k \notin connected, k # c PROVE Nothing(k, S, F, H)
      <4>1. Nothing(k, subs, filters, held)
        BY <3>1 DEF MailInv, NothingForTheDeparted, Subscribed, Nothing
      <4> QED BY <1>a, <3>1, <4>1
              DEF Nothing, RemoveSubscriber, ClearFilters, EraseBox, SubsType, FiltersType, BoxesType
    <3> QED BY <1>14, <2>3, <3>1 DEF OnDisconnect
  <2>7. Notify(m, S, F, H) /\ now' = now
    BY <1>14 DEF OnDisconnect
  <2> HIDE DEF m, S, F, H
  <2>8. \A k \in Clients : \/ Same(k, S, H)
                           \/ Nothing(k, S, F, H) /\ seen'[k] = [v \in Vars |-> 0]
    BY <2>3, <2>4, <2>5
  <2> QED BY <1>0, <2>1, <2>2, <2>6, <2>7, <2>8, NotifyMailInv
<1>15. ASSUME Tick PROVE MailInv'
  <2>1. UNCHANGED <<exists, type, written, val, who, writers, wtime, subs, filters, held, connected, seen>>
    BY <1>15 DEF Tick, varState, history
  <2>2. NothingForTheDeparted'
    BY <2>1 DEF MailInv, NothingForTheDeparted, Subscribed
  <2>3. MailIsGenuine' /\ MailInWriteOrder'
    BY <2>1 DEF MailInv, MailIsGenuine, MailInWriteOrder
  <2>4. SeenOK' /\ StaleOnlyWhenThrottled'
    BY <2>1 DEF MailInv, SeenOK, StaleOnlyWhenThrottled, Subscribed, Newest
  <2>5. TimeOK'
    <3>1. \A v \in Vars, c \in Clients : subs[v][c].last \in Nat
      BY <1>a DEF SubsType, RegisterInfo, NoSub
    <3> QED BY <1>0, <1>15, <2>1, <3>1, TimeAssumption DEF Tick, MailInv, TimeOK, TypeInv, TypeOK
  <2> QED BY <1>0, <2>2, <2>3, <2>4, <2>5 DEF MailInv
<1>16. ASSUME UNCHANGED vars PROVE MailInv'
  BY <1>0, <1>16, IdleMailInv DEF vars, history
<1> QED
  BY <1>1, <1>2, <1>3, <1>4, <1>5, <1>6, <1>7, <1>8, <1>9, <1>10, <1>11, <1>12, <1>13, <1>14, <1>15, <1>16
     DEF Next, ProcessMsg

-------------------------------------------------------------------------------
(* The invariant of the wildcards                                          *)

\* A filter a client asked for and has not unregistered is among those it left.
FiltersKept == \A c \in Clients, f \in FilterIds : wild[c][f] # -1 => filters[c][f] # -1

WildInv ==
    /\ TypeInv
    /\ FiltersKept
    /\ WildcardsCover

\* Client c is subscribed to v, or has unregistered it, if one of its filters covers v.
Covered(c, v) ==
    \A f \in FilterIds :
        ( /\ wild[c][f] # -1
          /\ v \in FilterVar[f]
          /\ written[v] # 0
          /\ writers[v] \subseteq FilterApp[f] )
            => Subscribed(v, c) \/ v \in declined[c]

LEMMA CoverIsCovered == WildcardsCover <=> \A c \in Clients, v \in Vars : Covered(c, v)
BY DEF WildcardsCover, Covered

\* A subscription with an interval is a subscription.
LEMMA RegisterInfoIsSub == \A info \in RegisterInfo : info # NoSub /\ info.period \in Nat
<1>1. \A info \in RegisterInfo : info.period \in Nat
  BY TimeAssumption DEF RegisterInfo
<1> QED BY <1>1 DEF NoSub

\* What a write that finds the tables S and F leaves of the refusals of client c.
DeclinedAfter(c, m, S, F) ==
    IF SubscribersAtWrite(m, S, F)[c] # subs[m.var][c] THEN declined[c] \ {m.var} ELSE declined[c]

\* A write leaves a client covered whose subscriptions and filters it found as they were stored.
LEMMA NotifyCovers ==
    ASSUME TypeInv, NEW STATE m, m \in Msg,
           NEW STATE S, S \in SubsType, NEW STATE F, F \in FiltersType, NEW STATE H,
           Notify(m, S, F, H), NEW c \in Clients, \A v \in Vars : S[v][c] = subs[v][c] /\ Covered(c, v),
           wild'[c] = wild[c], \A f \in FilterIds : wild[c][f] # -1 => F[c][f] # -1,
           declined'[c] = DeclinedAfter(c, m, S, F)
    PROVE  \A v \in Vars : Covered(c, v)'
<1> DEFINE S1 == SubscribersAtWrite(m, S, F)
           D  == IF Accepts(m) THEN Due(S1) ELSE {}
           R  == [k \in Clients |-> IF k \in D THEN SetLastTimeSent(S1[k]) ELSE S1[k]]
<1>1. m.var \in Vars /\ m.src \in Sources
  BY DEF Msg
<1>2. subs' = [S EXCEPT ![m.var] = R] /\ (IF Accepts(m) THEN Store(m) ELSE UNCHANGED varState)
  BY DEF Notify
<1>3. S1 \in [Clients -> RegisterInfo \cup {NoSub}]
  BY SubscribersAtWriteType
<1>4. S1[c] # NoSub => R[c] # NoSub
  <2> SUFFICES ASSUME S1[c] # NoSub PROVE R[c] # NoSub
    OBVIOUS
  <2>1. S1[c] \in RegisterInfo
    BY <1>3
  <2>2. S1[c].period # -1
    BY <2>1, RegisterInfoIsSub
  <2>3. SetLastTimeSent(S1[c]) # NoSub
    BY <2>2 DEF SetLastTimeSent, NoSub
  <2> QED BY <2>3
<1>5. S1[c] = IF written[m.var] = 0 /\ MatchingFilters(F, c, m.src, m.var) # {}
              THEN NewSubscriber(WildcardPeriod(F, c, m.src, m.var))
              ELSE subs[m.var][c]
  BY <1>1 DEF SubscribersAtWrite
<1>6. /\ written[m.var] = 0 => m.src \in writers'[m.var]
      /\ writers[m.var] \subseteq writers'[m.var]
  <2>1. CASE Accepts(m)
    BY <1>1, <1>2, <2>1 DEF Store, TypeInv, TypeOK
  <2>2. CASE ~Accepts(m)
    BY <1>2, <2>2 DEF Accepts, varState
  <2> QED BY <2>1, <2>2
<1>d. declined'[c] = IF S1[c] # subs[m.var][c] THEN declined[c] \ {m.var} ELSE declined[c]
  BY DEF DeclinedAfter
<1> HIDE DEF S1, D, R
<1>7. subs'[m.var][c] = R[c] /\ \A v \in Vars \ {m.var} : subs'[v] = S[v]
  BY <1>1, <1>2 DEF SubsType
<1>8. ASSUME NEW v \in Vars, v # m.var PROVE Covered(c, v)'
  <2>1. written'[v] = written[v] /\ writers'[v] = writers[v]
    <3>1. CASE Accepts(m)
      BY <1>1, <1>2, <1>8, <3>1 DEF Store, TypeInv, TypeOK
    <3>2. CASE ~Accepts(m)
      BY <1>2, <3>2 DEF varState
    <3> QED BY <3>1, <3>2
  <2>2. subs'[v][c] = subs[v][c]
    BY <1>7, <1>8
  <2>3. v \in declined[c] => v \in declined'[c]
    BY <1>d, <1>8
  <2>4. Covered(c, v)
    OBVIOUS
  <2> QED BY <2>1, <2>2, <2>3, <2>4 DEF Covered, Subscribed
<1>9. ASSUME NEW v \in Vars, v = m.var PROVE Covered(c, v)'
  <2>1. CASE S1[c] # NoSub
    BY <1>4, <1>7, <1>9, <2>1 DEF Covered, Subscribed
  <2>2. CASE S1[c] = NoSub /\ written[m.var] = 0
    <3>1. MatchingFilters(F, c, m.src, m.var) = {}
      <4> SUFFICES ASSUME MatchingFilters(F, c, m.src, m.var) # {} PROVE FALSE
        OBVIOUS
      <4>1. WildcardPeriod(F, c, m.src, m.var) \in Nat
        BY <1>1, WildcardPeriodType, TimeAssumption
      <4> QED BY <1>5, <2>2, <4>1 DEF NewSubscriber, NoSub
    <3>2. ASSUME NEW f \in FilterIds, wild[c][f] # -1, v \in FilterVar[f] PROVE m.src \notin FilterApp[f]
      <4>1. F[c][f] \in Periods \cup {-1} /\ F[c][f] # -1
        BY <3>2 DEF FiltersType
      <4>2. F[c][f] >= 0
        BY <4>1, TimeAssumption
      <4> QED BY <1>9, <3>1, <3>2, <4>2 DEF MatchingFilters, Matches
    <3> QED BY <1>6, <1>9, <2>2, <3>2 DEF Covered
  <2>3. CASE S1[c] = NoSub /\ written[m.var] # 0
    <3>1. S1[c] = subs[m.var][c] /\ declined'[c] = declined[c]
      BY <1>5, <1>d, <2>3
    <3>2. Covered(c, v) /\ subs'[v][c] = R[c]
      BY <1>7, <1>9
    <3> QED BY <1>4, <1>6, <1>9, <2>3, <3>1, <3>2 DEF Covered, Subscribed
  <2> QED BY <2>1, <2>2, <2>3
<1> QED BY <1>8, <1>9

\* Handlers that are one call of OnNotify.
LEMMA NotifyWildInv ==
    ASSUME WildInv, TypeInv', NEW STATE m, m \in Msg, Notify(m, subs, filters, held), wild' = wild,
           declined' = Undecline(m.var, SubscribersAtWrite(m, subs, filters))
    PROVE  WildInv'
<1>1. subs \in SubsType /\ filters \in FiltersType
  BY DEF WildInv, TypeInv, TypeOK, SubsType, FiltersType
<1>2. ASSUME NEW c \in Clients PROVE \A v \in Vars : Covered(c, v)'
  <2>1. declined'[c] = DeclinedAfter(c, m, subs, filters)
    BY DEF Undecline, DeclinedAfter
  <2>2. \A v \in Vars : Covered(c, v)
    BY CoverIsCovered DEF WildInv
  <2>3. \A f \in FilterIds : wild[c][f] # -1 => filters[c][f] # -1
    BY DEF WildInv, FiltersKept
  <2>4. TypeInv
    BY DEF WildInv
  <2> QED BY <1>1, <2>1, <2>2, <2>3, <2>4, NotifyCovers
<1>3. WildcardsCover'
  BY <1>2 DEF WildcardsCover, Covered
<1>4. FiltersKept'
  BY DEF WildInv, FiltersKept, Notify
<1> QED BY <1>3, <1>4 DEF WildInv

\* Steps that leave variables, subscriptions and filters alone.
LEMMA IdleWildInv ==
    ASSUME WildInv, TypeInv', UNCHANGED <<written, writers, subs, filters, wild, declined>>
    PROVE  WildInv'
BY DEF WildInv, FiltersKept, WildcardsCover, Subscribed

\* The constructor leaves no filters.
LEMMA WildInvInit == Init => WildInv
BY TypeInvInit DEF Init, WildInv, FiltersKept, WildcardsCover

\* Every handler preserves it.
LEMMA WildInvStep == WildInv /\ [Next]_vars => WildInv'
<1> SUFFICES ASSUME WildInv, [Next]_vars PROVE WildInv'
  OBVIOUS
<1>0. TypeInv /\ TypeInv' /\ TypeOK /\ WrittenOK
  BY TypeInvStep DEF WildInv, TypeInv
<1>a. subs \in SubsType /\ filters \in FiltersType /\ wild \in FiltersType /\ declined \in [Clients -> SUBSET Vars]
  BY <1>0 DEF TypeOK, SubsType, FiltersType
<1>b. ASSUME NEW v \in Vars, NEW p \in Periods
      PROVE  Registration(v, p) # NoSub
  BY <1>0, RegistrationType, RegisterInfoIsSub
<1>c. phase # "idle" => cur \in Clients
  BY <1>0 DEF TypeInv, PktOK, TypeOK
<1>1. ASSUME NEW c \in Clients, BeginPkt(c) PROVE WildInv'
  BY <1>0, <1>1, IdleWildInv DEF BeginPkt, varState, history
<1>2. ASSUME NEW v \in Vars, NEW src \in Sources, NEW t \in Types, OnNotify(v, src, t) PROVE WildInv'
  <2> DEFINE m == Notification(v, src, t)
  <2>1. m \in Msg /\ m.var = v
    BY <1>0, NotificationType DEF Notification
  <2> HIDE DEF m
  <2>2. /\ Notify(m, subs, filters, held) /\ wild' = wild
        /\ declined' = Undecline(m.var, SubscribersAtWrite(m, subs, filters))
    BY <1>2, <2>1 DEF OnNotify, m
  <2> QED BY <1>0, <2>1, <2>2, NotifyWildInv
<1>3. ASSUME NEW v \in Vars, NEW p \in Periods, OnRegister(v, p) PROVE WildInv'
  <2>1. /\ subs' = [subs EXCEPT ![v][cur] = Registration(v, p)] /\ cur \in Clients
        /\ declined' = [declined EXCEPT ![cur] = @ \ {v}]
        /\ UNCHANGED <<written, writers, filters, wild>>
    BY <1>3, <1>c DEF OnRegister, InPkt, varState
  <2>2. ASSUME NEW c \in Clients, NEW u \in Vars PROVE Covered(c, u)'
    <3>1. CASE c = cur /\ u = v
      BY <1>a, <1>b, <2>1, <3>1 DEF Covered, Subscribed, SubsType
    <3>2. CASE ~(c = cur /\ u = v)
      <4>1. subs'[u][c] = subs[u][c] /\ (u \in declined[c] => u \in declined'[c])
        BY <1>a, <2>1, <3>2 DEF SubsType
      <4>2. Covered(c, u)
        BY CoverIsCovered DEF WildInv
      <4> QED BY <2>1, <4>1, <4>2 DEF Covered, Subscribed
    <3> QED BY <3>1, <3>2
  <2>3. WildcardsCover'
    BY <2>2 DEF WildcardsCover, Covered
  <2> QED BY <1>0, <2>1, <2>3 DEF WildInv, FiltersKept
<1>4. ASSUME NEW f \in FilterIds, NEW p \in Periods, OnWildcardRegister(f, p) PROVE WildInv'
  <2>1. /\ filters' = [filters EXCEPT ![cur][f] = IF @ = -1 THEN p ELSE @]
        /\ wild' = [wild EXCEPT ![cur][f] = p] /\ cur \in Clients
        /\ subs' = [v \in Vars |->
               IF v \in Matched(f) THEN [subs[v] EXCEPT ![cur] = Registration(v, p)] ELSE subs[v]]
        /\ declined' = [declined EXCEPT ![cur] = @ \ Matched(f)]
        /\ UNCHANGED <<written, writers>>
    BY <1>4, <1>c DEF OnWildcardRegister, InPkt, varState
  <2>2. ASSUME NEW c \in Clients, NEW u \in Vars PROVE Covered(c, u)'
    <3>1. CASE c = cur /\ u \in Matched(f)
      <4>1. subs'[u][c] = Registration(u, p)
        BY <1>a, <2>1, <3>1 DEF SubsType
      <4> QED BY <1>b, <4>1 DEF Covered, Subscribed
    <3>2. CASE ~(c = cur /\ u \in Matched(f))
      <4>1. subs'[u][c] = subs[u][c] /\ (u \in declined[c] => u \in declined'[c])
        BY <1>a, <2>1, <3>2 DEF SubsType
      <4>2. \A g \in FilterIds : ~(c = cur /\ g = f) => wild'[c][g] = wild[c][g]
        BY <1>a, <2>1 DEF FiltersType
      <4>3. c = cur /\ u \in FilterVar[f] /\ written[u] # 0 => ~(writers[u] \subseteq FilterApp[f])
        BY <1>0, <3>2 DEF Matched, Matches, WrittenOK
      <4>4. Covered(c, u)
        BY CoverIsCovered DEF WildInv
      <4> QED BY <2>1, <4>1, <4>2, <4>3, <4>4 DEF Covered, Subscribed
    <3> QED BY <3>1, <3>2
  <2>3. WildcardsCover'
    BY <2>2 DEF WildcardsCover, Covered
  <2>4. FiltersKept'
    <3>1. p # -1
      BY TimeAssumption
    <3> QED BY <1>a, <2>1, <3>1 DEF WildInv, FiltersKept, FiltersType
  <2> QED BY <1>0, <2>3, <2>4 DEF WildInv
<1>5. ASSUME NEW v \in Vars, OnUnRegister(v) PROVE WildInv'
  <2>1. /\ subs' = IF v \in exists THEN [subs EXCEPT ![v][cur] = NoSub] ELSE subs
        /\ declined' = [declined EXCEPT ![cur] = @ \cup {v}] /\ cur \in Clients
        /\ UNCHANGED <<written, writers, filters, wild>>
    BY <1>5, <1>c DEF OnUnRegister, InPkt, varState
  <2>2. ASSUME NEW c \in Clients, NEW u \in Vars PROVE Covered(c, u)'
    <3>1. (u \in declined[c] => u \in declined'[c]) /\ (subs'[u][c] = subs[u][c] \/ u \in declined'[c])
      BY <1>a, <2>1 DEF SubsType
    <3>2. Covered(c, u)
      BY CoverIsCovered DEF WildInv
    <3> QED BY <2>1, <3>1, <3>2 DEF Covered, Subscribed
  <2>3. WildcardsCover'
    BY <2>2 DEF WildcardsCover, Covered
  <2> QED BY <1>0, <2>1, <2>3 DEF WildInv, FiltersKept
<1>6. ASSUME NEW f \in FilterIds, OnWildcardUnRegister(f) PROVE WildInv'
  <2>1. /\ subs' = [v \in Vars |->
               IF v \in Matched(f) THEN [subs[v] EXCEPT ![cur] = NoSub] ELSE subs[v]]
        /\ wild' = [wild EXCEPT ![cur][f] = -1] /\ cur \in Clients
        /\ declined' = [declined EXCEPT ![cur] = @ \cup Matched(f)]
        /\ UNCHANGED <<written, writers, filters>>
    BY <1>6, <1>c DEF OnWildcardUnRegister, InPkt, varState
  <2>2. \A c \in Clients, g \in FilterIds : wild'[c][g] \in {wild[c][g], -1}
    BY <1>a, <2>1 DEF FiltersType
  <2>3. ASSUME NEW c \in Clients, NEW u \in Vars PROVE Covered(c, u)'
    <3>1. (u \in declined[c] => u \in declined'[c]) /\ (subs'[u][c] = subs[u][c] \/ u \in declined'[c])
      BY <1>a, <2>1 DEF SubsType
    <3>2. Covered(c, u)
      BY CoverIsCovered DEF WildInv
    <3> QED BY <2>1, <2>2, <3>1, <3>2 DEF Covered, Subscribed
  <2>4. WildcardsCover'
    BY <2>3 DEF WildcardsCover, Covered
  <2> QED BY <1>0, <2>1, <2>2, <2>4 DEF WildInv, FiltersKept
<1>7. ASSUME OnClearRequested PROVE WildInv'
  <2>1. \A v \in Vars : written'[v] = 0
    BY <1>7 DEF OnClearRequested
  <2>2. UNCHANGED <<filters, wild>>
    BY <1>7 DEF OnClearRequested
  <2> QED BY <1>0, <2>1, <2>2 DEF WildInv, FiltersKept, WildcardsCover
<1>8. ASSUME EndRx \/ SkipSummary \/ EndSummary \/ Tick \/ \E c \in Clients : OnFetchAllMail(c) PROVE WildInv'
  <2>1. UNCHANGED <<written, writers, subs, filters, wild, declined>>
    BY <1>8 DEF EndRx, SkipSummary, EndSummary, Tick, OnFetchAllMail, varState, history
  <2> QED BY <1>0, <2>1, IdleWildInv
<1>9. ASSUME UpdateSummary PROVE WildInv'
  <2> DEFINE m == OwnNotification(SummaryVars[todo])
  <2>1. SummaryVars[todo] \in OwnVars
    <3>1. todo # 0
      BY <1>0, <1>9 DEF UpdateSummary, TypeInv, PktOK
    <3> QED BY <1>0, <1>9, <3>1, OwnVarsAssumption DEF UpdateSummary, TypeOK
  <2>2. m \in Msg
    BY <1>0, <2>1, OwnNotificationType
  <2> HIDE DEF m
  <2>3. /\ Notify(m, subs, filters, held) /\ wild' = wild
        /\ declined' = Undecline(m.var, SubscribersAtWrite(m, subs, filters))
    BY <1>9 DEF UpdateSummary, m
  <2> QED BY <1>0, <2>2, <2>3, NotifyWildInv
<1>10. ASSUME NEW c \in Clients, OnConnect(c) PROVE WildInv'
  <2> DEFINE m == OwnNotification(EventVar)
  <2>1. m \in Msg /\ m.var = EventVar
    BY <1>0, OwnVarsAssumption, OwnNotificationType
  <2> HIDE DEF m
  <2>2. /\ Notify(m, subs, filters, held) /\ wild' = wild
        /\ declined' = Undecline(m.var, SubscribersAtWrite(m, subs, filters))
    BY <1>10, <2>1 DEF OnConnect, m
  <2> QED BY <1>0, <2>1, <2>2, NotifyWildInv
<1>11. ASSUME NEW c \in Clients, OnDisconnect(c) PROVE WildInv'
  <2> DEFINE m == OwnNotification(EventVar)
             S == RemoveSubscriber(c)
             F == ClearFilters(c)
             S1 == SubscribersAtWrite(m, subs, F)
  <2>1. m \in Msg /\ m.var = EventVar /\ EventVar \in Vars
    BY <1>0, OwnVarsAssumption, OwnNotificationType
  <2>2. S \in SubsType /\ F \in FiltersType
    BY <1>a DEF RemoveSubscriber, ClearFilters, SubsType, FiltersType
  <2>3. \A k \in Clients \ {c} : F[k] = filters[k] /\ \A v \in Vars : S[v][k] = subs[v][k]
    BY <1>a DEF RemoveSubscriber, ClearFilters, SubsType, FiltersType
  <2>4. /\ Notify(m, S, F, EraseBox(c)) /\ filters' = F
        /\ declined' = [Undecline(EventVar, S1) EXCEPT ![c] = {}]
        /\ wild' = [wild EXCEPT ![c] = [f \in FilterIds |-> -1]]
    BY <1>11 DEF OnDisconnect, Notify
  <2>5. \A f \in FilterIds : wild'[c][f] = -1
    BY <1>a, <2>4 DEF FiltersType
  <2>6. \A k \in Clients \ {c} : wild'[k] = wild[k]
    BY <1>a, <2>4 DEF FiltersType
  <2>7. \A k \in Clients \ {c} : SubscribersAtWrite(m, S, F)[k] = S1[k]
    BY <2>1, <2>3 DEF SubscribersAtWrite
  <2>8. \A k \in Clients \ {c} : declined'[k] = IF S1[k] # subs[m.var][k]
                                                THEN declined[k] \ {m.var} ELSE declined[k]
    BY <2>1, <2>4 DEF Undecline
  <2> HIDE DEF m, S, F, S1
  <2>9. ASSUME NEW k \in Clients, k # c PROVE \A v \in Vars : Covered(k, v)'
    <3>1. \A v \in Vars : S[v][k] = subs[v][k] /\ Covered(k, v)
      BY <2>3, <2>9, CoverIsCovered DEF WildInv
    <3>2. wild'[k] = wild[k] /\ \A f \in FilterIds : wild[k][f] # -1 => F[k][f] # -1
      BY <2>3, <2>6, <2>9 DEF WildInv, FiltersKept
    <3>3. declined'[k] = DeclinedAfter(k, m, S, F)
      BY <2>7, <2>8, <2>9 DEF DeclinedAfter
    <3>4. TypeInv /\ m \in Msg /\ S \in SubsType /\ F \in FiltersType /\ Notify(m, S, F, EraseBox(c))
      BY <1>0, <2>1, <2>2, <2>4
    <3> QED BY <3>1, <3>2, <3>3, <3>4, NotifyCovers, Zenon
  <2>10. WildcardsCover'
    BY <2>5, <2>9 DEF WildcardsCover, Covered
  <2>11. FiltersKept'
    BY <2>3, <2>4, <2>5, <2>6 DEF WildInv, FiltersKept
  <2> QED BY <1>0, <2>10, <2>11 DEF WildInv
<1>12. ASSUME UNCHANGED vars PROVE WildInv'
  BY <1>0, <1>12, IdleWildInv DEF vars, varState, history
<1> QED
  BY <1>1, <1>2, <1>3, <1>4, <1>5, <1>6, <1>7, <1>8, <1>9, <1>10, <1>11, <1>12 DEF Next, ProcessMsg

-------------------------------------------------------------------------------
(* The theorems                                                            *)

\* So it holds in every reachable state; the theorems below are its parts.
LEMMA MailInvariance == Spec => []MailInv
BY MailInvInit, MailInvStep, PTL DEF Spec

\* Every reachable state of the database is well typed (CMOOSDB, CMOOSDBVar).
THEOREM TypeCorrect == Spec => []TypeOK
<1>1. MailInv => TypeOK
  BY DEF MailInv, TypeInv
<1> QED BY <1>1, MailInvariance, PTL

\* OnDisconnect leaves nothing of a client behind, however packets, connections and
\* disconnections interleave.
THEOREM DepartedLeaveNothing == Spec => []NothingForTheDeparted
<1>1. MailInv => NothingForTheDeparted
  BY DEF MailInv
<1> QED BY <1>1, MailInvariance, PTL

\* Held mail always agrees with the variable it is about, DB_CLEAR included.
THEOREM HeldMailIsGenuine == Spec => []MailIsGenuine
<1>1. MailInv => MailIsGenuine
  BY DEF MailInv
<1> QED BY <1>1, MailInvariance, PTL

\* Every client is sent the values of a variable in the order they were written.
THEOREM MailKeepsWriteOrder == Spec => []MailInWriteOrder
<1>1. MailInv => MailInWriteOrder
  BY DEF MailInv
<1> QED BY <1>1, MailInvariance, PTL

\* A subscriber lacks the current value only while its own interval holds it back.
THEOREM SubscribersStayFresh == Spec => []StaleOnlyWhenThrottled
<1>1. MailInv => StaleOnlyWhenThrottled
  BY DEF MailInv
<1> QED BY <1>1, MailInvariance, PTL

\* A client is subscribed to everything one of its wildcard filters covers, whichever came
\* first, filter or variable, and whatever clients of the same or of other names come and go.
THEOREM FiltersCover == Spec => []WildcardsCover
<1>1. Spec => []WildInv
  BY WildInvInit, WildInvStep, PTL DEF Spec
<1>2. WildInv => WildcardsCover
  BY DEF WildInv
<1> QED BY <1>1, <1>2, PTL

===============================================================================
