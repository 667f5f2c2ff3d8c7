-------------------------- MODULE MeasurementProofs --------------------------
(***************************************************************************)
(* Proofs about what the system measures: the clock of a client, for every *)
(* offset of the databases and every bound on the delays; the audit of the *)
(* server, for any number of clients and any window; the envelopes of the  *)
(* skew filter, for any measurements, where the key is that the slopes are *)
(* in order, so that a segment bends away from all those before it.        *)
(***************************************************************************)
EXTENDS Clock, Audit, SkewFilter, SequenceTheorems, NaturalsInduction, WellFoundedInduction, TLAPS

-----------------------------------------------------------------------------
(* The clock of a client                                                   *)

ClkTypes ==
    /\ clkSkew \in Int
    /\ clkCorrect \in BOOLEAN /\ clkQuiet \in BOOLEAN /\ clkUp \in BOOLEAN
    /\ clkDB \in Databases

\* A client that has ceased to correct its clock has no skew, and its database is on its host.
UncorrectedOK ==
    /\ clkQuiet => clkCorrect
    /\ ~clkCorrect => clkSkew = 0 /\ (clkUp => clkDB.here)

\* The inductive invariant.
ClkInv == ClkTypes /\ UncorrectedOK /\ ClockFollowsTheDatabase

\* Every process has warp 2, and a local time is twice the ticks.
LEMMA WarpIs == Warp = 2
BY DEF Warp, SetMOOSTimeWarp, MaxTimeWarp

\* A database on the client's host has its clock.
LEMMA DatabaseFacts ==
    /\ \A d \in Databases : d.offset \in Int /\ d.here \in BOOLEAN /\ (d.here => d.offset = 0)
    /\ Delays \subseteq Nat /\ \A t \in Delays : t <= MaxDelay
<1>1. \A x \in {o - MaxDelay : o \in Offsets} : x \in Int
  BY ClkAssumption
<1>2. ASSUME NEW d \in Databases PROVE d.offset \in Int /\ d.here \in BOOLEAN /\ (d.here => d.offset = 0)
  <2>1. CASE d \in [offset : {o - MaxDelay : o \in Offsets}, here : {FALSE}, single : BOOLEAN]
    BY <1>1, <2>1
  <2>2. CASE d \in [offset : {0}, here : {TRUE}, single : BOOLEAN]
    <3>1. d.offset = 0 /\ d.offset \in Int
      BY <2>2
    <3>2. d.here \in BOOLEAN
      BY <2>2, Zenon
    <3> QED BY <3>1, <3>2
  <2> QED BY <2>1, <2>2 DEF Databases
<1>3. Delays \subseteq Nat /\ \A t \in Delays : t <= MaxDelay
  BY ClkAssumption DEF Delays
<1> QED BY <1>2, <1>3

\* A skew whose distance from the true one is at most that of the largest delay is good enough.
Near(skew, offset) ==
    /\ skew - offset * SkewUnit <= 2 * MaxDelay * SkewUnit
    /\ offset * SkewUnit - skew <= 2 * MaxDelay * SkewUnit

LEMMA NearIsWithinADelay ==
    ASSUME NEW s \in Int, NEW o \in Int
    PROVE  LET e == ((0 * Warp) * SkewUnit + s) - o * SkewUnit
           IN  (IF e < 0 THEN -e ELSE e) <= (MaxDelay * Warp) * SkewUnit <=> Near(s, o)
<1> DEFINE u == o * SkewUnit
           b == 2 * MaxDelay * SkewUnit
<1>1. (0 * Warp) * SkewUnit = 0 /\ (MaxDelay * Warp) * SkewUnit = b
  <2>1. 0 * Warp = 0 /\ MaxDelay * Warp = 2 * MaxDelay /\ 0 * SkewUnit = 0
    BY WarpIs, ClkAssumption
  <2> QED BY <2>1
<1>2. u \in Int /\ b \in Int
  BY ClkAssumption
<1>3. Near(s, o) <=> s - u <= b /\ u - s <= b
  BY DEF Near
<1> HIDE DEF u, b
<1>4. LET e == (0 + s) - u IN (IF e < 0 THEN -e ELSE e) <= b <=> Near(s, o)
  BY <1>2, <1>3
<1>5. o * SkewUnit = u
  BY DEF u
<1> QED BY <1>1, <1>4, <1>5, Zenon

\* The same of the client, in a state and in the next.
LEMMA ClientIsNear ==
    /\ clkSkew \in Int /\ clkDB.offset \in Int => (WithinADelay <=> Near(clkSkew, clkDB.offset))
    /\ clkSkew' \in Int /\ clkDB'.offset \in Int => (WithinADelay' <=> Near(clkSkew', clkDB'.offset))
<1> DEFINE Error(s, o) == ((0 * Warp) * SkewUnit + s) - o * SkewUnit
           Within(e) == (IF e < 0 THEN -e ELSE e) <= (MaxDelay * Warp) * SkewUnit
<1>1. \A s, o \in Int : Within(Error(s, o)) <=> Near(s, o)
  BY NearIsWithinADelay
<1>2. /\ MOOSTime(0, Warp) - clkDB.offset * SkewUnit = Error(clkSkew, clkDB.offset)
      /\ MOOSTime(0, Warp)' - clkDB'.offset * SkewUnit = Error(clkSkew', clkDB'.offset)
  <2>1. /\ MOOSTime(0, Warp) = (0 * Warp) * SkewUnit + clkSkew
        /\ MOOSTime(0, Warp)' = (0 * Warp) * SkewUnit + clkSkew'
    BY DEF MOOSTime, MOOSLocalTime, Warp, SetMOOSTimeWarp, MaxTimeWarp
  <2> QED BY <2>1, Zenon
<1>3. WithinADelay <=> Within(MOOSTime(0, Warp) - clkDB.offset * SkewUnit)
  BY DEF WithinADelay, ClockError, MOOSLocalTime
<1>4. WithinADelay' <=> Within(MOOSTime(0, Warp)' - clkDB'.offset * SkewUnit)
  BY DEF WithinADelay, ClockError, MOOSLocalTime
<1> HIDE DEF Within, Error
<1> QED BY <1>1, <1>2, <1>3, <1>4

\* A number of ticks near the true one is near it in parts of a tick.
LEMMA TicksAreNear ==
    ASSUME NEW a \in Int, NEW k \in Int, a - 2 * MaxDelay <= k, k <= a + 2 * MaxDelay
    PROVE  k * SkewUnit \in Int /\ Near(k * SkewUnit, a)
<1> DEFINE n == 2 * MaxDelay
<1>1. SkewUnit \in Nat /\ n \in Int
  BY ClkAssumption
<1>2. k - a <= n /\ a - k <= n
  BY <1>1
<1>3. Near(k * SkewUnit, a) <=> /\ k * SkewUnit - a * SkewUnit <= n * SkewUnit
                               /\ a * SkewUnit - k * SkewUnit <= n * SkewUnit
  BY DEF Near
<1> HIDE DEF n
<1>4. /\ (k - a) * SkewUnit = k * SkewUnit - a * SkewUnit
      /\ (a - k) * SkewUnit = a * SkewUnit - k * SkewUnit
  BY <1>1
<1>5. \A x \in Int : x <= n => x * SkewUnit <= n * SkewUnit
  BY <1>1
<1> QED BY <1>1, <1>2, <1>3, <1>4, <1>5

\* Half of twice a distance.
LEMMA HalfUnit ==
    ASSUME NEW k \in Int
    PROVE  (2 * k) * (SkewUnit \div 2) = k * SkewUnit
BY ClkAssumption

\* The skew of a welcome is off by the delay of the client's message.
LEMMA WelcomeIsNear ==
    ASSUME clkDB \in Databases, NEW delay \in Delays
    PROVE  WelcomeSkew(0, delay) \in Int /\ Near(WelcomeSkew(0, delay), clkDB.offset)
<1>1. clkDB.offset \in Int /\ delay \in Nat /\ delay <= MaxDelay /\ MaxDelay \in Nat
  BY DatabaseFacts, ClkAssumption
<1>2. WelcomeSkew(0, delay) = (2 * delay + clkDB.offset) * SkewUnit
  <2>1. (2 * delay + clkDB.offset) * SkewUnit \in Int
    BY <1>1, ClkAssumption
  <2> QED BY <1>1, <2>1, WarpIs DEF WelcomeSkew, MOOSLocalTime
<1> DEFINE k == 2 * delay + clkDB.offset
<1>3. k \in Int /\ clkDB.offset - 2 * MaxDelay <= k /\ k <= clkDB.offset + 2 * MaxDelay
  BY <1>1
<1> HIDE DEF k
<1> QED BY <1>1, <1>2, <1>3, TicksAreNear DEF k

\* What a timed exchange measures is off by no more than the delays differ.
LEMMA MeasuredIsNear ==
    ASSUME clkDB \in Databases, NEW out \in Delays, NEW back \in Delays
    PROVE  LET m == MeasuredSkew(0, MOOSLocalTime(out, Warp) + clkDB.offset, MOOSLocalTime(out + back, Warp))
           IN  m \in Int /\ Near(m, clkDB.offset)
<1>1. /\ clkDB.offset \in Int /\ out \in Nat /\ back \in Nat /\ MaxDelay \in Nat
      /\ out <= MaxDelay /\ back <= MaxDelay
  BY DatabaseFacts, ClkAssumption
<1> DEFINE k == (out - back) + clkDB.offset
<1>2. k \in Int /\ clkDB.offset - 2 * MaxDelay <= k /\ k <= clkDB.offset + 2 * MaxDelay
  BY <1>1
<1>3. MOOSLocalTime(out, Warp) = 2 * out /\ MOOSLocalTime(out + back, Warp) = 2 * out + 2 * back
  BY <1>1, WarpIs DEF MOOSLocalTime
<1>4. ((2 * out + clkDB.offset) - (2 * out + 2 * back)) + ((2 * out + clkDB.offset) - 0) = 2 * k
  BY <1>1
<1>5. MeasuredSkew(0, MOOSLocalTime(out, Warp) + clkDB.offset, MOOSLocalTime(out + back, Warp)) = k * SkewUnit
  BY <1>2, <1>3, <1>4, HalfUnit DEF MeasuredSkew
<1> HIDE DEF k
<1> QED BY <1>1, <1>2, <1>5, TicksAreNear

\* The weighted mean of two skews that are near is near.
LEMMA MeanIsNear ==
    ASSUME NEW s \in Int, NEW m \in Int, NEW o \in Int, Near(s, o), Near(m, o)
    PROVE  (9 * s + m) \div 10 \in Int /\ Near((9 * s + m) \div 10, o)
<1> DEFINE u == o * SkewUnit
           b == 2 * MaxDelay * SkewUnit
<1>1. u \in Int /\ b \in Int
  BY ClkAssumption
<1>2. s - u <= b /\ u - s <= b /\ m - u <= b /\ u - m <= b
  BY DEF Near
<1> HIDE DEF u, b
<1>3. (9 * s + m) \div 10 \in Int /\ (9 * s + m) \div 10 - u <= b /\ u - (9 * s + m) \div 10 <= b
  BY <1>1, <1>2
<1> QED BY <1>3 DEF Near, u, b

\* Without a skew a client is right about the clock of its own host.
LEMMA NoneIsNear == Near(0, 0)
<1>1. 0 * SkewUnit = 0 /\ 2 * MaxDelay * SkewUnit >= 0
  BY ClkAssumption
<1> QED BY <1>1 DEF Near

-----------------------------------------------------------------------------
\* A client starts without a skew and corrects its clock.
LEMMA ClkStarts == ClkInit => ClkInv
<1> SUFFICES ASSUME ClkInit PROVE ClkInv
  OBVIOUS
<1>1. ClkTypes
  <2>1. clkSkew \in Int
    BY DEF ClkInit
  <2>2. clkCorrect \in BOOLEAN /\ clkQuiet \in BOOLEAN /\ clkUp \in BOOLEAN /\ clkDB \in Databases
    BY DEF ClkInit
  <2> QED BY <2>1, <2>2 DEF ClkTypes
<1>2. UncorrectedOK /\ ClockFollowsTheDatabase
  BY DEF ClkInit, UncorrectedOK, ClockFollowsTheDatabase
<1> QED BY <1>1, <1>2 DEF ClkInv

\* The handshake takes the old skew back whenever there is one.
LEMMA ClkHandShakeStep ==
    ASSUME ClkInv, NEW db \in Databases, NEW delay \in Delays, ClkHandShake(db, delay)
    PROVE  ClkInv'
<1> DEFINE base == IF clkCorrect THEN 0 ELSE clkSkew
<1>1. ClkTypes /\ UncorrectedOK /\ base = 0
  BY DEF ClkInv, UncorrectedOK
<1>2. /\ clkCorrect' = DoLocalTimeCorrection /\ clkUp' = TRUE /\ UNCHANGED <<clkQuiet, clkDB>>
      /\ clkSkew' = IF DoLocalTimeCorrection THEN WelcomeSkew(0, delay) ELSE 0
  BY <1>1 DEF ClkHandShake
<1>3. clkDB.offset \in Int /\ clkDB.here \in BOOLEAN /\ (clkDB.here => clkDB.offset = 0)
  BY <1>1, DatabaseFacts DEF ClkTypes
<1>4. DoLocalTimeCorrection = IF clkQuiet THEN clkCorrect ELSE ~clkDB.here
  BY DEF DoLocalTimeCorrection
<1>5. clkSkew' \in Int /\ Near(clkSkew', clkDB.offset)
  <2>1. CASE DoLocalTimeCorrection
    BY <1>1, <1>2, <2>1, WelcomeIsNear DEF ClkTypes
  <2>2. CASE ~DoLocalTimeCorrection
    <3>1. clkDB.offset = 0 /\ clkSkew' = 0
      BY <1>1, <1>2, <1>3, <1>4, <2>2 DEF UncorrectedOK
    <3> QED BY <3>1, NoneIsNear
  <2> QED BY <2>1, <2>2
<1>6. DoLocalTimeCorrection \in BOOLEAN
  BY <1>1, <1>3, <1>4 DEF ClkTypes
<1>7. ClkTypes'
  BY <1>1, <1>2, <1>5, <1>6 DEF ClkTypes
<1>8. UncorrectedOK'
  BY <1>1, <1>2, <1>4 DEF UncorrectedOK
<1>9. WithinADelay'
  <2>1. clkSkew' \in Int /\ clkDB'.offset \in Int /\ Near(clkSkew', clkDB'.offset)
    BY <1>2, <1>3, <1>5
  <2> QED BY <2>1, ClientIsNear
<1> QED BY <1>7, <1>8, <1>9 DEF ClkInv, ClockFollowsTheDatabase
\* A handshake that fails takes the skew back, or leaves none.
LEMMA ClkDownStep ==
    ASSUME ClkInv, ClkHandShakeFails \/ ClkLost
    PROVE  ClkInv'
<1>1. /\ clkSkew' \in {0, clkSkew} /\ clkUp' = FALSE /\ clkDB' \in Databases
      /\ UNCHANGED <<clkCorrect, clkQuiet>>
  BY DEF ClkHandShakeFails, ClkLost, ClkInv, ClkTypes
<1>2. ClkTypes'
  <2>1. clkSkew' \in Int
    BY <1>1 DEF ClkInv, ClkTypes
  <2>2. clkCorrect' \in BOOLEAN /\ clkQuiet' \in BOOLEAN /\ clkUp' \in BOOLEAN
    BY <1>1 DEF ClkInv, ClkTypes
  <2> QED BY <1>1, <2>1, <2>2 DEF ClkTypes
<1>3. UncorrectedOK' /\ ClockFollowsTheDatabase'
  BY <1>1 DEF ClkInv, UncorrectedOK, ClockFollowsTheDatabase
<1> QED BY <1>2, <1>3 DEF ClkInv

\* An exchange with times of its own moves a near skew to a near one.
LEMMA TimedExchangeStep ==
    ASSUME ClkInv, NEW out \in Delays, NEW back \in Delays, TimedExchange(out, back)
    PROVE  ClkInv'
<1> DEFINE m == MeasuredSkew(0, MOOSLocalTime(out, Warp) + clkDB.offset, MOOSLocalTime(out + back, Warp))
<1>1. ClkTypes /\ UncorrectedOK /\ clkDB.offset \in Int /\ clkSkew \in Int
  BY DatabaseFacts DEF ClkInv, ClkTypes
<1>2. m \in Int /\ Near(m, clkDB.offset)
  BY <1>1, MeasuredIsNear DEF ClkTypes
<1> HIDE DEF m
<1>3. /\ clkUp /\ UNCHANGED <<clkCorrect, clkQuiet, clkUp, clkDB, clkGuessed>>
      /\ IF clkCorrect THEN clkSkew' = IF clkSkew # 0 THEN (9 * clkSkew + m) \div 10 ELSE m
                       ELSE clkSkew' = clkSkew
  BY DEF TimedExchange, UpdateMOOSSkew, m
<1>4. clkSkew' \in Int
  BY <1>1, <1>2, <1>3
<1>5. ~clkGuessed => Near(clkSkew', clkDB.offset)
  <2>1. ~clkGuessed => Near(clkSkew, clkDB.offset)
    BY <1>1, <1>3, ClientIsNear DEF ClkInv, ClockFollowsTheDatabase
  <2>2. CASE clkCorrect /\ clkSkew # 0
    BY <1>1, <1>2, <1>3, <2>1, <2>2, MeanIsNear
  <2>3. CASE clkCorrect /\ clkSkew = 0
    BY <1>2, <1>3, <2>3
  <2>4. CASE ~clkCorrect
    BY <1>3, <2>1, <2>4
  <2> QED BY <2>2, <2>3, <2>4
<1>6. ClkTypes'
  BY <1>1, <1>3, <1>4 DEF ClkTypes
<1>7. UncorrectedOK'
  BY <1>1, <1>3 DEF UncorrectedOK
<1>8. ClockFollowsTheDatabase'
  <2>1. clkDB'.offset \in Int /\ (~clkGuessed' => Near(clkSkew', clkDB'.offset))
    BY <1>1, <1>3, <1>5
  <2> QED BY <1>4, <2>1, ClientIsNear DEF ClockFollowsTheDatabase
<1> QED BY <1>6, <1>7, <1>8 DEF ClkInv

\* A guessed exchange changes the skew of a client that is then known to have guessed.
LEMMA GuessedExchangeStep ==
    ASSUME ClkInv, NEW back \in Delays, GuessedExchange(back)
    PROVE  ClkInv'
<1> DEFINE rx == MOOSLocalTime(back, Warp)
           m == MeasuredSkew(clkDB.offset + (clkDB.offset - rx), clkDB.offset, rx)
<1>1. ClkTypes /\ UncorrectedOK /\ clkDB.offset \in Int /\ clkSkew \in Int
  BY DatabaseFacts DEF ClkInv, ClkTypes
<1>2. m \in Int
  <2>1. rx \in Int
    BY WarpIs, DatabaseFacts DEF MOOSLocalTime
  <2> HIDE DEF rx
  <2> QED BY <1>1, <2>1, ClkAssumption DEF MeasuredSkew
<1>3. /\ UNCHANGED <<clkCorrect, clkQuiet, clkUp, clkDB>>
      /\ IF clkCorrect THEN /\ clkSkew' = IF clkSkew # 0 THEN (9 * clkSkew + m) \div 10 ELSE m
                            /\ clkGuessed' = TRUE
                       ELSE UNCHANGED <<clkSkew, clkGuessed>>
  BY DEF GuessedExchange, UpdateMOOSSkew
<1> HIDE DEF m
<1>4. clkSkew' \in Int
  BY <1>1, <1>2, <1>3
<1>5. ClkTypes'
  BY <1>1, <1>3, <1>4 DEF ClkTypes
<1>6. UncorrectedOK'
  BY <1>1, <1>3 DEF UncorrectedOK
<1>7. ClockFollowsTheDatabase'
  <2>1. CASE clkCorrect
    BY <1>3, <2>1 DEF ClockFollowsTheDatabase
  <2>2. CASE ~clkCorrect
    BY <1>1, <1>3, <2>2, ClientIsNear DEF ClkInv, ClockFollowsTheDatabase
  <2> QED BY <2>1, <2>2
<1> QED BY <1>5, <1>6, <1>7 DEF ClkInv

\* ClockIsRight: a connected client's MOOSTime is within one delay of the network of the time of
\* its database, for any offsets and any bound on the delays, through any number of handshakes,
\* failures and moves of the database (HandShake, UpdateMOOSSkew).
THEOREM ClockIsRight == ClkSpec => []ClockFollowsTheDatabase
<1>1. ClkInv /\ ClkNext => ClkInv'
  BY ClkHandShakeStep, ClkDownStep, TimedExchangeStep, GuessedExchangeStep DEF ClkNext
<1>2. ClkInv /\ UNCHANGED clkVars => ClkInv'
  <2> SUFFICES ASSUME ClkInv, UNCHANGED clkVars PROVE ClkInv'
    OBVIOUS
  <2>1. UNCHANGED <<clkSkew, clkCorrect, clkQuiet, clkUp, clkDB, clkGuessed>>
    BY DEF clkVars
  <2>2. ClkTypes' /\ UncorrectedOK'
    BY <2>1 DEF ClkInv, ClkTypes, UncorrectedOK
  <2>3. ClockFollowsTheDatabase'
    <3>1. clkSkew' = clkSkew /\ clkDB' = clkDB /\ clkSkew \in Int /\ clkDB.offset \in Int
      BY <2>1, DatabaseFacts DEF ClkInv, ClkTypes
    <3> QED BY <2>1, <3>1, ClientIsNear DEF ClkInv, ClockFollowsTheDatabase
  <2> QED BY <2>2, <2>3 DEF ClkInv
<1>3. ClkInv => ClockFollowsTheDatabase
  BY DEF ClkInv
<1> QED BY <1>1, <1>2, <1>3, ClkStarts, PTL DEF ClkSpec

-----------------------------------------------------------------------------
(* The audit of the server                                                 *)

AuditRecord == [recently : Nat, n : Nat, max : Int, min : Int, recent : Int, sum : Int, avg : Int]

\* The extremes are those of the latencies seen.
ExtremesOK(a, seen) ==
    /\ \A i \in 1 .. Len(seen) : a.min <= seen[i] /\ seen[i] <= a.max
    /\ Len(seen) = 0 => a.min = NoLatencyYet /\ a.max = 0
    /\ Len(seen) # 0 => /\ \E i \in 1 .. Len(seen) : a.min = seen[i]
                        /\ a.max = 0 \/ \E i \in 1 .. Len(seen) : a.max = seen[i]

\* Until the window is full the sum is of n latencies; from then on it is of the first of them,
\* one fewer than the window holds, and of the latest.
SumOK(a) ==
    IF a.n < Window
    THEN a.recent = 0 /\ a.n * a.min <= a.sum /\ a.sum <= a.n * a.max
    ELSE /\ a.min <= a.recent /\ a.recent <= a.max
         /\ (Window - 1) * a.min <= a.sum - a.recent
         /\ a.sum - a.recent <= (Window - 1) * a.max
         /\ a.avg = a.sum

\* What holds of the entry of a client, made or not.
EntryOK(a, seen) ==
    /\ a \in AuditRecord /\ seen \in Seq(Int)
    /\ ExtremesOK(a, seen) /\ SumOK(a)

EntriesOK ==
    /\ DOMAIN audits \subseteq AuditClients
    /\ DOMAIN auditSeen = AuditClients
    /\ \A c \in AuditClients : EntryOK(Entry(c), auditSeen[c])
    /\ \A c \in AuditClients \ DOMAIN audits : auditSeen[c] = <<>>

BytesOK ==
    /\ auditEntered \in [AuditClients -> Nat] /\ auditTold \in [AuditClients -> Nat]
    /\ auditErased \in [AuditClients -> Nat]
    /\ \A c \in AuditClients : InTable(c) \in Nat
    /\ DOMAIN auditTable \subseteq AuditClients
    /\ auditor = "waits" => auditTable = <<>>
    /\ BytesReportedOnce

RecordsOK ==
    /\ multicast \in Seq(Int) /\ sending \in Seq(Int) /\ delays \in Seq(Int)
    /\ RecordsSentOnce

\* The inductive invariant.
AuditInv == EntriesOK /\ BytesOK /\ RecordsOK

\* A new entry has counted nothing.
LEMMA NewAuditOK == EntryOK(NewAudit, <<>>)
<1>1. NewAudit \in AuditRecord
  BY AuditAssumption DEF NewAudit, AuditRecord
<1>2. ExtremesOK(NewAudit, <<>>)
  BY AuditAssumption DEF NewAudit, ExtremesOK
<1>3. SumOK(NewAudit)
  BY AuditAssumption DEF NewAudit, SumOK
<1> QED BY <1>1, <1>2, <1>3 DEF EntryOK

\* What AddTimingStatistic makes of an entry.
Timed(a, l) ==
    LET b == [a EXCEPT !.n = @ + 1, !.sum = @ + l,
                       !.max = IF l > @ THEN l ELSE @, !.min = IF l < @ THEN l ELSE @]
    IN  IF b.n < Window THEN b
        ELSE [b EXCEPT !.sum = SumWithoutLast(b), !.recent = l, !.avg = SumWithoutLast(b)]

LEMMA TimedIs ==
    ASSUME NEW a \in AuditRecord, NEW l \in Int
    PROVE  LET t == Timed(a, l)
               full == ~(a.n + 1 < Window)
           IN  /\ t \in AuditRecord
               /\ t.recently = a.recently /\ t.n = a.n + 1
               /\ t.max = (IF l > a.max THEN l ELSE a.max)
               /\ t.min = (IF l < a.min THEN l ELSE a.min)
               /\ t.sum = (IF full THEN a.sum + l - a.recent ELSE a.sum + l)
               /\ t.recent = (IF full THEN l ELSE a.recent)
               /\ full => t.avg = t.sum
<1> DEFINE b == [a EXCEPT !.n = @ + 1, !.sum = @ + l,
                          !.max = IF l > @ THEN l ELSE @, !.min = IF l < @ THEN l ELSE @]
<1>1. /\ b \in AuditRecord
      /\ b.recently = a.recently /\ b.n = a.n + 1
      /\ b.max = (IF l > a.max THEN l ELSE a.max)
      /\ b.min = (IF l < a.min THEN l ELSE a.min)
      /\ b.sum = a.sum + l /\ b.recent = a.recent
  <2> DEFINE x == IF l > a.max THEN l ELSE a.max
             y == IF l < a.min THEN l ELSE a.min
  <2>1. a.n + 1 \in Nat /\ a.sum + l \in Int /\ x \in Int /\ y \in Int
    BY DEF AuditRecord
  <2>2. b = [a EXCEPT !.n = a.n + 1, !.sum = a.sum + l, !.max = x, !.min = y]
    BY DEF AuditRecord
  <2> HIDE DEF x, y
  <2>3. /\ b \in AuditRecord
        /\ b.recently = a.recently /\ b.n = a.n + 1
        /\ b.max = x /\ b.min = y /\ b.sum = a.sum + l /\ b.recent = a.recent
    BY <2>1, <2>2 DEF AuditRecord
  <2> QED BY <2>3 DEF x, y
<1>2. Timed(a, l) = IF b.n < Window THEN b
                    ELSE [b EXCEPT !.sum = SumWithoutLast(b), !.recent = l, !.avg = SumWithoutLast(b)]
  BY DEF Timed
<1> HIDE DEF b
<1>3. SumWithoutLast(b) = a.sum + l - a.recent /\ SumWithoutLast(b) \in Int
  BY <1>1 DEF SumWithoutLast, AuditRecord
<1>4. CASE b.n < Window
  BY <1>1, <1>2, <1>4
<1>5. CASE ~(b.n < Window)
  <2> DEFINE t == [b EXCEPT !.sum = SumWithoutLast(b), !.recent = l, !.avg = SumWithoutLast(b)]
  <2>1. /\ t \in AuditRecord
        /\ t.recently = b.recently /\ t.n = b.n /\ t.max = b.max /\ t.min = b.min
        /\ t.sum = SumWithoutLast(b) /\ t.recent = l /\ t.avg = t.sum
    BY <1>1, <1>3 DEF AuditRecord
  <2> QED BY <1>1, <1>2, <1>3, <1>5, <2>1
<1> QED BY <1>4, <1>5

\* Factors keep an order.
LEMMA TimesKeepsOrder ==
    ASSUME NEW n \in Nat, NEW x \in Int, NEW y \in Int, x <= y
    PROVE  n * x <= n * y /\ n * x \in Int /\ n * y \in Int /\ (n + 1) * x = n * x + x
OBVIOUS

\* One more latency leaves the entry as it should be.
LEMMA TimedOK ==
    ASSUME NEW a, NEW seen, EntryOK(a, seen), NEW l \in Latencies
    PROVE  EntryOK(Timed(a, l), Append(seen, l))
<1> DEFINE t == Timed(a, l)
<1>1. a \in AuditRecord /\ seen \in Seq(Int) /\ l \in Int /\ l < NoLatencyYet
  BY AuditAssumption DEF EntryOK
<1>2. /\ a.n \in Nat /\ a.max \in Int /\ a.min \in Int /\ a.sum \in Int /\ a.recent \in Int
      /\ Window \in Nat /\ Window # 0
  BY <1>1, AuditAssumption DEF AuditRecord
<1>3. /\ t \in AuditRecord
      /\ t.recently = a.recently /\ t.n = a.n + 1
      /\ t.max = (IF l > a.max THEN l ELSE a.max)
      /\ t.min = (IF l < a.min THEN l ELSE a.min)
      /\ t.sum = (IF a.n + 1 < Window THEN a.sum + l ELSE a.sum + l - a.recent)
      /\ t.recent = (IF a.n + 1 < Window THEN a.recent ELSE l)
      /\ ~(a.n + 1 < Window) => t.avg = t.sum
  BY <1>1, <1>2, TimedIs
<1> HIDE DEF t
<1>5. ExtremesOK(t, Append(seen, l))
  <2> DEFINE s == Append(seen, l)
  <2>1. /\ s \in Seq(Int) /\ Len(s) = Len(seen) + 1 /\ Len(seen) \in Nat /\ s[Len(s)] = l
        /\ \A i \in 1 .. Len(seen) : s[i] = seen[i] /\ seen[i] \in Int
    BY <1>1
  <2>2. ExtremesOK(a, seen)
    BY DEF EntryOK
  <2> HIDE DEF s
  <2>3. \A i \in 1 .. Len(s) : t.min <= s[i] /\ s[i] <= t.max
    <3> SUFFICES ASSUME NEW i \in 1 .. Len(s) PROVE t.min <= s[i] /\ s[i] <= t.max
      OBVIOUS
    <3>1. CASE i = Len(s)
      BY <1>1, <1>2, <1>3, <2>1, <3>1
    <3>2. CASE i \in 1 .. Len(seen)
      <4>1. a.min <= seen[i] /\ seen[i] <= a.max /\ s[i] = seen[i] /\ seen[i] \in Int
        BY <2>1, <2>2, <3>2 DEF ExtremesOK
      <4> QED BY <1>1, <1>2, <1>3, <4>1
    <3> QED BY <2>1, <3>1, <3>2
  <2>4. \E i \in 1 .. Len(s) : t.min = s[i]
    <3>1. CASE t.min = l
      BY <2>1, <3>1
    <3>2. CASE t.min # l
      <4>1. Len(seen) # 0 /\ t.min = a.min
        BY <1>1, <1>3, <2>2, <3>2 DEF ExtremesOK
      <4>2. PICK i \in 1 .. Len(seen) : a.min = seen[i]
        BY <2>2, <4>1 DEF ExtremesOK
      <4>3. i \in 1 .. Len(s) /\ s[i] = seen[i]
        BY <2>1
      <4> QED BY <4>1, <4>2, <4>3
    <3> QED BY <3>1, <3>2
  <2>5. t.max = 0 \/ \E i \in 1 .. Len(s) : t.max = s[i]
    <3>1. CASE t.max = l
      BY <2>1, <3>1
    <3>2. CASE t.max # l /\ t.max # 0
      <4>1. Len(seen) # 0 /\ t.max = a.max
        BY <1>1, <1>3, <2>2, <3>2 DEF ExtremesOK
      <4>2. PICK i \in 1 .. Len(seen) : a.max = seen[i]
        BY <2>2, <3>2, <4>1 DEF ExtremesOK
      <4>3. i \in 1 .. Len(s) /\ s[i] = seen[i]
        BY <2>1
      <4> QED BY <4>1, <4>2, <4>3
    <3> QED BY <3>1, <3>2
  <2> QED BY <2>1, <2>3, <2>4, <2>5 DEF ExtremesOK, s
<1>6. SumOK(t)
  <2>1. /\ t.min <= a.min /\ t.min <= l /\ l <= t.max /\ a.max <= t.max /\ t.min \in Int /\ t.max \in Int
    BY <1>1, <1>2, <1>3
  <2>2. SumOK(a)
    BY DEF EntryOK
  <2>3. CASE a.n < Window
    <3>1. a.recent = 0 /\ a.n * a.min <= a.sum /\ a.sum <= a.n * a.max
      BY <2>2, <2>3 DEF SumOK
    <3>2. a.n * t.min <= a.n * a.min /\ a.n * t.min \in Int /\ a.n * a.min \in Int
      BY <1>2, <2>1, TimesKeepsOrder
    <3>3. a.n * a.max <= a.n * t.max /\ a.n * t.max \in Int /\ a.n * a.max \in Int
      BY <1>2, <2>1, TimesKeepsOrder
    <3>4. /\ a.n * t.min <= a.sum /\ a.sum <= a.n * t.max
          /\ (a.n + 1) * t.min = a.n * t.min + t.min /\ (a.n + 1) * t.max = a.n * t.max + t.max
      BY <1>2, <2>1, <3>1, <3>2, <3>3
    <3>5. CASE a.n + 1 < Window
      <4>1. /\ t.recent = 0 /\ t.sum = a.sum + l /\ t.n < Window
            /\ t.n * t.min = a.n * t.min + t.min /\ t.n * t.max = a.n * t.max + t.max
        BY <1>3, <3>1, <3>4, <3>5
      <4>2. a.n * t.min + t.min <= a.sum + l /\ a.sum + l <= a.n * t.max + t.max
        <5>1. \A p, q, x, y \in Int : p <= q /\ x <= y => p + x <= q + y
          OBVIOUS
        <5> QED BY <1>1, <1>2, <2>1, <3>2, <3>3, <3>4, <5>1
      <4> QED BY <4>1, <4>2 DEF SumOK
    <3>6. CASE ~(a.n + 1 < Window)
      <4>1. a.n = Window - 1 /\ ~(t.n < Window)
        BY <1>2, <1>3, <2>3, <3>6
      <4>2. t.recent = l /\ t.sum - l = a.sum /\ t.avg = t.sum
        BY <1>1, <1>2, <1>3, <3>1, <3>6
      <4> QED BY <2>1, <3>4, <4>1, <4>2 DEF SumOK
    <3> QED BY <3>5, <3>6
  <2>4. CASE ~(a.n < Window)
    <3>1. (Window - 1) * a.min <= a.sum - a.recent /\ a.sum - a.recent <= (Window - 1) * a.max
      BY <2>2, <2>4 DEF SumOK
    <3>2. Window - 1 \in Nat
      BY <1>2
    <3>3. /\ (Window - 1) * t.min <= (Window - 1) * a.min
          /\ (Window - 1) * t.min \in Int /\ (Window - 1) * a.min \in Int
      BY <1>2, <2>1, <3>2, TimesKeepsOrder
    <3>4. /\ (Window - 1) * a.max <= (Window - 1) * t.max
          /\ (Window - 1) * t.max \in Int /\ (Window - 1) * a.max \in Int
      BY <1>2, <2>1, <3>2, TimesKeepsOrder
    <3>5. ~(a.n + 1 < Window) /\ ~(t.n < Window)
      BY <1>2, <1>3, <2>4
    <3>6. t.recent = l /\ t.sum - l = a.sum - a.recent /\ t.avg = t.sum
      BY <1>1, <1>2, <1>3, <3>5
    <3>7. (Window - 1) * t.min <= t.sum - t.recent /\ t.sum - t.recent <= (Window - 1) * t.max
      BY <1>2, <3>1, <3>3, <3>4, <3>6
    <3> QED BY <2>1, <3>5, <3>6, <3>7 DEF SumOK
  <2> QED BY <1>2, <2>3, <2>4
<1>7. Append(seen, l) \in Seq(Int)
  BY <1>1
<1> QED BY <1>3, <1>5, <1>6, <1>7 DEF EntryOK, t

\* Counting bytes and reporting them leave the rest of an entry alone.
LEMMA CountedOK ==
    ASSUME NEW a, NEW seen, EntryOK(a, seen)
    PROVE  /\ EntryOK([a EXCEPT !.recently = @ + 1], seen)
           /\ EntryOK(ClearRecents(a), seen)
<1>1. a \in AuditRecord /\ ExtremesOK(a, seen) /\ SumOK(a) /\ seen \in Seq(Int)
  BY DEF EntryOK
<1>2. ASSUME NEW x \in Nat PROVE EntryOK([a EXCEPT !.recently = x], seen)
  <2> DEFINE b == [a EXCEPT !.recently = x]
  <2>1. /\ b \in AuditRecord /\ b.recently = x /\ b.n = a.n /\ b.max = a.max
        /\ b.min = a.min /\ b.recent = a.recent /\ b.sum = a.sum /\ b.avg = a.avg
    BY <1>1 DEF AuditRecord
  <2> HIDE DEF b
  <2>2. ExtremesOK(b, seen)
    BY <1>1, <2>1 DEF ExtremesOK
  <2>3. SumOK(b)
    BY <1>1, <2>1 DEF SumOK
  <2> QED BY <1>1, <2>1, <2>2, <2>3 DEF EntryOK, b
<1>3. a.recently + 1 \in Nat
  BY <1>1 DEF AuditRecord
<1>4. [a EXCEPT !.recently = @ + 1] = [a EXCEPT !.recently = a.recently + 1]
  BY <1>1 DEF AuditRecord
<1> QED BY <1>2, <1>3, <1>4 DEF ClearRecents

-----------------------------------------------------------------------------
\* What the entries look like when that of client c becomes a.
LEMMA WithEntryIs ==
    ASSUME NEW c \in AuditClients, NEW a, audits' = WithEntry(c, a), DOMAIN audits \subseteq AuditClients
    PROVE  /\ DOMAIN audits' = DOMAIN audits \cup {c}
           /\ Entry(c)' = a
           /\ \A d \in AuditClients \ {c} : Entry(d)' = Entry(d)
BY DEF WithEntry, Entry

\* The entries are all right when that of client c becomes one that is.
LEMMA WithEntryOK ==
    ASSUME EntriesOK, NEW c \in AuditClients, NEW a, audits' = WithEntry(c, a),
           EntryOK(a, auditSeen'[c]), DOMAIN auditSeen' = AuditClients,
           \A d \in AuditClients \ {c} : auditSeen'[d] = auditSeen[d]
    PROVE  EntriesOK'
<1>1. DOMAIN audits \subseteq AuditClients
  BY DEF EntriesOK
<1>2. /\ DOMAIN audits' = DOMAIN audits \cup {c} /\ Entry(c)' = a
      /\ \A d \in AuditClients \ {c} : Entry(d)' = Entry(d)
  BY <1>1, WithEntryIs
<1>3. ASSUME NEW d \in AuditClients PROVE EntryOK(Entry(d)', auditSeen'[d])
  <2>1. CASE d = c
    BY <1>2, <2>1
  <2>2. CASE d # c
    BY <1>2, <2>2 DEF EntriesOK
  <2> QED BY <2>1, <2>2
<1>4. \A d \in AuditClients \ DOMAIN audits' : auditSeen'[d] = <<>>
  BY <1>2 DEF EntriesOK
<1>5. \A d \in AuditClients : EntryOK(Entry(d), auditSeen[d])'
  BY <1>3 DEF EntryOK, ExtremesOK, SumOK
<1> QED BY <1>1, <1>2, <1>4, <1>5 DEF EntriesOK

\* The handlers of ServerAudit keep every entry as it should be.
LEMMA EntriesStep ==
    ASSUME EntriesOK, AuditNext
    PROVE  EntriesOK'
<1>0. /\ DOMAIN audits \subseteq AuditClients
      /\ DOMAIN auditSeen = AuditClients
      /\ \A c \in AuditClients : EntryOK(Entry(c), auditSeen[c])
  BY DEF EntriesOK
<1>1. ASSUME NEW c \in AuditClients, AddStatistic(c) PROVE EntriesOK'
  <2>1. /\ audits' = WithEntry(c, [Entry(c) EXCEPT !.recently = @ + 1])
        /\ UNCHANGED auditSeen
    BY <1>1 DEF AddStatistic
  <2>2. EntryOK([Entry(c) EXCEPT !.recently = @ + 1], auditSeen[c])
    BY <1>0, CountedOK
  <2> QED BY <1>0, <2>1, <2>2, WithEntryOK
<1>2. ASSUME NEW c \in AuditClients, NEW l \in Latencies, AddTimingStatistic(c, l) PROVE EntriesOK'
  <2>1. /\ audits' = WithEntry(c, Timed(Entry(c), l))
        /\ auditSeen' = [auditSeen EXCEPT ![c] = Append(@, l)]
    BY <1>2 DEF AddTimingStatistic, Timed
  <2>2. EntryOK(Timed(Entry(c), l), Append(auditSeen[c], l))
    BY <1>0, TimedOK
  <2>3. /\ DOMAIN auditSeen' = AuditClients /\ auditSeen'[c] = Append(auditSeen[c], l)
        /\ \A d \in AuditClients \ {c} : auditSeen'[d] = auditSeen[d]
    BY <1>0, <2>1
  <2> QED BY <1>0, <2>1, <2>2, <2>3, WithEntryOK
<1>3. ASSUME NEW c \in AuditClients, RemoveAudit(c) PROVE EntriesOK'
  <2>1. /\ audits' = [d \in DOMAIN audits \ {c} |-> audits[d]]
        /\ auditSeen' = [auditSeen EXCEPT ![c] = <<>>]
    BY <1>3 DEF RemoveAudit
  <2>2. /\ DOMAIN audits' = DOMAIN audits \ {c} /\ Entry(c)' = NewAudit
        /\ \A d \in AuditClients \ {c} : Entry(d)' = Entry(d)
    BY <2>1 DEF Entry
  <2>3. /\ DOMAIN auditSeen' = AuditClients /\ auditSeen'[c] = <<>>
        /\ \A d \in AuditClients \ {c} : auditSeen'[d] = auditSeen[d]
    BY <1>0, <2>1
  <2>4. ASSUME NEW d \in AuditClients PROVE EntryOK(Entry(d)', auditSeen'[d])
    <3>1. CASE d = c
      BY <2>2, <2>3, <3>1, NewAuditOK
    <3>2. CASE d # c
      BY <1>0, <2>2, <2>3, <3>2
    <3> QED BY <3>1, <3>2
  <2>5. \A d \in AuditClients \ DOMAIN audits' : auditSeen'[d] = <<>>
    BY <2>2, <2>3 DEF EntriesOK
  <2>6. \A d \in AuditClients : EntryOK(Entry(d), auditSeen[d])'
    BY <2>4 DEF EntryOK, ExtremesOK, SumOK
  <2> QED BY <1>0, <2>2, <2>3, <2>5, <2>6 DEF EntriesOK
<1>4. ASSUME ComposeReport PROVE EntriesOK'
  <2>1. /\ audits' = [c \in DOMAIN audits |-> ClearRecents(audits[c])] /\ auditSeen' = auditSeen
    BY <1>4 DEF ComposeReport
  <2>2. ASSUME NEW c \in AuditClients PROVE EntryOK(Entry(c)', auditSeen'[c])
    <3>1. CASE c \in DOMAIN audits
      <4>1. Entry(c)' = ClearRecents(Entry(c))
        BY <2>1, <3>1 DEF Entry
      <4> QED BY <1>0, <2>1, <4>1, CountedOK
    <3>2. CASE c \notin DOMAIN audits
      <4>1. Entry(c)' = NewAudit /\ Entry(c) = NewAudit
        BY <2>1, <3>2 DEF Entry
      <4>2. auditSeen'[c] = <<>>
        BY <2>1, <3>2 DEF EntriesOK
      <4> QED BY <4>1, <4>2, NewAuditOK
    <3> QED BY <3>1, <3>2
  <2>3. \A c \in AuditClients : EntryOK(Entry(c), auditSeen[c])'
    BY <2>2 DEF EntryOK, ExtremesOK, SumOK
  <2>4. \A d \in AuditClients \ DOMAIN audits' : auditSeen'[d] = <<>>
    BY <2>1 DEF EntriesOK
  <2> QED BY <1>0, <2>1, <2>3, <2>4 DEF EntriesOK
<1>5. ASSUME UNCHANGED <<audits, auditSeen>> PROVE EntriesOK'
  BY <1>5 DEF EntriesOK, Entry, EntryOK, ExtremesOK, SumOK
<1> QED
  BY <1>1, <1>2, <1>3, <1>4, <1>5
     DEF AuditNext, SendReport, SendFails, SendRows, UpdateQoSVar, ProcessClientCommsStatusSummary, AddForAudit,
         TakeRecords, TransmitRecord

\* What is said of the bytes of one client.
Known(told, row, new, gone, all, state) ==
    /\ told + row + new + gone <= all
    /\ state # "gave up" => told + row + new + gone = all

\* Bytes that leave one place come to another, or the auditor gives up.
LEMMA BytesMove ==
    ASSUME NEW told \in Nat, NEW row \in Nat, NEW new \in Nat, NEW gone \in Nat, NEW all \in Nat,
           NEW state, Known(told, row, new, gone, all, state)
    PROVE  /\ Known(told, row, new + 1, gone, all + 1, state)
           /\ Known(told, row, 0, gone + new, all, state)
           /\ Known(told + row, 0, new, gone, all, "gave up")
           /\ Known(told, 0, new, gone, all, "gave up")
<1>1. told + row + new + gone <= all
  BY DEF Known
<1>2. /\ told + row + (new + 1) + gone <= all + 1 /\ told + row + 0 + (gone + new) <= all
      /\ (told + row) + 0 + new + gone <= all /\ told + 0 + new + gone <= all
  BY <1>1
<1>3. ASSUME told + row + new + gone = all
      PROVE  /\ told + row + (new + 1) + gone = all + 1 /\ told + row + 0 + (gone + new) = all
  BY <1>3
<1>4. state # "gave up" => told + row + new + gone = all
  BY DEF Known
<1>5. Known(told, row, new + 1, gone, all + 1, state) /\ Known(told, row, 0, gone + new, all, state)
  BY <1>2, <1>3, <1>4 DEF Known
<1>6. Known(told + row, 0, new, gone, all, "gave up") /\ Known(told, 0, new, gone, all, "gave up")
  BY <1>2 DEF Known
<1> QED BY <1>5, <1>6

\* The new bytes are taken into an empty table, and a table is sent whole.
LEMMA BytesTaken ==
    ASSUME NEW told \in Nat, NEW row \in Nat, NEW new \in Nat, NEW gone \in Nat, NEW all \in Nat,
           told + row + new + gone = all
    PROVE  /\ row = 0 => Known(told, new, 0, gone, all, "sends")
           /\ Known(told + row, 0, new, gone, all, "waits")
<1>1. (told + row) + 0 + new + gone = all /\ (row = 0 => told + new + 0 + gone = all)
  OBVIOUS
<1> QED BY <1>1 DEF Known

\* The bytes of one client are known as before when those that leave one place come to another.
LEMMA BytesStep ==
    ASSUME EntriesOK, BytesOK, AuditNext
    PROVE  BytesOK'
<1> DEFINE Known1(c) == Known(auditTold[c], InTable(c), Entry(c).recently, auditErased[c], auditEntered[c], auditor)
           Known2(c) == Known(auditTold'[c], InTable(c)', Entry(c)'.recently, auditErased'[c], auditEntered'[c], auditor')
<1>0. /\ DOMAIN audits \subseteq AuditClients /\ DOMAIN auditTable \subseteq AuditClients
      /\ auditEntered \in [AuditClients -> Nat] /\ auditTold \in [AuditClients -> Nat]
      /\ auditErased \in [AuditClients -> Nat]
  BY DEF EntriesOK, BytesOK
<1>1. ASSUME NEW c \in AuditClients
      PROVE  /\ auditTold[c] \in Nat /\ InTable(c) \in Nat /\ Entry(c).recently \in Nat
             /\ auditErased[c] \in Nat /\ auditEntered[c] \in Nat
             /\ Known1(c)
  <2>1. Known1(c)
    BY DEF BytesOK, BytesReportedOnce, Known
  <2>2. Entry(c).recently \in Nat /\ InTable(c) \in Nat
    BY DEF EntriesOK, EntryOK, AuditRecord, BytesOK
  <2> QED BY <1>0, <2>1, <2>2
<1>K. ASSUME \A c \in AuditClients : Known2(c)
      PROVE  BytesReportedOnce'
  BY <1>K DEF BytesReportedOnce, Known
<1> HIDE DEF Known1
<1>2. ASSUME NEW c \in AuditClients, AddStatistic(c) PROVE BytesOK'
  <2>1. /\ audits' = WithEntry(c, [Entry(c) EXCEPT !.recently = @ + 1])
        /\ auditEntered' = [auditEntered EXCEPT ![c] = @ + 1]
        /\ auditor' = auditor /\ auditTable' = auditTable
        /\ auditTold' = auditTold /\ auditErased' = auditErased
    BY <1>2 DEF AddStatistic
  <2>2. /\ Entry(c)' = [Entry(c) EXCEPT !.recently = @ + 1]
        /\ \A d \in AuditClients \ {c} : Entry(d)' = Entry(d)
    BY <1>0, <2>1, WithEntryIs
  <2>3. Entry(c)'.recently = Entry(c).recently + 1
    BY <2>2 DEF EntriesOK, EntryOK, AuditRecord
  <2>4. /\ auditEntered' \in [AuditClients -> Nat] /\ auditEntered'[c] = auditEntered[c] + 1
        /\ \A d \in AuditClients \ {c} : auditEntered'[d] = auditEntered[d]
    BY <1>0, <2>1
  <2>5. \A d \in AuditClients : InTable(d)' = InTable(d)
    BY <2>1 DEF InTable
  <2>6. Known2(c)
    <3>1. Known(auditTold[c], InTable(c), Entry(c).recently + 1, auditErased[c], auditEntered[c] + 1, auditor)
      BY <1>1, BytesMove DEF Known1
    <3> QED BY <2>1, <2>3, <2>4, <2>5, <3>1
  <2>7. ASSUME NEW d \in AuditClients \ {c} PROVE Known2(d)
    <3>1. Known1(d) /\ d \in AuditClients
      BY <1>1
    <3> QED BY <2>1, <2>2, <2>4, <2>5, <3>1 DEF Known1
  <2>8. BytesReportedOnce'
    BY <1>K, <2>6, <2>7
  <2> QED BY <1>0, <1>1, <2>1, <2>4, <2>5, <2>8 DEF BytesOK
<1>3. ASSUME NEW c \in AuditClients, NEW l \in Latencies, AddTimingStatistic(c, l) PROVE BytesOK'
  <2>1. /\ audits' = WithEntry(c, Timed(Entry(c), l))
        /\ auditor' = auditor /\ auditTable' = auditTable
        /\ auditTold' = auditTold /\ auditErased' = auditErased /\ auditEntered' = auditEntered
    BY <1>3 DEF AddTimingStatistic, Timed, bytesTold
  <2>2. /\ Entry(c)' = Timed(Entry(c), l)
        /\ \A d \in AuditClients \ {c} : Entry(d)' = Entry(d)
    BY <1>0, <2>1, WithEntryIs
  <2>3. Entry(c)'.recently = Entry(c).recently
    <3>1. Entry(c) \in AuditRecord /\ l \in Int
      BY AuditAssumption DEF EntriesOK, EntryOK
    <3> QED BY <2>2, <3>1, TimedIs
  <2>4. \A d \in AuditClients : InTable(d)' = InTable(d) /\ Entry(d)'.recently = Entry(d).recently
    BY <2>1, <2>2, <2>3 DEF InTable
  <2>5. ASSUME NEW d \in AuditClients PROVE Known2(d)
    <3>1. Known1(d)
      BY <1>1
    <3> QED BY <2>1, <2>4, <3>1 DEF Known1
  <2>6. BytesReportedOnce'
    BY <1>K, <2>5
  <2> QED BY <1>0, <1>1, <2>1, <2>4, <2>6 DEF BytesOK
<1>4. ASSUME NEW c \in AuditClients, RemoveAudit(c) PROVE BytesOK'
  <2>1. /\ c \in DOMAIN audits
        /\ audits' = [d \in DOMAIN audits \ {c} |-> audits[d]]
        /\ auditErased' = [auditErased EXCEPT ![c] = @ + audits[c].recently]
        /\ auditor' = auditor /\ auditTable' = auditTable
        /\ auditTold' = auditTold /\ auditEntered' = auditEntered
    BY <1>4 DEF RemoveAudit
  <2>2. /\ Entry(c) = audits[c] /\ Entry(c)'.recently = 0
        /\ \A d \in AuditClients \ {c} : Entry(d)' = Entry(d)
    BY <2>1 DEF Entry, NewAudit
  <2>3. /\ auditErased'[c] = auditErased[c] + Entry(c).recently
        /\ \A d \in AuditClients \ {c} : auditErased'[d] = auditErased[d]
        /\ auditErased' \in [AuditClients -> Nat]
    <3>1. auditErased[c] + Entry(c).recently \in Nat
      BY <1>1
    <3> QED BY <1>0, <2>1, <2>2, <3>1
  <2>4. \A d \in AuditClients : InTable(d)' = InTable(d)
    BY <2>1 DEF InTable
  <2>5. Known2(c)
    <3>1. Known(auditTold[c], InTable(c), 0, auditErased[c] + Entry(c).recently, auditEntered[c], auditor)
      BY <1>1, BytesMove DEF Known1
    <3> QED BY <2>1, <2>2, <2>3, <2>4, <3>1
  <2>6. ASSUME NEW d \in AuditClients \ {c} PROVE Known2(d)
    <3>1. Known1(d) /\ d \in AuditClients
      BY <1>1
    <3> QED BY <2>1, <2>2, <2>3, <2>4, <3>1 DEF Known1
  <2>7. BytesReportedOnce'
    BY <1>K, <2>5, <2>6
  <2> QED BY <1>0, <1>1, <2>1, <2>3, <2>4, <2>7 DEF BytesOK
<1>5. ASSUME ComposeReport PROVE BytesOK'
  <2>1. /\ auditor = "waits" /\ auditor' = "sends"
        /\ auditTable' = [c \in DOMAIN audits |-> audits[c].recently]
        /\ audits' = [c \in DOMAIN audits |-> ClearRecents(audits[c])]
        /\ auditTold' = auditTold /\ auditErased' = auditErased /\ auditEntered' = auditEntered
    BY <1>5 DEF ComposeReport, bytesTold
  <2>2. auditTable = <<>>
    BY <2>1 DEF BytesOK
  <2>3. \A c \in AuditClients : InTable(c) = 0
    BY <2>2 DEF InTable
  <2>4. ASSUME NEW c \in AuditClients
        PROVE  InTable(c)' = Entry(c).recently /\ Entry(c)'.recently = 0
    <3>1. CASE c \in DOMAIN audits
      <4>1. Entry(c) = audits[c] /\ Entry(c) \in AuditRecord
        BY <3>1 DEF Entry, EntriesOK, EntryOK
      <4>2. Entry(c)' = ClearRecents(audits[c]) /\ InTable(c)' = audits[c].recently
        BY <2>1, <3>1 DEF Entry, InTable
      <4> QED BY <4>1, <4>2 DEF ClearRecents, AuditRecord
    <3>2. CASE c \notin DOMAIN audits
      <4>1. Entry(c) = NewAudit /\ Entry(c)' = NewAudit /\ InTable(c)' = 0
        BY <2>1, <3>2 DEF Entry, InTable
      <4> QED BY <4>1 DEF NewAudit
    <3> QED BY <3>1, <3>2
  <2>5. ASSUME NEW c \in AuditClients PROVE Known2(c)
    <3>1. Known(auditTold[c], Entry(c).recently, 0, auditErased[c], auditEntered[c], "sends")
      <4>1. auditor # "gave up" /\ InTable(c) = 0
        BY <2>1, <2>3
      <4>2. auditTold[c] + InTable(c) + Entry(c).recently + auditErased[c] = auditEntered[c]
        BY <1>1, <4>1 DEF Known1, Known
      <4> QED BY <1>1, <4>1, <4>2, BytesTaken
    <3> QED BY <2>1, <2>4, <3>1
  <2>6. BytesReportedOnce'
    BY <1>K, <2>5
  <2>7. \A c \in AuditClients : InTable(c)' \in Nat
    BY <1>1, <2>4
  <2>8. DOMAIN auditTable' \subseteq AuditClients
    BY <1>0, <2>1
  <2> QED BY <1>0, <2>1, <2>6, <2>7, <2>8 DEF BytesOK
<1>6. ASSUME NEW rs \in SUBSET DOMAIN auditTable, SendRows(rs), auditTable' = <<>>,
             auditor' = "gave up" \/ (auditor' = "waits" /\ rs = DOMAIN auditTable)
      PROVE  BytesOK'
  <2>1. /\ auditor = "sends"
        /\ auditTold' = [c \in AuditClients |-> IF c \in rs THEN auditTold[c] + InTable(c) ELSE auditTold[c]]
        /\ audits' = audits /\ auditErased' = auditErased /\ auditEntered' = auditEntered
    BY <1>6 DEF SendRows
  <2>2. DOMAIN auditTable' = {} /\ \A c \in AuditClients : InTable(c)' = 0 /\ Entry(c)' = Entry(c)
    <3>1. DOMAIN auditTable' = {}
      <4>1. auditTable' = <<>>
        BY <1>6
      <4> QED BY <4>1
    <3> QED BY <2>1, <3>1 DEF InTable, Entry
  <2>3. ASSUME NEW c \in AuditClients
        PROVE  auditTold'[c] \in Nat /\ Known2(c)
    <3>1. /\ Known(auditTold[c] + InTable(c), 0, Entry(c).recently, auditErased[c], auditEntered[c], "waits")
          /\ Known(auditTold[c] + InTable(c), 0, Entry(c).recently, auditErased[c], auditEntered[c], "gave up")
          /\ Known(auditTold[c], 0, Entry(c).recently, auditErased[c], auditEntered[c], "gave up")
          /\ auditTold[c] + InTable(c) \in Nat /\ auditTold[c] \in Nat
      <4>1. auditor # "gave up"
        BY <2>1
      <4>2. auditTold[c] + InTable(c) \in Nat /\ auditTold[c] \in Nat
        BY <1>1
      <4>3. Known(auditTold[c] + InTable(c), 0, Entry(c).recently, auditErased[c], auditEntered[c], "waits")
        <5>1. auditTold[c] + InTable(c) + Entry(c).recently + auditErased[c] = auditEntered[c]
          BY <1>1, <4>1 DEF Known1, Known
        <5> QED BY <1>1, <5>1, BytesTaken
      <4>4. /\ Known(auditTold[c] + InTable(c), 0, Entry(c).recently, auditErased[c], auditEntered[c], "gave up")
            /\ Known(auditTold[c], 0, Entry(c).recently, auditErased[c], auditEntered[c], "gave up")
        BY <1>1, BytesMove DEF Known1
      <4> QED BY <4>1, <4>2, <4>3, <4>4
    <3>2. auditor' = "gave up" \/ (auditor' = "waits" /\ rs = DOMAIN auditTable)
      BY <1>6
    <3>3. CASE c \in rs
      <4>1. auditTold'[c] = auditTold[c] + InTable(c)
        BY <2>1, <3>3
      <4> QED BY <2>1, <2>2, <3>1, <3>2, <4>1
    <3>4. CASE c \notin rs
      <4>1. auditTold'[c] = auditTold[c]
        BY <2>1, <3>4
      <4>2. CASE auditor' = "gave up"
        BY <2>1, <2>2, <3>1, <4>1, <4>2
      <4>3. CASE auditor' = "waits" /\ rs = DOMAIN auditTable
        <5>1. InTable(c) = 0
          BY <3>4, <4>3 DEF InTable
        <5>2. auditTold[c] + InTable(c) = auditTold[c]
          BY <1>1, <5>1
        <5> QED BY <2>1, <2>2, <3>1, <4>1, <4>3, <5>2
      <4> QED BY <3>2, <4>2, <4>3
    <3> QED BY <3>3, <3>4
  <2>4. BytesReportedOnce'
    BY <1>K, <2>3
  <2>5. auditor' = "waits" => auditTable' = <<>>
    BY <1>6
  <2>6. /\ auditTold' \in [AuditClients -> Nat] /\ auditEntered' \in [AuditClients -> Nat]
        /\ auditErased' \in [AuditClients -> Nat]
        /\ \A c \in AuditClients : InTable(c)' \in Nat
        /\ DOMAIN auditTable' \subseteq AuditClients
    BY <1>0, <2>1, <2>2, <2>3
  <2> QED BY <2>4, <2>5, <2>6 DEF BytesOK
<1>7. ASSUME UNCHANGED <<audits, auditor, auditTable, bytesTold>> PROVE BytesOK'
  BY <1>7 DEF BytesOK, BytesReportedOnce, InTable, Entry, bytesTold
<1>8. ASSUME SendReport PROVE BytesOK'
  <2>1. SendRows(DOMAIN auditTable) /\ auditor' = "waits" /\ auditTable' = <<>>
    BY <1>8 DEF SendReport
  <2> QED BY <1>6, <2>1
<1>9. ASSUME NEW rs \in SUBSET DOMAIN auditTable, SendFails(rs) PROVE BytesOK'
  <2>1. SendRows(rs) /\ auditor' = "gave up" /\ auditTable' = <<>>
    BY <1>9 DEF SendFails
  <2>2. auditor' = "gave up" \/ (auditor' = "waits" /\ rs = DOMAIN auditTable)
    BY <2>1, Zenon
  <2> QED BY <1>6, <2>1, <2>2, Zenon
<1> QED
  BY <1>2, <1>3, <1>4, <1>5, <1>7, <1>8, <1>9
     DEF AuditNext, UpdateQoSVar, ProcessClientCommsStatusSummary, AddForAudit, TakeRecords, TransmitRecord

\* Appending to the end of a concatenation.
LEMMA ConcatAppend ==
    ASSUME NEW s \in Seq(Int), NEW u \in Seq(Int), NEW x \in Int
    PROVE  s \o Append(u, x) = Append(s \o u, x)
<1> DEFINE l == s \o Append(u, x)
           r == Append(s \o u, x)
<1>1. /\ l \in Seq(Int) /\ r \in Seq(Int)
      /\ Len(l) = Len(s) + Len(u) + 1 /\ Len(r) = Len(l)
  OBVIOUS
<1>2. \A i \in 1 .. Len(l) : l[i] = r[i]
  OBVIOUS
<1> HIDE DEF l, r
<1>3. l = r
  BY <1>1, <1>2, SeqEqual
<1> QED BY <1>3 DEF l, r

\* EndToEndAudit keeps its records in the order they were made.
LEMMA RecordsStep ==
    ASSUME RecordsOK, AuditNext
    PROVE  RecordsOK'
<1> DEFINE all == multicast \o sending \o delays
<1>1. /\ multicast \in Seq(Int) /\ sending \in Seq(Int) /\ delays \in Seq(Int)
      /\ \A i \in 1 .. Len(all) : all[i] = i
  BY DEF RecordsOK, RecordsSentOnce
<1>2. ASSUME AddForAudit PROVE RecordsOK'
  <2>1. /\ delays' = Append(delays, Len(multicast) + Len(sending) + Len(delays) + 1)
        /\ UNCHANGED <<multicast, sending>>
    BY <1>2 DEF AddForAudit
  <2>2. Len(multicast) + Len(sending) + Len(delays) = Len(all)
    BY <1>1
  <2> DEFINE front == multicast \o sending
             new == Len(all) + 1
  <2>3. all' = Append(all, Len(all) + 1) /\ all \in Seq(Int)
    <3>1. front \in Seq(Int) /\ all \in Seq(Int)
      BY <1>1
    <3>2. new \in Int /\ delays' = Append(delays, new)
      BY <2>1, <2>2, <3>1
    <3>3. front' = front
      BY <2>1
    <3>4. \A s, u \in Seq(Int), x \in Int : s \o Append(u, x) = Append(s \o u, x)
      BY ConcatAppend
    <3> HIDE DEF new
    <3>5. all' = front \o Append(delays, new)
      BY <3>2, <3>3
    <3> HIDE DEF front
    <3>6. front \o Append(delays, new) = Append(front \o delays, new)
      BY <1>1, <3>1, <3>2, <3>4
    <3> QED BY <3>1, <3>5, <3>6 DEF front, new
  <2>4. delays' \in Seq(Int)
    BY <1>1, <2>1
  <2> HIDE DEF all
  <2>5. \A i \in 1 .. Len(all') : all'[i] = i
    BY <1>1, <2>3
  <2> QED BY <1>1, <2>1, <2>4, <2>5 DEF RecordsOK, RecordsSentOnce, all
<1>3. ASSUME TakeRecords PROVE RecordsOK'
  <2>1. sending = <<>> /\ sending' = delays /\ delays' = <<>> /\ multicast' = multicast
    BY <1>3 DEF TakeRecords, Swapped
  <2>2. all' = all
    BY <1>1, <2>1
  <2> HIDE DEF all
  <2>3. \A i \in 1 .. Len(all') : all'[i] = i
    BY <1>1, <2>2
  <2> QED BY <1>1, <2>1, <2>3 DEF RecordsOK, RecordsSentOnce, all
<1>4. ASSUME TransmitRecord PROVE RecordsOK'
  <2>1. /\ sending # <<>> /\ multicast' = Append(multicast, Head(sending)) /\ sending' = Tail(sending)
        /\ delays' = delays
    BY <1>4 DEF TransmitRecord
  <2>2. multicast' \in Seq(Int) /\ sending' \in Seq(Int)
    BY <1>1, <2>1
  <2>3. multicast' \o sending' = multicast \o sending
    BY <1>1, <2>1
  <2>4. all' = all
    BY <2>1, <2>3
  <2> HIDE DEF all
  <2>5. \A i \in 1 .. Len(all') : all'[i] = i
    BY <1>1, <2>4
  <2> QED BY <1>1, <2>1, <2>2, <2>5 DEF RecordsOK, RecordsSentOnce, all
<1>5. ASSUME UNCHANGED <<multicast, sending, delays>> PROVE RecordsOK'
  BY <1>5 DEF RecordsOK, RecordsSentOnce
<1> QED
  BY <1>2, <1>3, <1>4, <1>5
     DEF AuditNext, AddStatistic, AddTimingStatistic, RemoveAudit, ComposeReport, SendReport, SendFails, SendRows,
         UpdateQoSVar, ProcessClientCommsStatusSummary

\* The invariant says what is promised.
LEMMA AuditInvImplies == AuditInv => AuditIsTrue
<1> SUFFICES ASSUME AuditInv PROVE AuditIsTrue
  OBVIOUS
<1>0. ASSUME NEW c \in DOMAIN audits PROVE c \in AuditClients /\ EntryOK(audits[c], auditSeen[c])
  BY <1>0 DEF AuditInv, EntriesOK, Entry
<1>1. AverageWithinExtremes
  <2> SUFFICES ASSUME NEW c \in DOMAIN audits
               PROVE  LET a == audits[c]
                          seen == ToSet(auditSeen[c])
                      IN  /\ \A l \in seen : a.min <= l /\ l <= a.max
                          /\ seen # {} => a.min \in seen /\ a.max \in seen \cup {0}
                          /\ a.n >= Window => Window * a.min <= a.avg /\ a.avg <= Window * a.max
    BY DEF AverageWithinExtremes
  <2> DEFINE a == audits[c]
             s == auditSeen[c]
  <2>1. a \in AuditRecord /\ s \in Seq(Int) /\ ExtremesOK(a, s) /\ SumOK(a)
    BY <1>0 DEF EntryOK
  <2> HIDE DEF a, s
  <2>2. DOMAIN s = 1 .. Len(s) /\ Len(s) \in Nat /\ ToSet(s) = {s[i] : i \in DOMAIN s}
    BY <2>1 DEF ToSet
  <2>3. \A l \in ToSet(s) : a.min <= l /\ l <= a.max
    BY <2>1, <2>2 DEF ExtremesOK
  <2>4. ToSet(s) # {} => a.min \in ToSet(s) /\ a.max \in ToSet(s) \cup {0}
    <3> SUFFICES ASSUME ToSet(s) # {}
                 PROVE  a.min \in ToSet(s) /\ a.max \in ToSet(s) \cup {0}
      OBVIOUS
    <3>1. Len(s) # 0
      BY <2>2
    <3>2. /\ \E i \in 1 .. Len(s) : a.min = s[i]
          /\ a.max = 0 \/ \E i \in 1 .. Len(s) : a.max = s[i]
      BY <2>1, <3>1 DEF ExtremesOK
    <3> HIDE <2>1
    <3>3. a.min \in ToSet(s)
      BY <2>2, <3>2
    <3>4. a.max \in ToSet(s) \cup {0}
      BY <2>2, <3>2
    <3> QED BY <3>3, <3>4
  <2>5. a.n >= Window => Window * a.min <= a.avg /\ a.avg <= Window * a.max
    <3> SUFFICES ASSUME a.n >= Window PROVE Window * a.min <= a.avg /\ a.avg <= Window * a.max
      OBVIOUS
    <3>1. /\ a.n \in Nat /\ a.min \in Int /\ a.max \in Int /\ a.sum \in Int /\ a.recent \in Int
          /\ Window \in Nat /\ Window # 0
      BY <2>1, AuditAssumption DEF AuditRecord
    <3>2. /\ a.min <= a.recent /\ a.recent <= a.max /\ a.avg = a.sum
          /\ (Window - 1) * a.min <= a.sum - a.recent /\ a.sum - a.recent <= (Window - 1) * a.max
      BY <2>1, <3>1 DEF SumOK
    <3>3. \A x \in Int : (Window - 1) * x \in Int /\ Window * x = (Window - 1) * x + x
      BY <3>1
    <3>4. \A p, q, x, y \in Int : p <= q - x /\ y <= x => p + y <= q
      OBVIOUS
    <3>5. \A p, q, x, y \in Int : q - x <= p /\ x <= y => q <= p + y
      OBVIOUS
    <3>6. (Window - 1) * a.min + a.min <= a.sum
      BY <3>1, <3>2, <3>3, <3>4
    <3>7. a.sum <= (Window - 1) * a.max + a.max
      BY <3>1, <3>2, <3>3, <3>5
    <3> QED BY <3>1, <3>2, <3>3, <3>6, <3>7
  <2> QED BY <2>3, <2>4, <2>5 DEF a, s
<1> QED BY <1>1 DEF AuditIsTrue, AuditInv, BytesOK, RecordsOK

\* AuditTellsTheTruth: the averages the database publishes lie between the extremes it publishes
\* with them, no byte is told twice and none is lost but with the entry of a removed client or
\* the report that could not be sent, and every record is multicast once and in order, for any
\* number of clients, any window and any latencies (ServerAudit, EndToEndAudit).
THEOREM AuditTellsTheTruth == AuditSpec => []AuditIsTrue
<1>1. AuditInit => AuditInv
  <2> SUFFICES ASSUME AuditInit PROVE AuditInv
    OBVIOUS
  <2>1. \A c \in AuditClients : Entry(c) = NewAudit /\ auditSeen[c] = <<>>
    BY DEF AuditInit, Entry
  <2>2. \A c \in AuditClients : EntryOK(Entry(c), auditSeen[c])
    BY <2>1, NewAuditOK
  <2>3. EntriesOK
    BY <2>1, <2>2 DEF AuditInit, EntriesOK
  <2>4. BytesOK
    BY <2>1 DEF AuditInit, BytesOK, BytesReportedOnce, InTable, NewAudit
  <2>5. RecordsOK
    BY DEF AuditInit, RecordsOK, RecordsSentOnce
  <2> QED BY <2>3, <2>4, <2>5 DEF AuditInv
<1>2. AuditInv /\ AuditNext => AuditInv'
  BY EntriesStep, BytesStep, RecordsStep DEF AuditInv
<1>3. AuditInv /\ UNCHANGED auditVars => AuditInv'
  <2> SUFFICES ASSUME AuditInv, UNCHANGED auditVars PROVE AuditInv'
    OBVIOUS
  <2>1. UNCHANGED <<audits, auditor, auditTable, auditSeen, auditEntered, auditTold, auditErased, multicast, sending, delays>>
    BY DEF auditVars, bytesTold
  <2>2. EntriesOK'
    BY <2>1 DEF AuditInv, EntriesOK, Entry, EntryOK, ExtremesOK, SumOK
  <2>3. RecordsOK'
    BY <2>1 DEF AuditInv, RecordsOK, RecordsSentOnce
  <2>4. BytesOK'
    BY <2>1 DEF AuditInv, BytesOK, BytesReportedOnce, InTable, Entry
  <2> QED BY <2>2, <2>3, <2>4 DEF AuditInv
<1> QED BY <1>1, <1>2, <1>3, AuditInvImplies, PTL DEF AuditSpec

-----------------------------------------------------------------------------
(* The envelopes of the skew filter                                        *)

Pts  == [x : Int, y : Int]
Segs == [p1 : Pts, p2 : Pts, period : Int]

\* Both envelopes at once: seen from below, what is below is above.
Run(s) == s.p2.x - s.p1.x
Lift(p, q, above) == IF above THEN q.y - p.y ELSE p.y - q.y
Rise(s, above) == Lift(s.p1, s.p2, above)

\* The line of s is on the right side of q; t bends away from s.
OnSide(s, q, above) == Lift(s.p1, q, above) * Run(s) <= Rise(s, above) * (q.x - s.p1.x)
Bends(s, t, above) == Rise(t, above) * Run(s) < Rise(s, above) * Run(t)

\* Two lines from one point: to the right the steeper one is the higher.
LEMMA SteeperIsHigher ==
    ASSUME NEW a \in Int, NEW b \in Int, NEW c \in Int, NEW d \in Int, NEW u \in Int, NEW v \in Int,
           a > 0, c > 0, u >= 0, b * c <= d * a, v * a <= b * u
    PROVE  v * c <= d * u
<1>1. (v * a) * c <= (b * u) * c
  OBVIOUS
<1>2. (b * c) * u <= (d * a) * u
  OBVIOUS
<1>3. (v * c) * a <= (d * u) * a
  <2>1. (v * c) * a = (v * a) * c /\ (b * u) * c = (b * c) * u /\ (d * u) * a = (d * a) * u
    OBVIOUS
  <2>2. (v * a) * c \in Int /\ (b * u) * c \in Int /\ (d * a) * u \in Int
    OBVIOUS
  <2> QED BY <1>1, <1>2, <2>1, <2>2
<1> DEFINE x == v * c
           y == d * u
<1>4. x \in Int /\ y \in Int /\ x * a <= y * a
  BY <1>3
<1> HIDE DEF x, y
<1>5. x <= y
  BY <1>4
<1> QED BY <1>5 DEF x, y

LEMMA BendsOn ==
    ASSUME NEW a \in Int, NEW b \in Int, NEW c \in Int, NEW d \in Int, NEW u \in Int, NEW v \in Int,
           a > 0, c > 0, u > 0, d * a < b * c, v * c < d * u
    PROVE  v * a < b * u
<1>1. (d * a) * u < (b * c) * u
  OBVIOUS
<1>2. (v * c) * a < (d * u) * a
  OBVIOUS
<1>3. (v * a) * c < (b * u) * c
  <2>1. (v * a) * c = (v * c) * a /\ (d * u) * a = (d * a) * u /\ (b * u) * c = (b * c) * u
    OBVIOUS
  <2>2. (v * c) * a \in Int /\ (d * u) * a \in Int /\ (b * c) * u \in Int
    OBVIOUS
  <2> QED BY <1>1, <1>2, <2>1, <2>2
<1> DEFINE x == v * a
           y == b * u
<1>4. x \in Int /\ y \in Int /\ x * c < y * c
  BY <1>3
<1> HIDE DEF x, y
<1>5. x < y
  BY <1>4
<1> QED BY <1>5 DEF x, y

LEMMA SegFacts ==
    ASSUME NEW s \in Segs, NEW above \in BOOLEAN
    PROVE  /\ s.p1 \in Pts /\ s.p2 \in Pts /\ s.period \in Int /\ s.p1.x \in Int /\ s.p2.x \in Int
           /\ Run(s) \in Int /\ Rise(s, above) \in Int /\ Run(s) = s.p2.x - s.p1.x
           /\ OnSide(s, s.p1, above) /\ OnSide(s, s.p2, above)
<1>1. s.p1 \in Pts /\ s.p2 \in Pts /\ s.period \in Int /\ s.p1.x \in Int /\ s.p2.x \in Int /\ s.p1.y \in Int /\ s.p2.y \in Int
  BY DEF Segs, Pts
<1>2. Run(s) \in Int /\ Rise(s, above) \in Int
  BY <1>1 DEF Run, Rise, Lift
<1>3. OnSide(s, s.p1, above)
  <2>1. Lift(s.p1, s.p1, above) = 0
    BY <1>1 DEF Lift
  <2>2. s.p1.x - s.p1.x = 0 /\ 0 * Run(s) = 0 /\ Rise(s, above) * 0 = 0
    BY <1>1, <1>2
  <2> QED BY <2>1, <2>2 DEF OnSide
<1>4. OnSide(s, s.p2, above)
  <2>1. Lift(s.p1, s.p2, above) * Run(s) = Rise(s, above) * (s.p2.x - s.p1.x) /\ Rise(s, above) * Run(s) \in Int
    BY <1>2 DEF Rise, Run
  <2> QED BY <1>2, <2>1 DEF OnSide, Run
<1> QED BY <1>1, <1>2, <1>3, <1>4 DEF Run

LEMMA LiftType ==
    ASSUME NEW p \in Pts, NEW q \in Pts, NEW above \in BOOLEAN
    PROVE  Lift(p, q, above) \in Int /\ p.x \in Int /\ q.x \in Int
  BY DEF Lift, Pts

LEMMA LiftFacts ==
    ASSUME NEW p \in Pts, NEW q \in Pts, NEW r \in Pts, NEW above \in BOOLEAN
    PROVE  /\ Lift(p, q, above) \in Int /\ p.x \in Int /\ q.x \in Int
           /\ Lift(p, r, above) = Lift(p, q, above) + Lift(q, r, above)
  BY DEF Lift, Pts

\* The line may be looked at from either end of its segment.
LEMMA FromTheEnd ==
    ASSUME NEW s \in Segs, NEW q \in Pts, NEW above \in BOOLEAN
    PROVE  OnSide(s, q, above) <=> Lift(s.p2, q, above) * Run(s) <= Rise(s, above) * (q.x - s.p2.x)
<1> DEFINE a == Run(s)
           b == Rise(s, above)
           u == q.x - s.p1.x
           w == q.x - s.p2.x
           v == Lift(s.p2, q, above)
           z == Lift(s.p1, q, above)
<1>1. s.p1 \in Pts /\ s.p2 \in Pts /\ a \in Int /\ b \in Int /\ a = s.p2.x - s.p1.x
  BY SegFacts
<1>2. z = b + v /\ v \in Int /\ q.x \in Int /\ s.p1.x \in Int /\ s.p2.x \in Int
  BY <1>1, LiftFacts DEF Rise
<1>3. u = a + w /\ w \in Int
  BY <1>1, <1>2
<1>4. OnSide(s, q, above) <=> z * a <= b * u
  BY DEF OnSide
<1> HIDE DEF a, b, u, v, w, z
<1>5. z * a = b * a + v * a /\ b * u = b * a + b * w
  BY <1>1, <1>2, <1>3
<1> DEFINE i == b * a
           j == v * a
           k == b * w
<1>6. i \in Int /\ j \in Int /\ k \in Int
  BY <1>1, <1>2, <1>3
<1>7. z * a = i + j /\ b * u = i + k
  BY <1>5
<1> HIDE DEF i, j, k
<1>8. z * a <= b * u <=> j <= k
  BY <1>6, <1>7
<1> QED BY <1>4, <1>8 DEF a, b, v, w, j, k

\* To the left of where t bends away from s, what is under s is under t.
LEMMA LeftOfTheBend ==
    ASSUME NEW s \in Segs, NEW t \in Segs, NEW q \in Pts, NEW above \in BOOLEAN, Run(s) > 0, Run(t) > 0,
           s.p2 = t.p1, Bends(s, t, above), q.x <= t.p1.x, OnSide(s, q, above)
    PROVE  OnSide(t, q, above)
<1> DEFINE a == Run(s)
           b == Rise(s, above)
           c == Run(t)
           d == Rise(t, above)
           u == t.p1.x - q.x
           v == Lift(t.p1, q, above)
<1>1. a \in Int /\ b \in Int /\ c \in Int /\ d \in Int /\ t.p1 \in Pts /\ a > 0 /\ c > 0
  BY SegFacts
<1>2. v \in Int /\ u \in Int /\ u >= 0 /\ q.x - t.p1.x = -u
  <2>1. v \in Int /\ q.x \in Int /\ t.p1.x \in Int
    BY <1>1, LiftType
  <2> QED BY <2>1
<1>3. v * a <= b * (q.x - t.p1.x)
  BY FromTheEnd
<1>4. d * a < b * c
  BY DEF Bends
<1>5. OnSide(t, q, above) <=> v * c <= d * (q.x - t.p1.x)
  BY DEF OnSide
<1> HIDE DEF a, b, c, d, u, v
<1>6. v * a <= (-b) * u
  <2>1. b * (-u) = (-b) * u
    BY <1>1, <1>2
  <2> QED BY <1>2, <1>3, <2>1
<1>7. (-b) * c <= (-d) * a
  <2>1. (-b) * c = -(b * c) /\ (-d) * a = -(d * a) /\ b * c \in Int /\ d * a \in Int
    BY <1>1
  <2> QED BY <1>4, <2>1
<1>8. -b \in Int /\ -d \in Int
  BY <1>1
<1>9. v * c <= (-d) * u
  BY <1>1, <1>2, <1>6, <1>7, <1>8, SteeperIsHigher
<1>10. (-d) * u = d * (-u)
  BY <1>1, <1>2
<1> QED BY <1>2, <1>5, <1>9, <1>10

\* Merging lifts the line: what was under s, and is not before it, is under the merged segment.
LEMMA MergedIsHigher ==
    ASSUME NEW s \in Segs, NEW t \in Segs, NEW m \in Segs, NEW q \in Pts, NEW above \in BOOLEAN,
           Run(s) > 0, Run(t) > 0, s.p2 = t.p1, m.p1 = s.p1, m.p2 = t.p2,
           ~ Bends(s, t, above), q.x >= s.p1.x, OnSide(s, q, above)
    PROVE  OnSide(m, q, above)
<1> DEFINE a == Run(s)
           b == Rise(s, above)
           c == Run(t)
           d == Rise(t, above)
           u == q.x - s.p1.x
           v == Lift(s.p1, q, above)
<1>1. a \in Int /\ b \in Int /\ c \in Int /\ d \in Int /\ a > 0 /\ c > 0
  BY SegFacts
<1>2. s.p1 \in Pts /\ t.p1 \in Pts /\ t.p2 \in Pts /\ s.p1.x \in Int /\ t.p1.x \in Int /\ t.p2.x \in Int
  BY SegFacts
<1>3. v \in Int /\ u \in Int /\ u >= 0
  <2>1. v \in Int /\ q.x \in Int /\ s.p1.x \in Int
    BY <1>2, LiftType
  <2> QED BY <2>1
<1>4. Rise(m, above) = b + d /\ Run(m) = a + c
  <2>1. Lift(s.p1, t.p2, above) = Lift(s.p1, t.p1, above) + Lift(t.p1, t.p2, above)
    BY <1>2, LiftFacts
  <2>2. t.p2.x - s.p1.x = (t.p1.x - s.p1.x) + (t.p2.x - t.p1.x)
    BY <1>2
  <2> QED BY <2>1, <2>2 DEF Rise, Run
<1>5. v * a <= b * u
  BY DEF OnSide
<1>6. ~ (d * a < b * c)
  BY DEF Bends
<1>7. OnSide(m, q, above) <=> v * (a + c) <= (b + d) * u
  BY <1>4 DEF OnSide
<1> HIDE DEF a, b, c, d, u, v
<1>8. b * (a + c) <= (b + d) * a
  <2>1. b * (a + c) = b * a + b * c /\ (b + d) * a = b * a + d * a
    BY <1>1
  <2>2. b * a \in Int /\ b * c \in Int /\ d * a \in Int
    BY <1>1
  <2> QED BY <1>6, <2>1, <2>2
<1>9. a + c \in Int /\ a + c > 0 /\ b + d \in Int
  BY <1>1
<1>10. v * (a + c) <= (b + d) * u
  BY <1>1, <1>3, <1>5, <1>8, <1>9, SteeperIsHigher
<1> QED BY <1>7, <1>10

\* A line from which t bends away has the end of t on its side too.
LEMMA BeyondTheBend ==
    ASSUME NEW s \in Segs, NEW t \in Segs, NEW above \in BOOLEAN, Run(s) > 0, Run(t) > 0,
           Bends(s, t, above), OnSide(s, t.p1, above)
    PROVE  OnSide(s, t.p2, above)
<1> DEFINE a == Run(s)
           b == Rise(s, above)
           c == Run(t)
           d == Rise(t, above)
           u == t.p1.x - s.p1.x
           v == Lift(s.p1, t.p1, above)
<1>1. a \in Int /\ b \in Int /\ c \in Int /\ d \in Int
  BY SegFacts
<1>2. s.p1 \in Pts /\ t.p1 \in Pts /\ t.p2 \in Pts /\ s.p1.x \in Int /\ t.p1.x \in Int /\ t.p2.x \in Int
  BY SegFacts
<1>3. v \in Int /\ u \in Int /\ t.p2.x - s.p1.x = u + c /\ Lift(s.p1, t.p2, above) = v + d
  <2>1. v \in Int
    BY <1>2, LiftType
  <2>2. Lift(s.p1, t.p2, above) = v + d
    BY <1>2, LiftFacts DEF Rise
  <2>3. u \in Int /\ t.p2.x - s.p1.x = u + c
    BY <1>2 DEF Run
  <2> QED BY <2>1, <2>2, <2>3
<1>4. v * a <= b * u /\ d * a < b * c
  BY DEF OnSide, Bends
<1>5. OnSide(s, t.p2, above) <=> (v + d) * a <= b * (u + c)
  BY <1>3 DEF OnSide
<1> HIDE DEF a, b, c, d, u, v
<1>6. (v + d) * a = v * a + d * a /\ b * (u + c) = b * u + b * c
  BY <1>1, <1>3
<1>7. v * a \in Int /\ d * a \in Int /\ b * u \in Int /\ b * c \in Int
  BY <1>1, <1>3
<1> QED BY <1>4, <1>5, <1>6, <1>7

LEMMA BendsFurther ==
    ASSUME NEW r \in Segs, NEW s \in Segs, NEW t \in Segs, NEW above \in BOOLEAN,
           Run(r) > 0, Run(s) > 0, Run(t) > 0, Bends(r, s, above), Bends(s, t, above)
    PROVE  Bends(r, t, above)
<1> DEFINE a == Run(r)
           b == Rise(r, above)
           c == Run(s)
           d == Rise(s, above)
           u == Run(t)
           v == Rise(t, above)
<1>1. /\ a \in Int /\ b \in Int /\ c \in Int /\ d \in Int /\ u \in Int /\ v \in Int
      /\ a > 0 /\ c > 0 /\ u > 0
  BY SegFacts
<1>2. d * a < b * c /\ v * c < d * u
  BY DEF Bends
<1>3. Bends(r, t, above) <=> v * a < b * u
  BY DEF Bends
<1> HIDE DEF a, b, c, d, u, v
<1> QED BY <1>1, <1>2, <1>3, BendsOn

\* Where the k-th segment ends: where the next begins, or at the last point.
End(e, k) == IF k < Len(e.segs) THEN e.segs[k + 1].p1 ELSE e.init

Envelopes == [segs : Seq(Segs), have : BOOLEAN, init : Pts, longest : Nat, len : Int, meas : Int]

\* e stands for the points of pts, none of which is later than now.
LastPoint(e, pts, now) ==
    /\ e.init \in pts /\ e.init.x <= now
    /\ \A q \in pts : q.x < e.init.x \/ q = e.init

Chained(e, pts) ==
    \A i \in 1 .. Len(e.segs) :
        /\ e.segs[i].p1 \in pts /\ e.segs[i].p2 = End(e, i)
        /\ Run(e.segs[i]) > 0 /\ e.segs[i].period > 0

Bent(e, above) ==
    \A i, j \in 1 .. Len(e.segs) :
        i < j => e.segs[i].p1.x < e.segs[j].p1.x /\ Bends(e.segs[i], e.segs[j], above)

Bounding(e, pts, above) ==
    \A i \in 1 .. Len(e.segs) : \A q \in pts : q.x >= e.segs[1].p1.x => OnSide(e.segs[i], q, above)

Indexed(e) == Len(e.segs) > 0 => e.longest < Len(e.segs)

EnvelopeOK(e, pts, above, now) ==
    /\ e \in Envelopes /\ pts \in SUBSET Pts
    /\ IF e.have THEN LastPoint(e, pts, now) ELSE e.segs = <<>>
    /\ Chained(e, pts) /\ Bent(e, above) /\ Bounding(e, pts, above) /\ Indexed(e)

LEMMA AppendSegIs ==
    ASSUME NEW e \in Envelopes, NEW s \in Segs
    PROVE  /\ AppendSeg(e, s) \in Envelopes /\ AppendSeg(e, s).segs = Append(e.segs, s)
           /\ AppendSeg(e, s).have = e.have /\ AppendSeg(e, s).init = e.init
           /\ AppendSeg(e, s).meas = e.meas /\ AppendSeg(e, s).longest < Len(e.segs) + 1
<1> DEFINE n == Len(e.segs)
           q == Append(e.segs, s)
           f == [e EXCEPT !.segs = q]
           g == AppendSeg(e, s)
<1>1. q \in Seq(Segs) /\ Len(q) = n + 1 /\ n \in Nat
  BY DEF Envelopes
<1>2. f \in Envelopes /\ f.segs = q /\ f.have = e.have /\ f.init = e.init /\ f.longest = e.longest /\ f.meas = e.meas
  <2> HIDE DEF q
  <2> QED BY <1>1 DEF Envelopes
<1>3. s.period \in Int
  BY DEF Segs
<1>4. \/ g = [f EXCEPT !.longest = 0, !.len = s.period]
      \/ g = [f EXCEPT !.longest = Len(f.segs) - 1, !.len = s.period]
      \/ g = f /\ HasLongest(f)
  BY DEF AppendSeg
<1> HIDE DEF q, f, g, n
<1>5. CASE g = [f EXCEPT !.longest = 0, !.len = s.period]
  <2>1. /\ g \in Envelopes /\ g.segs = q /\ g.have = e.have /\ g.init = e.init /\ g.meas = e.meas
        /\ g.longest = 0
    BY <1>2, <1>3, <1>5 DEF Envelopes
  <2> QED BY <1>1, <2>1 DEF q, g, n
<1>6. CASE g = [f EXCEPT !.longest = Len(f.segs) - 1, !.len = s.period]
  <2>1. g = [f EXCEPT !.longest = n, !.len = s.period]
    <3>1. Len(f.segs) - 1 = n
      BY <1>1, <1>2
    <3> QED BY <1>6, <3>1
  <2>2. /\ g \in Envelopes /\ g.segs = q /\ g.have = e.have /\ g.init = e.init /\ g.meas = e.meas
        /\ g.longest = n
    BY <1>1, <1>2, <1>3, <2>1 DEF Envelopes
  <2> QED BY <1>1, <2>2 DEF q, g, n
<1>7. CASE g = f /\ HasLongest(f)
  <2>1. f.longest < n + 1
    BY <1>1, <1>2, <1>7 DEF HasLongest
  <2> QED BY <1>2, <1>7, <2>1 DEF q, g, n
<1> QED BY <1>4, <1>5, <1>6, <1>7

MergedSeg(e) ==
    [MakeSeg(e.segs[Len(e.segs) - 1].p1, e.segs[Len(e.segs)].p2)
       EXCEPT !.period = e.segs[Len(e.segs) - 1].period + e.segs[Len(e.segs)].period]

LEMMA MergeLastSegIs ==
    ASSUME NEW e \in Envelopes, Len(e.segs) > 1, e.longest < Len(e.segs),
           \A i \in 1 .. Len(e.segs) : e.segs[i].period > 0
    PROVE  /\ MergeLastSeg(e) \in Envelopes /\ MergedSeg(e) \in Segs
           /\ MergeLastSeg(e).segs = Append(SubSeq(e.segs, 1, Len(e.segs) - 2), MergedSeg(e))
           /\ MergedSeg(e).p1 = e.segs[Len(e.segs) - 1].p1 /\ MergedSeg(e).p2 = e.segs[Len(e.segs)].p2
           /\ MergedSeg(e).period > 0
           /\ MergeLastSeg(e).have = e.have /\ MergeLastSeg(e).init = e.init /\ MergeLastSeg(e).meas = e.meas
           /\ MergeLastSeg(e).longest < Len(e.segs) - 1
<1> DEFINE n == Len(e.segs)
           s == e.segs[n - 1]
           t == e.segs[n]
           m == MergedSeg(e)
           q == Append(SubSeq(e.segs, 1, n - 2), m)
           l == IF e.longest >= n - 1 THEN 0 ELSE e.len
           f == [e EXCEPT !.segs = q, !.len = l]
           g == MergeLastSeg(e)
<1>1. e.segs \in Seq(Segs) /\ n \in Nat /\ n > 1 /\ e.longest \in Nat /\ e.len \in Int
  BY DEF Envelopes
<1>2. s \in Segs /\ t \in Segs /\ s.period > 0 /\ t.period > 0
  <2>1. n - 1 \in 1 .. Len(e.segs) /\ n \in 1 .. Len(e.segs)
    BY <1>1
  <2> HIDE DEF n
  <2> QED BY <1>1, <2>1
<1>3. m \in Segs /\ m.p1 = s.p1 /\ m.p2 = t.p2 /\ m.period = s.period + t.period /\ m.period > 0
  <2>1. m = [MakeSeg(s.p1, t.p2) EXCEPT !.period = s.period + t.period]
    BY DEF MergedSeg
  <2>2. s.p1 \in Pts /\ t.p2 \in Pts /\ s.period \in Int /\ t.period \in Int
    BY <1>2 DEF Segs
  <2> HIDE DEF s, t, m
  <2> QED BY <1>2, <2>1, <2>2 DEF MakeSeg, Segs
<1>4. q \in Seq(Segs) /\ Len(q) = n - 1
  <2>1. SubSeq(e.segs, 1, n - 2) \in Seq(Segs) /\ Len(SubSeq(e.segs, 1, n - 2)) = n - 2
    <3>1. n - 2 \in 0 .. Len(e.segs)
      BY <1>1
    <3> HIDE DEF n
    <3> QED BY <1>1, <3>1
  <2> HIDE DEF m, n
  <2> QED BY <1>1, <1>3, <2>1
<1>5. /\ f \in Envelopes /\ f.segs = q /\ f.have = e.have /\ f.init = e.init /\ f.longest = e.longest
      /\ f.meas = e.meas /\ f.len = l /\ l \in Int
  <2>1. l \in Int
    BY <1>1
  <2> HIDE DEF q, l
  <2> QED BY <1>4, <2>1 DEF Envelopes
<1>6. g = IF m.period > l THEN [f EXCEPT !.longest = Len(f.segs) - 1, !.len = m.period] ELSE f
  BY DEF MergeLastSeg, MergeTwo, MergedSeg, Last
<1> HIDE DEF q, f, g, m, l
<1>7. CASE m.period > l
  <2>1. g = [f EXCEPT !.longest = Len(f.segs) - 1, !.len = m.period] /\ Len(f.segs) - 1 = n - 2
    <3>1. Len(f.segs) = n - 1
      BY <1>4, <1>5
    <3> HIDE DEF n
    <3>2. Len(f.segs) - 1 = n - 2
      BY <1>1, <3>1
    <3> QED BY <1>6, <1>7, <3>2
  <2>2. m.period \in Int /\ n - 2 \in Nat
    BY <1>1, <1>3 DEF Segs
  <2>3. /\ g \in Envelopes /\ g.segs = q /\ g.have = e.have /\ g.init = e.init /\ g.meas = e.meas
        /\ g.longest = n - 2
    <3> HIDE DEF n
    <3> QED BY <1>5, <2>1, <2>2 DEF Envelopes
  <2> QED BY <1>1, <1>3, <2>3 DEF q, m, g
<1>8. CASE ~ (m.period > l)
  <2>1. g = f
    BY <1>6, <1>8
  <2>2. e.longest < n - 1
    BY <1>1, <1>3, <1>8 DEF l
  <2> QED BY <1>3, <1>5, <2>1, <2>2 DEF q, m, g
<1> QED BY <1>7, <1>8

LEMMA CanMergeIs ==
    ASSUME NEW e \in Envelopes, NEW above \in BOOLEAN
    PROVE  CanMerge(e, above) <=>
             Len(e.segs) > 1 /\ ~ Bends(e.segs[Len(e.segs) - 1], e.segs[Len(e.segs)], above)
<1> SUFFICES ASSUME Len(e.segs) > 1
             PROVE  CanMerge(e, above) <=> ~ Bends(e.segs[Len(e.segs) - 1], e.segs[Len(e.segs)], above)
  BY DEF CanMerge
<1> DEFINE s == e.segs[Len(e.segs) - 1]
           t == e.segs[Len(e.segs)]
           a == s.p2.x - s.p1.x
           b == s.p2.y - s.p1.y
           c == t.p2.x - t.p1.x
           d == t.p2.y - t.p1.y
<1>1. CanMerge(e, above) <=> IF above THEN ~ (d * a < b * c) ELSE ~ (b * c < d * a)
  BY DEF CanMerge, Flatter, Last
<1>2. s \in Segs /\ t \in Segs
  <2>1. Len(e.segs) - 1 \in 1 .. Len(e.segs) /\ Len(e.segs) \in 1 .. Len(e.segs) /\ e.segs \in Seq(Segs)
    BY DEF Envelopes
  <2> QED BY <2>1
<1> HIDE DEF s, t
<1>3. a \in Int /\ b \in Int /\ c \in Int /\ d \in Int
  BY <1>2 DEF Segs, Pts
<1>4. /\ Run(s) = a /\ Run(t) = c
      /\ Rise(s, above) = IF above THEN b ELSE -b
      /\ Rise(t, above) = IF above THEN d ELSE -d
  <2>1. /\ s.p1.x \in Int /\ s.p2.x \in Int /\ s.p1.y \in Int /\ s.p2.y \in Int
        /\ t.p1.x \in Int /\ t.p2.x \in Int /\ t.p1.y \in Int /\ t.p2.y \in Int
    BY <1>2 DEF Segs, Pts
  <2> QED BY <2>1 DEF Run, Rise, Lift
<1> HIDE DEF a, b, c, d
<1>5. d * a \in Int /\ b * c \in Int /\ (-d) * a = -(d * a) /\ (-b) * c = -(b * c)
  BY <1>3
<1>6. Bends(s, t, above) <=> IF above THEN d * a < b * c ELSE b * c < d * a
  <2>1. CASE above
    BY <1>4, <2>1 DEF Bends
  <2>2. CASE ~ above
    <3>1. Bends(s, t, above) <=> (-d) * a < (-b) * c
      BY <1>4, <2>2 DEF Bends
    <3> DEFINE i == d * a
               j == b * c
    <3>2. i \in Int /\ j \in Int /\ (Bends(s, t, above) <=> -i < -j)
      BY <1>5, <3>1
    <3> HIDE DEF i, j
    <3>3. Bends(s, t, above) <=> j < i
      BY <3>2
    <3> QED BY <2>2, <3>3 DEF i, j
  <2> QED BY <2>1, <2>2
<1> QED BY <1>1, <1>6 DEF s, t

ChainIs(e, pts) ==
    /\ e \in Envelopes /\ e.segs \in Seq(Segs) /\ Len(e.segs) \in Nat /\ pts \subseteq Pts
    /\ \A i \in 1 .. Len(e.segs) :
          /\ e.segs[i] \in Segs /\ e.segs[i].p1 \in pts /\ e.segs[i].p2 = End(e, i)
          /\ Run(e.segs[i]) > 0 /\ e.segs[i].period > 0

\* The segments of an envelope, and where they end.
LEMMA ChainFacts ==
    ASSUME NEW e, NEW pts, NEW above \in BOOLEAN, NEW now, EnvelopeOK(e, pts, above, now)
    PROVE  /\ ChainIs(e, pts)
           /\ e.have => \A k \in 0 .. Len(e.segs) : End(e, k) \in pts
           /\ e.have => \A i \in 1 .. Len(e.segs) : \A k \in i .. Len(e.segs) : e.segs[i].p1.x < End(e, k).x
<1>1. e \in Envelopes /\ e.segs \in Seq(Segs) /\ Len(e.segs) \in Nat /\ pts \subseteq Pts
  BY DEF EnvelopeOK, Envelopes
<1>2. \A i \in 1 .. Len(e.segs) :
         /\ e.segs[i] \in Segs /\ e.segs[i].p1 \in pts /\ e.segs[i].p2 = End(e, i)
         /\ Run(e.segs[i]) > 0 /\ e.segs[i].period > 0
  BY <1>1 DEF EnvelopeOK, Chained
<1>3. ASSUME e.have, NEW k \in 0 .. Len(e.segs) PROVE End(e, k) \in pts
  <2>1. CASE k < Len(e.segs)
    <3>1. k + 1 \in 1 .. Len(e.segs)
      BY <1>1, <2>1
    <3> QED BY <1>2, <2>1, <3>1 DEF End
  <2>2. CASE ~ (k < Len(e.segs))
    BY <1>3, <2>2 DEF End, EnvelopeOK, LastPoint
  <2> QED BY <2>1, <2>2
<1>4. ASSUME e.have, NEW i \in 1 .. Len(e.segs), NEW k \in i .. Len(e.segs)
      PROVE  e.segs[i].p1.x < End(e, k).x
  <2>1. CASE k < Len(e.segs)
    <3>1. k + 1 \in 1 .. Len(e.segs) /\ i < k + 1
      BY <1>1, <2>1
    <3>2. e.segs[i].p1.x < e.segs[k + 1].p1.x
      BY <3>1 DEF EnvelopeOK, Bent
    <3> QED BY <2>1, <3>2 DEF End
  <2>2. CASE ~ (k < Len(e.segs))
    <3>1. End(e, k) = e.init
      BY <2>2 DEF End
    <3> DEFINE s == e.segs[i]
    <3>2. s \in Segs /\ Run(s) > 0 /\ s.p2 = End(e, i)
      BY <1>2
    <3>3. s.p2 \in pts
      BY <1>1, <1>3, <1>4, <3>2
    <3>4. s.p2.x < e.init.x \/ s.p2 = e.init
      BY <1>4, <3>3 DEF EnvelopeOK, LastPoint
    <3> HIDE DEF s
    <3>5. s.p1.x \in Int /\ s.p2.x \in Int /\ e.init.x \in Int /\ s.p1.x < s.p2.x
      <4>1. e.init \in Pts
        BY <1>1 DEF Envelopes
      <4>2. s.p1.x \in Int /\ s.p2.x \in Int /\ e.init.x \in Int
        BY <3>2, <4>1 DEF Segs, Pts
      <4> QED BY <3>2, <4>2 DEF Run
    <3>6. s.p1.x < e.init.x
      BY <3>4, <3>5
    <3> QED BY <3>1, <3>6 DEF s
  <2> QED BY <1>1, <2>1, <2>2
<1> QED BY <1>1, <1>2, <1>3, <1>4 DEF ChainIs

\* f: segments that e had, and one that leads to the new point p.
LastLeg(t, a, p, pts, above) ==
    /\ t \in Segs /\ t.p1 = a /\ t.p2 = p /\ Run(t) > 0 /\ t.period > 0
    /\ \A q \in pts \cup {p} : q.x >= a.x => OnSide(t, q, above)

Merging(f, e, pts, p, above) ==
    /\ f \in Envelopes /\ f.have = e.have /\ Len(f.segs) \in 1 .. (Len(e.segs) + 1)
    /\ f.longest < Len(f.segs)
    /\ \A i \in 1 .. (Len(f.segs) - 1) : f.segs[i] = e.segs[i]
    /\ LastLeg(f.segs[Len(f.segs)], End(e, Len(f.segs) - 1), p, pts, above)

LEMMA MergingStarts ==
    ASSUME NEW e, NEW pts, NEW above \in BOOLEAN, NEW now, EnvelopeOK(e, pts, above, now),
           e.have, NEW p \in Pts, p.x > e.init.x
    PROVE  /\ Merging(AppendSeg(e, MakeSeg(e.init, p)), e, pts, p, above)
           /\ Len(AppendSeg(e, MakeSeg(e.init, p)).segs) = Len(e.segs) + 1
<1> DEFINE n == Len(e.segs)
           t == MakeSeg(e.init, p)
           f == AppendSeg(e, t)
<1>1. e \in Envelopes /\ e.segs \in Seq(Segs) /\ n \in Nat /\ pts \subseteq Pts
  BY DEF EnvelopeOK, Envelopes
<1>2. e.init \in Pts /\ e.init.x \in Int /\ p.x \in Int
  <2>1. e.init \in Pts
    BY <1>1 DEF Envelopes
  <2> QED BY <2>1 DEF Pts
<1>3. t \in Segs /\ t.p1 = e.init /\ t.p2 = p /\ t.period = p.x - e.init.x /\ Run(t) = p.x - e.init.x
  BY <1>2 DEF MakeSeg, Segs, Run
<1> HIDE DEF t
<1>4. /\ f \in Envelopes /\ f.segs = Append(e.segs, t) /\ f.have = e.have /\ f.longest < n + 1
  BY <1>1, <1>3, AppendSegIs
<1> HIDE DEF f
<1>5. Len(f.segs) = n + 1 /\ f.segs[n + 1] = t /\ \A i \in 1 .. n : f.segs[i] = e.segs[i]
  BY <1>1, <1>3, <1>4
<1>6. LastLeg(t, e.init, p, pts, above)
  <2>1. Run(t) > 0 /\ t.period > 0
    BY <1>2, <1>3
  <2>2. ASSUME NEW q \in pts \cup {p}, q.x >= e.init.x PROVE OnSide(t, q, above)
    <3>1. q = p \/ q = e.init
      <4>1. CASE q \in pts
        <5>1. q.x < e.init.x \/ q = e.init
          BY <4>1 DEF EnvelopeOK, LastPoint
        <5>2. q.x \in Int
          BY <1>1, <4>1 DEF Pts
        <5> QED BY <1>2, <2>2, <5>1, <5>2
      <4> QED BY <4>1
    <3>2. OnSide(t, t.p1, above) /\ OnSide(t, t.p2, above)
      BY <1>3, SegFacts
    <3> QED BY <1>3, <3>1, <3>2
  <2> QED BY <1>3, <2>1, <2>2 DEF LastLeg
<1>7. End(e, n) = e.init
  BY <1>1 DEF End
<1>8. Merging(f, e, pts, p, above)
  <2>1. n + 1 \in 1 .. (Len(e.segs) + 1) /\ (n + 1) - 1 = n
    BY <1>1
  <2> HIDE DEF n
  <2> QED BY <1>4, <1>5, <1>6, <1>7, <2>1 DEF Merging
<1> QED BY <1>5, <1>8 DEF f, t

LEMMA MergingGoesOn ==
    ASSUME NEW e, NEW pts, NEW above \in BOOLEAN, NEW now, EnvelopeOK(e, pts, above, now), NEW p \in Pts,
           NEW f, Merging(f, e, pts, p, above), CanMerge(f, above)
    PROVE  Merging(MergeLastSeg(f), e, pts, p, above) /\ Len(MergeLastSeg(f).segs) = Len(f.segs) - 1
<1> DEFINE n == Len(f.segs)
           s == f.segs[n - 1]
           t == f.segs[n]
           m == MergedSeg(f)
           g == MergeLastSeg(f)
           q == SubSeq(f.segs, 1, n - 2)
<1>1. /\ f \in Envelopes /\ f.segs \in Seq(Segs) /\ n \in 1 .. (Len(e.segs) + 1) /\ n \in Nat
      /\ f.have = e.have /\ f.longest < n
      /\ \A i \in 1 .. (n - 1) : f.segs[i] = e.segs[i]
      /\ LastLeg(t, End(e, n - 1), p, pts, above)
  BY DEF Merging, Envelopes
<1>2. n > 1 /\ ~ Bends(s, t, above)
  BY <1>1, CanMergeIs
<1>3. /\ pts \subseteq Pts /\ Len(e.segs) \in Nat
      /\ \A i \in 1 .. Len(e.segs) :
            /\ e.segs[i] \in Segs /\ e.segs[i].p1 \in pts /\ e.segs[i].p2 = End(e, i)
            /\ Run(e.segs[i]) > 0 /\ e.segs[i].period > 0
  <2>1. ChainIs(e, pts)
    BY ChainFacts
  <2> QED BY <2>1 DEF ChainIs
<1>4. /\ s = e.segs[n - 1] /\ s \in Segs /\ s.p1 \in pts /\ s.p2 = End(e, n - 1)
      /\ Run(s) > 0 /\ s.period > 0 /\ n - 1 \in 1 .. Len(e.segs)
  <2>1. n - 1 \in 1 .. Len(e.segs) /\ n - 1 \in 1 .. (n - 1)
    BY <1>1, <1>2, <1>3
  <2> HIDE DEF n
  <2> QED BY <1>1, <1>3, <2>1
<1>5. /\ t \in Segs /\ t.p1 = End(e, n - 1) /\ t.p2 = p /\ Run(t) > 0 /\ t.period > 0
  BY <1>1 DEF LastLeg
<1>6. \A i \in 1 .. n : f.segs[i].period > 0
  <2> SUFFICES ASSUME NEW i \in 1 .. n PROVE f.segs[i].period > 0
    OBVIOUS
  <2>1. CASE i = n
    BY <1>5, <2>1
  <2>2. CASE i # n
    <3>1. i \in 1 .. (n - 1) /\ i \in 1 .. Len(e.segs)
      BY <1>1, <1>3, <2>2
    <3> HIDE DEF n
    <3> QED BY <1>1, <1>3, <3>1
  <2> QED BY <2>1, <2>2
<1>7. /\ g \in Envelopes /\ m \in Segs /\ g.segs = Append(q, m)
      /\ m.p1 = s.p1 /\ m.p2 = t.p2 /\ m.period > 0
      /\ g.have = f.have /\ g.longest < n - 1
  BY <1>1, <1>2, <1>6, MergeLastSegIs
<1>8. q \in Seq(Segs) /\ Len(q) = n - 2 /\ \A i \in 1 .. (n - 2) : q[i] = f.segs[i]
  <2>1. n - 2 \in 0 .. Len(f.segs)
    BY <1>1, <1>2
  <2> HIDE DEF n
  <2> QED BY <1>1, <2>1
<1> HIDE DEF s, t, m, g, q
<1>9. Len(g.segs) = n - 1 /\ g.segs[n - 1] = m /\ \A i \in 1 .. (n - 2) : g.segs[i] = e.segs[i]
  <2> HIDE DEF n
  <2> DEFINE a == Append(q, m)
  <2>1. Len(a) = n - 1 /\ a[n - 1] = m /\ \A i \in 1 .. (n - 2) : a[i] = q[i]
    <3>1. Len(q) + 1 = n - 1
      BY <1>1, <1>8
    <3>2. Len(a) = Len(q) + 1 /\ a[Len(q) + 1] = m /\ \A i \in 1 .. Len(q) : a[i] = q[i]
      BY <1>7, <1>8
    <3> HIDE DEF a
    <3> QED BY <1>8, <3>1, <3>2
  <2>2. \A i \in 1 .. (n - 2) : i \in 1 .. (n - 1)
    BY <1>1
  <2> HIDE DEF a
  <2>3. \A i \in 1 .. (n - 2) : a[i] = e.segs[i]
    BY <1>1, <1>8, <2>1, <2>2
  <2>4. g.segs = a
    BY <1>7 DEF a
  <2> QED BY <2>1, <2>3, <2>4
<1>10. End(e, n - 2) = s.p1
  <2>1. n - 2 < Len(e.segs) /\ (n - 2) + 1 = n - 1
    BY <1>1, <1>3
  <2> HIDE DEF n
  <2> QED BY <1>4, <2>1 DEF End
<1>11. ASSUME NEW r \in pts, r.x >= s.p1.x PROVE OnSide(m, r, above)
  <2>1. r.x \in Int /\ s.p1.x \in Int /\ e.segs[1].p1.x \in Int /\ e.segs[1].p1.x <= s.p1.x
    <3>1. 1 \in 1 .. Len(e.segs)
      BY <1>3, <1>4
    <3>2. e.segs[1] \in Segs
      BY <1>3, <3>1
    <3>3. r.x \in Int /\ s.p1.x \in Int /\ e.segs[1].p1.x \in Int
      BY <1>3, <1>4, <3>2, SegFacts DEF Pts
    <3> HIDE DEF n
    <3>4. CASE n - 1 = 1
      BY <1>4, <3>3, <3>4
    <3>5. CASE n - 1 # 1
      <4>1. 1 < n - 1
        BY <1>1, <1>2, <3>5
      <4>2. e.segs[1].p1.x < s.p1.x
        BY <1>4, <3>1, <4>1 DEF EnvelopeOK, Bent
      <4> QED BY <3>3, <4>2
    <3> QED BY <3>3, <3>4, <3>5
  <2>2. r.x >= e.segs[1].p1.x
    BY <1>11, <2>1
  <2>3. OnSide(s, r, above)
    <3> HIDE DEF n
    <3> QED BY <1>4, <2>2 DEF EnvelopeOK, Bounding
  <2>4. r \in Pts
    BY <1>3
  <2> QED BY <1>2, <1>4, <1>5, <1>7, <1>11, <2>3, <2>4, MergedIsHigher
<1>12. LastLeg(m, s.p1, p, pts, above)
  <2>1. Run(m) > 0
    <3>1. Run(m) = Run(s) + Run(t)
      <4>1. s.p1.x \in Int /\ s.p2.x \in Int /\ t.p2.x \in Int /\ s.p2 = t.p1
        BY <1>4, <1>5, SegFacts
      <4> QED BY <1>7, <4>1 DEF Run
    <3>2. Run(s) \in Int /\ Run(t) \in Int
      BY <1>4, <1>5, SegFacts
    <3> QED BY <1>4, <1>5, <3>1, <3>2
  <2>2. OnSide(m, p, above)
    <3>1. OnSide(m, m.p2, above)
      BY <1>7, SegFacts
    <3> QED BY <1>5, <1>7, <3>1
  <2> QED BY <1>5, <1>7, <1>11, <2>1, <2>2 DEF LastLeg
<1>13. Merging(g, e, pts, p, above)
  <2>1. Len(g.segs) \in 1 .. (Len(e.segs) + 1) /\ Len(g.segs) - 1 = n - 2
    BY <1>1, <1>2, <1>3, <1>9
  <2>2. g.have = e.have /\ g.longest < Len(g.segs) /\ g.segs[Len(g.segs)] = m
    BY <1>1, <1>7, <1>9
  <2> HIDE DEF n
  <2> QED BY <1>7, <1>9, <1>10, <1>12, <2>1, <2>2 DEF Merging
<1> QED BY <1>9, <1>13 DEF g

LEMMA MergingEnds ==
    ASSUME NEW e, NEW pts, NEW above \in BOOLEAN, NEW now, EnvelopeOK(e, pts, above, now), e.have,
           NEW p \in Pts, p.x > e.init.x,
           NEW f, Merging(f, e, pts, p, above), ~ CanMerge(f, above)
    PROVE  EnvelopeOK([f EXCEPT !.init = p, !.meas = @ + 1], pts \cup {p}, above, p.x)
<1> DEFINE n == Len(f.segs)
           t == f.segs[n]
           g == [f EXCEPT !.init = p, !.meas = @ + 1]
<1>1. /\ f \in Envelopes /\ f.segs \in Seq(Segs) /\ n \in 1 .. (Len(e.segs) + 1) /\ n \in Nat
      /\ f.have = e.have /\ f.longest < n
      /\ \A i \in 1 .. (n - 1) : f.segs[i] = e.segs[i]
      /\ LastLeg(t, End(e, n - 1), p, pts, above)
  BY DEF Merging, Envelopes
<1>2. n > 1 => Bends(f.segs[n - 1], t, above)
  BY <1>1, CanMergeIs
<1>3. ChainIs(e, pts)
  BY ChainFacts
<1>4. /\ pts \subseteq Pts /\ Len(e.segs) \in Nat
      /\ \A i \in 1 .. Len(e.segs) :
            /\ e.segs[i] \in Segs /\ e.segs[i].p1 \in pts /\ e.segs[i].p2 = End(e, i)
            /\ Run(e.segs[i]) > 0 /\ e.segs[i].period > 0
  BY <1>3 DEF ChainIs
<1>5. /\ \A k \in 0 .. Len(e.segs) : End(e, k) \in pts
      /\ \A i \in 1 .. Len(e.segs) : \A k \in i .. Len(e.segs) : e.segs[i].p1.x < End(e, k).x
  BY ChainFacts
<1>6. /\ t \in Segs /\ t.p1 = End(e, n - 1) /\ t.p2 = p /\ Run(t) > 0 /\ t.period > 0
      /\ \A q \in pts \cup {p} : q.x >= t.p1.x => OnSide(t, q, above)
  BY <1>1 DEF LastLeg
<1>7. /\ g \in Envelopes /\ g.segs = f.segs /\ g.have = f.have /\ g.init = p /\ g.longest = f.longest
  <2>1. f.meas + 1 \in Int /\ g = [f EXCEPT !.init = p, !.meas = f.meas + 1]
    BY <1>1 DEF Envelopes
  <2> HIDE DEF g, n, t
  <2> QED BY <1>1, <2>1 DEF Envelopes
<1> HIDE DEF t, g, n
<1>8. /\ n - 1 \in 0 .. Len(e.segs)
      /\ \A i \in 1 .. (n - 1) : i \in 1 .. Len(e.segs) /\ n - 1 \in i .. Len(e.segs)
  BY <1>1, <1>4
<1>9. /\ Len(g.segs) = n /\ g.segs[n] = t /\ n \in 1 .. n
      /\ \A i \in 1 .. n : i = n \/ (i \in 1 .. (n - 1) /\ g.segs[i] = e.segs[i])
  BY <1>1, <1>7 DEF n, t
<1>10. e.init \in Pts /\ e.init.x \in Int /\ p.x \in Int /\ \A q \in pts : q.x \in Int
  BY <1>4 DEF EnvelopeOK, Envelopes, Pts
<1>11. LastPoint(g, pts \cup {p}, p.x)
  <2>1. \A q \in pts : q.x < e.init.x \/ q = e.init
    BY DEF EnvelopeOK, LastPoint
  <2>2. \A q \in pts : q.x < p.x
    BY <1>10, <2>1
  <2> QED BY <1>7, <1>10, <2>2 DEF LastPoint
<1>12. Chained(g, pts \cup {p})
  <2> SUFFICES ASSUME NEW i \in 1 .. n
               PROVE  /\ g.segs[i].p1 \in pts \cup {p} /\ g.segs[i].p2 = End(g, i)
                      /\ Run(g.segs[i]) > 0 /\ g.segs[i].period > 0
    BY <1>9 DEF Chained
  <2>1. CASE i = n
    <3>1. t.p1 \in pts
      BY <1>5, <1>6, <1>8
    <3>2. End(g, n) = p
      BY <1>1, <1>7, <1>9 DEF End
    <3> QED BY <1>6, <1>9, <2>1, <3>1, <3>2
  <2>2. CASE i \in 1 .. (n - 1) /\ g.segs[i] = e.segs[i]
    <3>1. End(g, i) = g.segs[i + 1].p1
      BY <1>1, <1>9, <2>2 DEF End
    <3>2. End(g, i) = End(e, i)
      <4>1. CASE i = n - 1
        <5>1. i + 1 = n
          BY <1>1, <4>1
        <5> QED BY <1>6, <1>9, <3>1, <4>1, <5>1
      <4>2. CASE i # n - 1
        <5>1. i + 1 \in 1 .. (n - 1) /\ i + 1 \in 1 .. n /\ i + 1 # n /\ i < Len(e.segs)
          BY <1>1, <1>8, <2>2, <4>2
        <5> QED BY <1>9, <3>1, <5>1 DEF End
      <4> QED BY <4>1, <4>2
    <3> QED BY <1>4, <1>8, <2>2, <3>2
  <2> QED BY <1>9, <2>1, <2>2
<1>13. \A i \in 1 .. (n - 1) : Bends(e.segs[i], t, above)
  <2> SUFFICES ASSUME NEW i \in 1 .. (n - 1) PROVE Bends(e.segs[i], t, above)
    OBVIOUS
  <2>1. n - 1 \in 1 .. (n - 1) /\ n > 1 /\ n - 1 \in 1 .. Len(e.segs) /\ i \in 1 .. Len(e.segs)
    BY <1>1, <1>8
  <2>2. Bends(e.segs[n - 1], t, above)
    BY <1>1, <1>2, <2>1
  <2>3. CASE i = n - 1
    BY <2>2, <2>3
  <2>4. CASE i # n - 1
    <3>1. i < n - 1
      BY <1>1, <2>4
    <3>2. Bends(e.segs[i], e.segs[n - 1], above)
      BY <2>1, <3>1 DEF EnvelopeOK, Bent
    <3>3. /\ e.segs[i] \in Segs /\ Run(e.segs[i]) > 0
          /\ e.segs[n - 1] \in Segs /\ Run(e.segs[n - 1]) > 0
      BY <1>4, <2>1
    <3> QED BY <1>6, <2>2, <3>2, <3>3, BendsFurther
  <2> QED BY <2>3, <2>4
<1>14. Bent(g, above)
  <2> SUFFICES ASSUME NEW i \in 1 .. n, NEW j \in 1 .. n, i < j
               PROVE  g.segs[i].p1.x < g.segs[j].p1.x /\ Bends(g.segs[i], g.segs[j], above)
    BY <1>9 DEF Bent
  <2>1. i \in 1 .. (n - 1) /\ g.segs[i] = e.segs[i] /\ i \in 1 .. Len(e.segs)
    BY <1>1, <1>8, <1>9
  <2>2. CASE j = n
    <3>1. e.segs[i].p1.x < End(e, n - 1).x
      BY <1>5, <1>8, <2>1
    <3> QED BY <1>6, <1>9, <1>13, <2>1, <2>2, <3>1
  <2>3. CASE j \in 1 .. (n - 1) /\ g.segs[j] = e.segs[j]
    <3>1. j \in 1 .. Len(e.segs)
      BY <1>8, <2>3
    <3> QED BY <2>1, <2>3, <3>1 DEF EnvelopeOK, Bent
  <2> QED BY <1>9, <2>2, <2>3
<1>15. Bounding(g, pts \cup {p}, above)
  <2> SUFFICES ASSUME NEW i \in 1 .. n, NEW r \in pts \cup {p}, r.x >= g.segs[1].p1.x
               PROVE  OnSide(g.segs[i], r, above)
    BY <1>9 DEF Bounding
  <2>1. CASE n = 1
    <3>1. g.segs[1] = t /\ i = 1
      BY <1>9, <2>1
    <3> QED BY <1>6, <3>1
  <2>2. CASE n # 1
    <3>1. 1 \in 1 .. (n - 1) /\ 1 \in 1 .. n /\ 1 # n /\ n - 1 \in 1 .. (n - 1) /\ n > 1
      BY <1>1, <2>2
    <3>2. g.segs[1] = e.segs[1]
      BY <1>9, <3>1
    <3>3. ASSUME NEW j \in 1 .. (n - 1), NEW q \in pts, q.x >= e.segs[1].p1.x
          PROVE  OnSide(e.segs[j], q, above)
      <4>1. j \in 1 .. Len(e.segs)
        BY <1>8
      <4> QED BY <3>3, <4>1 DEF EnvelopeOK, Bounding
    <3>4. /\ t.p1 \in pts /\ t.p1.x >= e.segs[1].p1.x /\ t.p1.x \in Int /\ t.p1.x < p.x
      <4>1. t.p1 \in pts
        BY <1>5, <1>6, <1>8
      <4>2. e.segs[1].p1.x < t.p1.x
        <5>1. 1 \in 1 .. Len(e.segs) /\ n - 1 \in 1 .. Len(e.segs)
          BY <1>8, <3>1
        <5> QED BY <1>5, <1>6, <5>1
      <4>3. t.p1.x \in Int /\ e.segs[1].p1.x \in Int
        <5>1. e.segs[1].p1 \in pts
          BY <1>4, <1>8, <3>1
        <5> QED BY <1>10, <4>1, <5>1
      <4>4. t.p1.x < p.x
        BY <1>6, <1>10, <4>3 DEF Run
      <4> QED BY <4>1, <4>2, <4>3, <4>4
    <3>5. CASE i = n
      <4>1. CASE r.x >= t.p1.x
        BY <1>6, <1>9, <3>5, <4>1
      <4>2. CASE ~ (r.x >= t.p1.x)
        <5>1. r \in pts /\ r \in Pts /\ r.x \in Int
          BY <1>4, <1>10, <3>4, <4>2
        <5>2. OnSide(e.segs[n - 1], r, above)
          BY <3>1, <3>2, <3>3, <5>1
        <5>3. /\ e.segs[n - 1] \in Segs /\ Run(e.segs[n - 1]) > 0 /\ e.segs[n - 1].p2 = t.p1
          BY <1>4, <1>6, <1>8, <3>1
        <5>4. Bends(e.segs[n - 1], t, above) /\ r.x <= t.p1.x
          BY <1>13, <3>1, <3>4, <4>2, <5>1
        <5>5. OnSide(t, r, above)
          BY <1>6, <5>1, <5>2, <5>3, <5>4, LeftOfTheBend
        <5> QED BY <1>9, <3>5, <5>5
      <4> QED BY <4>1, <4>2
    <3>6. CASE i \in 1 .. (n - 1) /\ g.segs[i] = e.segs[i]
      <4>1. CASE r \in pts
        BY <3>2, <3>3, <3>6, <4>1
      <4>2. CASE r = p
        <5>1. OnSide(e.segs[i], t.p1, above)
          BY <3>3, <3>4, <3>6
        <5>2. e.segs[i] \in Segs /\ Run(e.segs[i]) > 0 /\ Bends(e.segs[i], t, above)
          BY <1>4, <1>8, <1>13, <3>6
        <5>3. OnSide(e.segs[i], t.p2, above)
          BY <1>6, <5>1, <5>2, BeyondTheBend
        <5> QED BY <1>6, <3>6, <4>2, <5>3
      <4> QED BY <4>1, <4>2
    <3> QED BY <1>9, <3>5, <3>6
  <2> QED BY <2>1, <2>2
<1>16. Indexed(g)
  BY <1>1, <1>7, <1>9 DEF Indexed
<1>17. g \in Envelopes /\ pts \cup {p} \in SUBSET Pts /\ g.have
  BY <1>1, <1>4, <1>7
<1>18. EnvelopeOK(g, pts \cup {p}, above, p.x)
  BY <1>11, <1>12, <1>14, <1>15, <1>16, <1>17 DEF EnvelopeOK
<1> QED BY <1>18 DEF g

\* A set of numbers that has 0, and the successor of each of its members, has them all.
LEMMA NatSetInduction ==
    ASSUME NEW S, 0 \in S, \A n \in Nat : n \in S => n + 1 \in S
    PROVE  Nat \subseteq S
<1> DEFINE T == Nat \ S
<1> SUFFICES ASSUME T # {} PROVE FALSE
  OBVIOUS
<1>1. IsWellFoundedOn(OpToRel(<, Nat), Nat)
  BY NatLessThanWellFounded
<1>2. \E x \in T : \A y \in T : ~ (<<y, x>> \in OpToRel(<, Nat))
  <2> HIDE DEF T
  <2>1. T \subseteq Nat
    BY DEF T
  <2> QED BY <1>1, <2>1, WFMin
<1>3. PICK x \in T : \A y \in T : ~ (<<y, x>> \in OpToRel(<, Nat))
  BY <1>2
<1>4. \A y \in T : ~ (y < x)
  BY <1>3 DEF OpToRel
<1>5. x # 0 /\ x - 1 \in Nat
  OBVIOUS
<1>6. x - 1 \in S
  BY <1>4, <1>5
<1> QED BY <1>5, <1>6

\* What the loop of MergeAll makes of an envelope, merge by merge.
Merged(f, above) == IF CanMerge(f, above) THEN MergeLastSeg(f) ELSE f
Merges(g, e, above, n) == g = [k \in 0 .. n |-> IF k = 0 THEN e ELSE Merged(g[k - 1], above)]

LEMMA MergesExist ==
    ASSUME NEW e, NEW above, NEW n \in Nat
    PROVE  \E g : Merges(g, e, above, n)
<1> DEFINE S == {j \in Nat : \E g : Merges(g, e, above, j)}
<1>1. 0 \in S
  <2>1. Merges([k \in 0 .. 0 |-> e], e, above, 0)
    BY DEF Merges
  <2> QED BY <2>1
<1>2. ASSUME NEW j \in Nat, j \in S PROVE j + 1 \in S
  <2>1. PICK g : Merges(g, e, above, j)
    BY <1>2
  <2> DEFINE h == [k \in 0 .. (j + 1) |-> IF k = j + 1 THEN Merged(g[j], above) ELSE g[k]]
  <2>2. \A k \in 0 .. j : g[k] = IF k = 0 THEN e ELSE Merged(g[k - 1], above)
    BY <2>1 DEF Merges
  <2>3. ASSUME NEW k \in 0 .. (j + 1)
        PROVE  h[k] = IF k = 0 THEN e ELSE Merged(h[k - 1], above)
    <3>1. \A i \in 0 .. j : h[i] = g[i]
      OBVIOUS
    <3>2. h[j + 1] = Merged(g[j], above)
      OBVIOUS
    <3> HIDE DEF h
    <3>3. CASE k \in 0 .. j
      <4>1. k # 0 => k - 1 \in 0 .. j
        BY <3>3
      <4> QED BY <2>2, <3>1, <3>3, <4>1
    <3>4. CASE k = j + 1
      <4>1. k # 0 /\ k - 1 = j /\ j \in 0 .. j
        BY <3>4
      <4> QED BY <3>1, <3>2, <3>4, <4>1
    <3> QED BY <3>3, <3>4
  <2>4. h = [k \in 0 .. (j + 1) |-> h[k]]
    OBVIOUS
  <2>5. Merges(h, e, above, j + 1)
    <3> HIDE DEF h
    <3> QED BY <2>3, <2>4 DEF Merges
  <2> QED BY <2>5
<1> HIDE DEF S
<1>3. Nat \subseteq S
  BY <1>1, <1>2, NatSetInduction
<1> QED BY <1>3 DEF S

LEMMA MergeAllIs ==
    ASSUME NEW e, NEW above, Len(e.segs) \in Nat
    PROVE  \E g : Merges(g, e, above, Len(e.segs)) /\ MergeAll(e, above) = g[Len(e.segs)]
<1> DEFINE n == Len(e.segs)
           P(h) == Merges(h, e, above, n)
           Q == CHOOSE h : P(h)
<1>1. \E h : P(h)
  BY MergesExist
<1>2. MergeAll(e, above) = Q[n]
  BY DEF MergeAll, Merges, Merged
<1> HIDE DEF P, Q
<1>3. P(Q)
  BY <1>1 DEF Q
<1> QED BY <1>2, <1>3 DEF P

\* Every merge leaves one segment fewer, until no more are possible.
LEMMA MergingAll ==
    ASSUME NEW e, NEW pts, NEW above \in BOOLEAN, NEW now, EnvelopeOK(e, pts, above, now), e.have,
           NEW p \in Pts, NEW h, Merging(h, e, pts, p, above)
    PROVE  Merging(MergeAll(h, above), e, pts, p, above) /\ ~ CanMerge(MergeAll(h, above), above)
<1> DEFINE n == Len(h.segs)
<1>1. n \in Nat
  BY DEF Merging, Envelopes
<1>2. PICK g : Merges(g, h, above, n) /\ MergeAll(h, above) = g[n]
  BY <1>1, MergeAllIs
<1>3. \A k \in 0 .. n : g[k] = IF k = 0 THEN h ELSE Merged(g[k - 1], above)
  BY <1>2 DEF Merges
<1> DEFINE OK(k) == /\ Merging(g[k], e, pts, p, above)
                    /\ CanMerge(g[k], above) => Len(g[k].segs) = n - k
           S == {k \in Nat : k <= n => OK(k)}
<1>4. 0 \in S
  <2>1. 0 \in 0 .. n
    BY <1>1
  <2>2. g[0] = h
    BY <1>3, <2>1
  <2>3. n - 0 = n
    BY <1>1
  <2> QED BY <2>2, <2>3
<1>5. ASSUME NEW k \in Nat, k \in S PROVE k + 1 \in S
  <2> SUFFICES ASSUME k + 1 <= n PROVE OK(k + 1)
    OBVIOUS
  <2>1. k \in 0 .. n /\ k + 1 \in 0 .. n /\ k <= n /\ (k + 1) - 1 = k /\ k + 1 # 0
    BY <1>1
  <2>2. OK(k)
    BY <1>5, <2>1
  <2>3. g[k + 1] = Merged(g[k], above)
    <3> HIDE DEF n
    <3> QED BY <1>3, <2>1
  <2> HIDE DEF n
  <2>4. CASE CanMerge(g[k], above)
    <3>1. g[k + 1] = MergeLastSeg(g[k])
      BY <2>3, <2>4 DEF Merged
    <3>2. /\ Merging(MergeLastSeg(g[k]), e, pts, p, above)
          /\ Len(MergeLastSeg(g[k]).segs) = Len(g[k].segs) - 1
      BY <2>2, <2>4, MergingGoesOn
    <3>3. (n - k) - 1 = n - (k + 1)
      BY <1>1
    <3> QED BY <2>2, <2>4, <3>1, <3>2, <3>3
  <2>5. CASE ~ CanMerge(g[k], above)
    <3>1. g[k + 1] = g[k]
      BY <2>3, <2>5 DEF Merged
    <3> QED BY <2>2, <2>5, <3>1
  <2> QED BY <2>4, <2>5
<1>6. Nat \subseteq S
  <2> HIDE DEF S
  <2> QED BY <1>4, <1>5, NatSetInduction
<1>7. OK(n)
  <2>1. n \in S /\ n <= n
    BY <1>1, <1>6
  <2> HIDE DEF n
  <2> QED BY <2>1
<1>8. ~ CanMerge(g[n], above)
  <2> SUFFICES ASSUME CanMerge(g[n], above) PROVE FALSE
    OBVIOUS
  <2>1. Len(g[n].segs) = 0
    BY <1>1, <1>7
  <2>2. Len(g[n].segs) >= 1
    BY <1>7 DEF Merging
  <2> QED BY <2>1, <2>2
<1> QED BY <1>2, <1>7, <1>8

LEMMA EmptyIsOK ==
    ASSUME NEW above \in BOOLEAN, NEW now, NEW pts \in SUBSET Pts
    PROVE  EnvelopeOK(EmptyEnvelope, pts, above, now)
<1>1. EmptyEnvelope \in Envelopes /\ EmptyEnvelope.segs = <<>> /\ Len(EmptyEnvelope.segs) = 0 /\ ~ EmptyEnvelope.have
  BY DEF EmptyEnvelope, Envelopes, Pts, Pt
<1> QED BY <1>1 DEF EnvelopeOK, Chained, Bent, Bounding, Indexed

LEMMA AddPointKeeps ==
    ASSUME NEW e, NEW pts, NEW above \in BOOLEAN, NEW now \in Int, EnvelopeOK(e, pts, above, now),
           NEW p \in Pts, p.x >= now
    PROVE  EnvelopeOK(AddPoint(e, p, above), Points(e, pts, p), above, p.x)
<1>1. e \in Envelopes /\ pts \in SUBSET Pts /\ e.init \in Pts /\ e.meas \in Int /\ p.x \in Int /\ e.init.x \in Int
  BY DEF EnvelopeOK, Envelopes, Pts
<1>2. CASE ~ e.have
  <2> DEFINE g == [e EXCEPT !.have = TRUE, !.init = p]
  <2>1. AddPoint(e, p, above) = g /\ Points(e, pts, p) = {p}
    BY <1>2 DEF AddPoint, Points
  <2>2. g \in Envelopes /\ g.segs = e.segs /\ g.init = p /\ g.have
    BY <1>1 DEF Envelopes
  <2>3. e.segs = <<>>
    BY <1>2 DEF EnvelopeOK
  <2> HIDE DEF g
  <2>4. g.segs = <<>> /\ Len(g.segs) = 0
    BY <2>2, <2>3
  <2>5. LastPoint(g, {p}, p.x)
    BY <1>1, <2>2 DEF LastPoint
  <2>6. EnvelopeOK(g, {p}, above, p.x)
    BY <2>2, <2>4, <2>5 DEF EnvelopeOK, Chained, Bent, Bounding, Indexed
  <2> QED BY <2>1, <2>6
<1>3. CASE e.have /\ e.init.x = p.x
  BY <1>3, EmptyIsOK DEF AddPoint, Points
<1>4. CASE e.have /\ e.init.x # p.x
  <2> DEFINE h == AppendSeg(e, MakeSeg(e.init, p))
             f == MergeAll(h, above)
  <2>1. p.x > e.init.x
    <3>1. e.init.x <= now
      BY <1>4 DEF EnvelopeOK, LastPoint
    <3> QED BY <1>1, <1>4, <3>1
  <2>2. Merging(h, e, pts, p, above)
    BY <1>4, <2>1, MergingStarts
  <2>3. AddPoint(e, p, above) = [f EXCEPT !.init = p, !.meas = @ + 1] /\ Points(e, pts, p) = pts \cup {p}
    BY <1>4 DEF AddPoint, Points
  <2> HIDE DEF h
  <2>4. Merging(f, e, pts, p, above) /\ ~ CanMerge(f, above)
    BY <1>4, <2>2, MergingAll
  <2> HIDE DEF f
  <2>5. EnvelopeOK([f EXCEPT !.init = p, !.meas = @ + 1], pts \cup {p}, above, p.x)
    BY <1>4, <2>1, <2>4, MergingEnds
  <2> QED BY <2>3, <2>5
<1> QED BY <1>2, <1>3, <1>4

LEMMA RestFacts ==
    ASSUME NEW T, NEW q \in Seq(T), NEW d \in Nat
    PROVE  /\ SubSeq(q, d + 1, Len(q)) \in Seq(T)
           /\ Len(SubSeq(q, d + 1, Len(q))) = IF d < Len(q) THEN Len(q) - d ELSE 0
           /\ \A i \in 1 .. (Len(q) - d) : SubSeq(q, d + 1, Len(q))[i] = q[d + i]
  OBVIOUS

\* What is cropped is in front.
LEMMA CropKeeps ==
    ASSUME NEW e, NEW pts, NEW above \in BOOLEAN, NEW now, EnvelopeOK(e, pts, above, now), NEW from
    PROVE  EnvelopeOK(Crop(e, from), pts, above, now)
<1> DEFINE n == Len(e.segs)
           d == e.longest
           q == SubSeq(e.segs, d + 1, n)
           g == [e EXCEPT !.segs = q, !.longest = 0]
<1>1. /\ e \in Envelopes /\ e.segs \in Seq(Segs) /\ n \in Nat /\ d \in Nat /\ pts \in SUBSET Pts
      /\ n > 0 => d < n
  BY DEF EnvelopeOK, Envelopes, Indexed
<1>2. /\ q \in Seq(Segs) /\ Len(q) = (IF d < n THEN n - d ELSE 0)
      /\ \A i \in 1 .. (n - d) : q[i] = e.segs[d + i]
  BY <1>1, RestFacts
<1>3. /\ g \in Envelopes /\ g.segs = q /\ g.have = e.have /\ g.init = e.init /\ g.longest = 0
  <2> HIDE DEF q, n, d
  <2> QED BY <1>1, <1>2 DEF Envelopes
<1>4. Crop(e, from) = e \/ Crop(e, from) = g
  BY DEF Crop, CropFrontBefore
<1>5. CASE d < n
  <2>1. Len(q) = n - d /\ n - d \in Nat /\ n - d > 0
    BY <1>1, <1>2, <1>5
  <2>2. \A i \in 1 .. (n - d) : q[i] = e.segs[d + i] /\ d + i \in 1 .. n
    <3> SUFFICES ASSUME NEW i \in 1 .. (n - d) PROVE q[i] = e.segs[d + i] /\ d + i \in 1 .. n
      OBVIOUS
    <3>1. q[i] = e.segs[d + i]
      BY <1>2
    <3> HIDE DEF q, n, d
    <3>2. d + i \in 1 .. n
      BY <1>1, <1>5
    <3> QED BY <3>1, <3>2
  <2> HIDE DEF q, g, n, d
  <2>3. \A i \in 1 .. (n - d) : g.segs[i] = e.segs[d + i] /\ d + i \in 1 .. Len(e.segs)
    BY <1>3, <2>2 DEF n
  <2>4. Len(g.segs) = n - d
    BY <1>3, <2>1
  <2>5. ASSUME NEW i \in 1 .. (n - d) PROVE End(g, i) = End(e, d + i)
    <3>1. CASE i < n - d
      <4>1. i + 1 \in 1 .. (n - d) /\ d + i < n /\ d + (i + 1) = (d + i) + 1
        BY <1>1, <2>1, <3>1
      <4>2. g.segs[i + 1] = e.segs[(d + i) + 1]
        BY <2>3, <4>1
      <4> QED BY <2>4, <3>1, <4>1, <4>2 DEF End, n
    <3>2. CASE ~ (i < n - d)
      <4>1. ~ (d + i < n)
        BY <1>1, <3>2
      <4> QED BY <1>3, <2>4, <3>2, <4>1 DEF End, n
    <3> QED BY <3>1, <3>2
  <2>6. Chained(g, pts)
    BY <2>3, <2>4, <2>5 DEF EnvelopeOK, Chained
  <2>7. Bent(g, above)
    <3> SUFFICES ASSUME NEW i \in 1 .. (n - d), NEW j \in 1 .. (n - d), i < j
                 PROVE  g.segs[i].p1.x < g.segs[j].p1.x /\ Bends(g.segs[i], g.segs[j], above)
      BY <2>4 DEF Bent
    <3>1. d + i < d + j
      BY <1>1
    <3> QED BY <2>3, <3>1 DEF EnvelopeOK, Bent
  <2>8. Bounding(g, pts, above)
    <3> SUFFICES ASSUME NEW i \in 1 .. (n - d), NEW r \in pts, r.x >= g.segs[1].p1.x
                 PROVE  OnSide(g.segs[i], r, above)
      BY <2>4 DEF Bounding
    <3>1. 1 \in 1 .. (n - d) /\ 1 \in 1 .. Len(e.segs) /\ d + 1 \in 1 .. Len(e.segs) /\ g.segs[1] = e.segs[d + 1]
      <4>1. 1 \in 1 .. (n - d) /\ 1 \in 1 .. n
        BY <1>1, <2>1
      <4> QED BY <2>3, <4>1 DEF n
    <3>2. r.x >= e.segs[1].p1.x
      <4>1. e.segs[1] \in Segs /\ e.segs[d + 1] \in Segs
        BY <1>1, <3>1
      <4>2. r.x \in Int /\ e.segs[1].p1.x \in Int /\ e.segs[d + 1].p1.x \in Int
        BY <1>1, <4>1 DEF Segs, Pts
      <4>3. e.segs[1].p1.x <= e.segs[d + 1].p1.x
        <5>1. CASE d = 0
          BY <4>2, <5>1
        <5>2. CASE d # 0
          <6>1. 1 < d + 1
            BY <1>1, <5>2
          <6>2. e.segs[1].p1.x < e.segs[d + 1].p1.x
            BY <3>1, <6>1 DEF EnvelopeOK, Bent
          <6> QED BY <4>2, <6>2
        <5> QED BY <5>1, <5>2
      <4> QED BY <3>1, <4>2, <4>3
    <3>3. OnSide(e.segs[d + i], r, above)
      BY <2>3, <3>2 DEF EnvelopeOK, Bounding
    <3> QED BY <2>3, <3>3
  <2>9. Indexed(g)
    BY <1>3, <2>1, <2>4 DEF Indexed
  <2>10. IF g.have THEN LastPoint(g, pts, now) ELSE g.segs = <<>>
    <3>1. CASE e.have
      BY <1>3, <3>1 DEF EnvelopeOK, LastPoint
    <3>2. CASE ~ e.have
      <4>1. n = 0
        BY <3>2 DEF EnvelopeOK, n
      <4> QED BY <1>1, <1>5, <4>1
    <3> QED BY <3>1, <3>2
  <2>11. EnvelopeOK(g, pts, above, now)
    BY <1>1, <1>3, <2>6, <2>7, <2>8, <2>9, <2>10 DEF EnvelopeOK
  <2> QED BY <1>4, <2>11 DEF g
<1>6. CASE ~ (d < n)
  <2>1. n = 0 /\ Len(q) = 0
    BY <1>1, <1>2, <1>6
  <2>2. q = <<>>
    <3> HIDE DEF q
    <3> QED BY <1>2, <2>1
  <2> HIDE DEF q, g
  <2>3. g.segs = <<>> /\ Len(g.segs) = 0
    BY <1>3, <2>2
  <2>4. IF g.have THEN LastPoint(g, pts, now) ELSE g.segs = <<>>
    BY <1>3, <2>3 DEF EnvelopeOK, LastPoint
  <2>5. EnvelopeOK(g, pts, above, now)
    BY <1>1, <1>3, <2>3, <2>4 DEF EnvelopeOK, Chained, Bent, Bounding, Indexed
  <2> QED BY <1>4, <2>5 DEF g
<1> QED BY <1>5, <1>6

\* The inductive invariant.
SkewInv ==
    /\ skewLast \in Int
    /\ EnvelopeOK(lower, lowerPts, TRUE, skewLast) /\ EnvelopeOK(upper, upperPts, FALSE, skewLast)

LEMMA SkewStarts == SkewInit => SkewInv
<1> SUFFICES ASSUME SkewInit PROVE SkewInv
  OBVIOUS
<1>1. /\ lower = EmptyEnvelope /\ upper = EmptyEnvelope /\ skewLast = 0
      /\ lowerPts = {} /\ upperPts = {}
  BY DEF SkewInit
<1>2. {} \in SUBSET Pts
  OBVIOUS
<1>3. EnvelopeOK(EmptyEnvelope, {}, TRUE, 0) /\ EnvelopeOK(EmptyEnvelope, {}, FALSE, 0)
  BY <1>2, EmptyIsOK
<1>4. /\ EnvelopeOK(lower, lowerPts, TRUE, skewLast) /\ EnvelopeOK(upper, upperPts, FALSE, skewLast)
  BY <1>1, <1>3, Zenon
<1>5. skewLast \in Int
  BY <1>1
<1> QED BY <1>4, <1>5 DEF SkewInv

LEMMA SkewStep == SkewInv /\ [SkewNext]_skewVars => SkewInv'
<1> SUFFICES ASSUME SkewInv, [SkewNext]_skewVars PROVE SkewInv'
  OBVIOUS
<1>1. CASE SkewNext
  <2>1. PICK dt \in {0, 1, 3}, lb \in SkewVals, rtt \in {1, 2} : Update(skewLast + dt, lb, rtt)
    BY <1>1 DEF SkewNext
  <2> DEFINE tx == skewLast + dt
             p == Pt(tx, lb)
             r == Pt(tx, lb + rtt)
  <2>2. tx \in Int /\ tx >= skewLast /\ skewLast \in Int
    BY DEF SkewInv
  <2>3. lb \in Int /\ lb + rtt \in Int
    BY SkewAssumption
  <2> HIDE DEF tx
  <2>4. p \in Pts /\ r \in Pts /\ p.x = tx /\ r.x = tx
    BY <2>2, <2>3 DEF Pt, Pts
  <2>5. /\ lower' = Crop(AddPoint(lower, p, TRUE), tx - MaxPeriod)
        /\ upper' = Crop(AddPoint(upper, r, FALSE), tx - MaxPeriod)
        /\ lowerPts' = Points(lower, lowerPts, p) /\ upperPts' = Points(upper, upperPts, r) /\ skewLast' = tx
    BY <2>1 DEF Update, tx
  <2> HIDE DEF p, r
  <2>6. EnvelopeOK(AddPoint(lower, p, TRUE), Points(lower, lowerPts, p), TRUE, tx)
    BY <2>2, <2>4, AddPointKeeps DEF SkewInv
  <2>7. EnvelopeOK(AddPoint(upper, r, FALSE), Points(upper, upperPts, r), FALSE, tx)
    BY <2>2, <2>4, AddPointKeeps DEF SkewInv
  <2>8. EnvelopeOK(lower', lowerPts', TRUE, tx)
    BY <2>5, <2>6, CropKeeps
  <2>9. EnvelopeOK(upper', upperPts', FALSE, tx)
    BY <2>5, <2>7, CropKeeps
  <2> QED BY <2>2, <2>5, <2>8, <2>9 DEF SkewInv
<1>2. CASE UNCHANGED skewVars
  BY <1>2 DEF skewVars, SkewInv
<1> QED BY <1>1, <1>2

LEMMA SidesAre ==
    ASSUME NEW s \in Segs, NEW p \in Pts
    PROVE  (OnSide(s, p, TRUE) => Above(s, p)) /\ (OnSide(s, p, FALSE) => Below(s, p))
<1> DEFINE a == s.p2.x - s.p1.x
           b == s.p2.y - s.p1.y
           u == p.x - s.p1.x
           v == p.y - s.p1.y
<1>1. a \in Int /\ b \in Int /\ u \in Int /\ v \in Int
  BY DEF Segs, Pts
<1>2. OnSide(s, p, TRUE) => Above(s, p)
  BY DEF OnSide, Above, Lift, Rise, Run
<1>3. Lift(s.p1, p, FALSE) = -v /\ Rise(s, FALSE) = -b
  BY DEF Lift, Rise, Segs, Pts
<1>4. OnSide(s, p, FALSE) <=> (-v) * a <= (-b) * u
  BY <1>3 DEF OnSide, Run
<1>5. Below(s, p) <=> v * a >= b * u
  BY DEF Below
<1> HIDE DEF a, b, u, v
<1>6. (-v) * a = -(v * a) /\ (-b) * u = -(b * u) /\ v * a \in Int /\ b * u \in Int
  BY <1>1
<1>7. OnSide(s, p, FALSE) => Below(s, p)
  <2> SUFFICES ASSUME OnSide(s, p, FALSE) PROVE Below(s, p)
    OBVIOUS
  <2> DEFINE i == v * a
             j == b * u
  <2>1. i \in Int /\ j \in Int /\ -i <= -j
    BY <1>4, <1>6
  <2> HIDE DEF i, j
  <2>2. i >= j
    BY <2>1
  <2> QED BY <1>5, <2>2 DEF i, j
<1> QED BY <1>2, <1>7

LEMMA SkewInvImplies == SkewInv => SkewIsBounded
<1> SUFFICES ASSUME SkewInv PROVE SkewIsBounded
  OBVIOUS
<1>1. /\ lower.segs \in Seq(Segs) /\ lowerPts \subseteq Pts /\ Indexed(lower) /\ lower \in Envelopes
      /\ upper.segs \in Seq(Segs) /\ upperPts \subseteq Pts /\ Indexed(upper) /\ upper \in Envelopes
  BY DEF SkewInv, EnvelopeOK, Envelopes
<1>2. ASSUME NEW i \in 1 .. Len(lower.segs), NEW p \in Kept(lower, lowerPts) PROVE Above(lower.segs[i], p)
  <2>1. p \in lowerPts /\ p.x >= lower.segs[1].p1.x
    BY DEF Kept
  <2>2. OnSide(lower.segs[i], p, TRUE)
    BY <2>1 DEF SkewInv, EnvelopeOK, Bounding
  <2>3. lower.segs[i] \in Segs /\ p \in Pts
    BY <1>1, <2>1
  <2> QED BY <2>2, <2>3, SidesAre
<1>3. ASSUME NEW i \in 1 .. Len(upper.segs), NEW p \in Kept(upper, upperPts) PROVE Below(upper.segs[i], p)
  <2>1. p \in upperPts /\ p.x >= upper.segs[1].p1.x
    BY DEF Kept
  <2>2. OnSide(upper.segs[i], p, FALSE)
    BY <2>1 DEF SkewInv, EnvelopeOK, Bounding
  <2>3. upper.segs[i] \in Segs /\ p \in Pts
    BY <1>1, <2>1
  <2> QED BY <2>2, <2>3, SidesAre
<1>4. ASSUME NEW e \in Envelopes, e.segs # <<>>, Indexed(e) PROVE HasLongest(e)
  <2>1. Len(e.segs) > 0
    BY <1>4 DEF Envelopes
  <2> QED BY <1>4, <2>1 DEF Indexed, HasLongest
<1>5. EnvelopesBound
  BY <1>2, <1>3 DEF EnvelopesBound
<1>6. EstimateHasASegment
  BY <1>1, <1>4 DEF EstimateHasASegment
<1> QED BY <1>5, <1>6 DEF SkewIsBounded

\* CConvexEnvelope: whatever the measurements, after any appends, merges, crops and resets, every
\* line of an envelope is on its side of all the points it stands for, and the estimate is read
\* from a segment that exists.
THEOREM EnvelopesBoundTheSkew == SkewSpec => []SkewIsBounded
<1>1. SkewInit => SkewInv
  BY SkewStarts
<1>2. SkewInv /\ [SkewNext]_skewVars => SkewInv'
  BY SkewStep
<1>3. SkewInv => SkewIsBounded
  BY SkewInvImplies
<1> QED BY <1>1, <1>2, <1>3, PTL DEF SkewSpec
=============================================================================
