-------------------------- MODULE ApplicationProofs --------------------------
(***************************************************************************)
(* Proofs about the programs, for every period, limit and setting: the     *)
(* loop of CMOOSApp, its dynamic variables, the periodic event and the     *)
(* suicidal sleeper; the client umm; the life of the database process; the *)
(* questions asked of the command line; the telegrams of a serial port.    *)
(* Between them stand lemmas about the string functions they use.          *)
(***************************************************************************)
EXTENDS MOOSApp, DynamicVariables, PeriodicEvent, SuicidalSleeper, UMM, DBLife, CommandLine, SerialPort,
        SequenceTheorems, WellFoundedInduction, TLAPS

-----------------------------------------------------------------------------
(* The loop of the application                                             *)

AppPlaces == {"configure", "comms", "connecting", "startup", "loop", "wait", "woken", "pause",
           "throttle", "fetch", "iterate", "close", "returned"}

\* The types of what the loop decides by; an age does not pass the period it is compared with.
AppTypes ==
    /\ appPc \in AppPlaces
    /\ appCfg.mode \in 0 .. 2
    /\ sinceRun \in 0 .. Period /\ sinceIterate \in 0 .. Period
    /\ appMail \in Nat

\* The pass that last called Iterate did not begin after the last pass.
AgesInOrder == sinceRun <= sinceIterate

\* Only the modes that mail drives wait for mail, and only mode 1 is throttled.
ModesKept ==
    /\ appPc \in {"wait", "woken"} => appCfg.mode # 0
    /\ appPc = "throttle" => appCfg.mode = 1

\* Before the comms threads run nothing is connected; a callback runs while its connection stands;
\* the filter flag is changed before the registration.
CommandsInOrder ==
    /\ appPc \in {"configure", "comms"} => ~commsRun
    /\ ~commsRun => ~up
    /\ hook # "none" => up
    /\ toggling = "register" => filter
    /\ toggling = "unregister" => ~filter
    /\ toggling # "none" => appPc # "configure"

\* The inductive invariant.
AppInv == AppTypes /\ AgesInOrder /\ ModesKept /\ CommandsInOrder /\ AppKeepsItsPace

LEMMA ConfiguredMode ==
    ASSUME NEW c \in Configs
    PROVE  [c EXCEPT !.mode = SetIterateMode(c)].mode \in 0 .. 2
<1>1. \A m \in 0 .. 2 : [NoConfig EXCEPT !.mode = m].mode \in 0 .. 2 /\ "mode" \in DOMAIN [NoConfig EXCEPT !.mode = m]
  BY DEF NoConfig
<1>2. c.mode \in 0 .. 2 /\ "mode" \in DOMAIN c
  <2>1. CASE c \in {[NoConfig EXCEPT !.mode = m] : m \in 0 .. 2}
    BY <1>1, <2>1
  <2>2. CASE c \in {[NoConfig EXCEPT !.async = FALSE, !.mode = 2], [NoConfig EXCEPT !.useComms = FALSE],
                    [NoConfig EXCEPT !.alone = TRUE], [NoConfig EXCEPT !.quitOnFail = TRUE],
                    [NoConfig EXCEPT !.flatOut = TRUE]}
    <3>1. CASE c = [NoConfig EXCEPT !.async = FALSE, !.mode = 2]
      BY <3>1 DEF NoConfig
    <3>2. CASE c = [NoConfig EXCEPT !.useComms = FALSE]
      BY <3>2 DEF NoConfig
    <3>3. CASE c = [NoConfig EXCEPT !.alone = TRUE]
      BY <3>3 DEF NoConfig
    <3>4. CASE c = [NoConfig EXCEPT !.quitOnFail = TRUE]
      BY <3>4 DEF NoConfig
    <3>5. CASE c = [NoConfig EXCEPT !.flatOut = TRUE]
      BY <3>5 DEF NoConfig
    <3> QED BY <2>2, <3>1, <3>2, <3>3, <3>4, <3>5
  <2> QED BY <2>1, <2>2 DEF Configs
<1> QED BY <1>2 DEF SetIterateMode

LEMMA AppStarts == AppInit => AppInv
BY AppAssumption
   DEF AppInit, AppInv, AppTypes, AppPlaces, AgesInOrder, ModesKept, CommandsInOrder, NoConfig,
       AppKeepsItsPace, MailWakesTheApp, IterateKeepsItsDistance, CommandsAreRegistered

\* The shorter of the two periods is not longer than the period.
LEMMA SpacingIsAPeriod ==
    ASSUME appCfg.mode \in 0 .. 2
    PROVE  /\ Spacing \in Nat /\ Spacing <= Period
           /\ appCfg.mode = 1 => Spacing <= MinPeriod
BY AppAssumption DEF Spacing
\* Steps of the loop before it runs.
LEMMA StartingKeepsAppInv ==
    ASSUME AppInv, (\E c \in Configs : Configure(c)) \/ ConfigureComms \/ EndConnecting \/ StartUp
    PROVE  AppInv'
<1> USE DEF AppInv, AppTypes, AppPlaces, AgesInOrder, ModesKept, CommandsInOrder, clocks, commsVars,
            AppKeepsItsPace, MailWakesTheApp, IterateKeepsItsDistance, CommandsAreRegistered, Spacing
<1>1. ASSUME NEW c \in Configs, Configure(c) PROVE AppInv'
  BY <1>1, ConfiguredMode DEF Configure
<1>2. CASE ConfigureComms
  BY <1>2 DEF ConfigureComms, ReturnFrom
<1>3. CASE EndConnecting
  BY <1>3 DEF EndConnecting
<1>4. CASE StartUp
  BY <1>4 DEF StartUp, ReturnFrom
<1> QED BY <1>1, <1>2, <1>3, <1>4

\* What leads to a pass with an Iterate.
LEMMA LoopKeepsAppInv ==
    ASSUME AppInv, DoRunWork
    PROVE  AppInv'
<1> USE AppAssumption DEF AppInv, AppTypes, AppPlaces, AgesInOrder, ModesKept, CommandsInOrder, clocks, commsVars,
            AppKeepsItsPace, MailWakesTheApp, IterateKeepsItsDistance, CommandsAreRegistered, Spacing
<1>1. CASE LoopTop
  BY <1>1 DEF LoopTop, Late, Driven, QuitSeen
<1>2. CASE TryWait
  BY <1>2 DEF TryWait
<1>3. CASE Woken
  <2>1. AppTypes' /\ AgesInOrder' /\ ModesKept' /\ CommandsInOrder' /\ MailWakesTheApp' /\ CommandsAreRegistered'
    BY <1>3 DEF Woken
  <2>2. IterateKeepsItsDistance'
    <3>1. appCfg' = appCfg /\ sinceIterate' = sinceIterate /\ appCfg.mode # 0 /\ sinceRun <= sinceIterate
      BY <1>3 DEF Woken
    <3>2. CASE appCfg.mode = 1
      BY <1>3, <3>1, <3>2 DEF Woken
    <3>3. CASE appCfg.mode = 2
      <4>1. iterateDue' = DueWhenWoken
        BY <1>3 DEF Woken
      <4>2. iterateDue' => sinceRun >= Period
        BY <3>3, <4>1, Zenon DEF DueWhenWoken
      <4> QED BY <3>1, <3>3, <4>2
    <3> QED BY <3>1, <3>2, <3>3
  <2> QED BY <2>1, <2>2
<1>4. CASE Pause
  BY <1>4 DEF Pause, PauseOver
<1>5. CASE FetchMail
  BY <1>5 DEF FetchMail, MailLeft
<1>6. CASE Iterate
  BY <1>6 DEF Iterate, ReturnFrom, MayIterate
<1> QED BY <1>1, <1>2, <1>3, <1>4, <1>5, <1>6 DEF DoRunWork

\* The end of the loop, the settings, the passing of time and the threads of the comms client.
LEMMA OthersKeepAppInv ==
    ASSUME AppInv,
           \/ CloseComms \/ RegisterCommandKey \/ CommsThread \/ TimePasses \/ RequestQuit
           \/ \E b \in BOOLEAN : EnableCommandMessageFiltering(b)
           \/ Connect \/ Disconnect \/ MailArrives
    PROVE  AppInv'
<1> USE AppAssumption DEF AppInv, AppTypes, AppPlaces, AgesInOrder, ModesKept, CommandsInOrder, clocks, commsVars,
            AppKeepsItsPace, MailWakesTheApp, IterateKeepsItsDistance, CommandsAreRegistered, Spacing
<1>1. CASE CloseComms
  BY <1>1 DEF CloseComms, ReturnFrom
<1>2. CASE RegisterCommandKey
  BY <1>2 DEF RegisterCommandKey
<1>3. CASE OnConnect
  BY <1>3 DEF OnConnect, OnConnectToServerPrivate
<1>4. CASE OnMailCallBack
  BY <1>4 DEF OnMailCallBack
<1>5. CASE TimePasses
  BY <1>5 DEF TimePasses, SatInc
<1>6. CASE RequestQuit
  BY <1>6 DEF RequestQuit
<1>7. ASSUME NEW b \in BOOLEAN, EnableCommandMessageFiltering(b) PROVE AppInv'
  BY <1>7 DEF EnableCommandMessageFiltering, Iterating
<1>8. CASE Connect
  BY <1>8 DEF Connect
<1>9. CASE Disconnect
  BY <1>9 DEF Disconnect
<1>10. CASE MailArrives
  BY <1>10 DEF MailArrives
<1> QED BY <1>1, <1>2, <1>3, <1>4, <1>5, <1>6, <1>7, <1>8, <1>9, <1>10 DEF CommsThread

\* For every period, mode and throttle: the loop of an application misses no announcement of mail,
\* does not call Iterate more often than its mode allows, and loses no registration of its
\* command messages to a connection made at the wrong moment.
THEOREM LoopKeepsItsPace == AppSpec => []AppKeepsItsPace
<1>1. AppInv /\ [AppNext]_appVars => AppInv'
  <2> SUFFICES ASSUME AppInv, [AppNext]_appVars PROVE AppInv'
    OBVIOUS
  <2>1. CASE AppNext
    BY <2>1, StartingKeepsAppInv, LoopKeepsAppInv, OthersKeepAppInv DEF AppNext, MainThread
  <2>2. CASE UNCHANGED appVars
    BY <2>2 DEF appVars, clocks, commsVars, AppInv, AppTypes, AgesInOrder, ModesKept, CommandsInOrder,
                AppKeepsItsPace, MailWakesTheApp, IterateKeepsItsDistance, CommandsAreRegistered, Spacing
  <2> QED BY <2>1, <2>2
<1>2. AppInv => AppKeepsItsPace
  BY DEF AppInv
<1> QED BY AppStarts, <1>1, <1>2, PTL DEF AppSpec

-----------------------------------------------------------------------------
(* The periodic event                                                      *)

Active == {"born", "sleep", "call", "over"}

\* Between the test of Start and the creation of the thread no worker is there.
NoneWhileCreating == peOwner = "create" => \A w \in Workers : pePc[w] \notin Active

\* The clock of the worker is the time since the last call, and no sleep began before it.
TimesAgree == peLast = peSince /\ peSince \in Nat /\ peSleep \in Int

\* The inductive invariant.
PEInv ==
    /\ pePc \in [Workers -> {"unborn", "gone"} \cup Active]
    /\ OneWorker /\ NoneWhileCreating /\ TimesAgree

LEMMA PEStarts == PEInit => PEInv
BY DEF PEInit, PEInv, OneWorker, NoneWhileCreating, TimesAgree, Active

LEMMA OwnerKeepsPEInv ==
    ASSUME PEInv, Start \/ Create \/ StopIdle \/ Stop \/ Join \/ PETick
    PROVE  PEInv'
<1> USE DEF PEInv, OneWorker, NoneWhileCreating, TimesAgree, Active, OwnerStep
<1>1. CASE Start
  BY <1>1 DEF Start, NotRunning
<1>2. CASE Create
  <2>1. CASE UNCHANGED <<pePc, peThread, peRunning>>
    BY <1>2, <2>1 DEF Create
  <2>2. CASE \E w \in Workers : WorkerGoto(w, "born") /\ peThread' = w /\ peRunning' = TRUE
    BY <1>2, <2>2 DEF Create, WorkerGoto
  <2> QED BY <1>2, <2>1, <2>2 DEF Create
<1>3. CASE StopIdle
  BY <1>3 DEF StopIdle
<1>4. CASE Stop
  BY <1>4 DEF Stop
<1>5. CASE Join
  BY <1>5 DEF Join
<1>6. CASE PETick
  BY <1>6 DEF PETick
<1> QED BY <1>1, <1>2, <1>3, <1>4, <1>5, <1>6

LEMMA WorkerKeepsPEInv ==
    ASSUME PEInv, NEW w \in Workers, WorkerStep(w)
    PROVE  PEInv'
<1> USE DEF PEInv, OneWorker, NoneWhileCreating, TimesAgree, Active, WorkerGoto
<1>1. CASE ThreadWork(w)
  BY <1>1 DEF ThreadWork
<1>2. CASE BeginSleep(w)
  BY <1>2 DEF BeginSleep
<1>3. CASE Callback(w)
  BY <1>3 DEF Callback, TimeLast
<1>4. CASE CallbackReturns(w)
  BY <1>4 DEF CallbackReturns
<1>5. CASE QuitRequested(w)
  BY <1>5 DEF QuitRequested
<1>6. CASE Over(w)
  BY <1>6 DEF Over
<1> QED BY <1>1, <1>2, <1>3, <1>4, <1>5, <1>6 DEF WorkerStep

\* The whole milliseconds that were slept fall short of the period by less than one.
LEMMA SleptLongEnough ==
    ASSUME PEInv, NEW w \in Workers, Callback(w)
    PROVE  peSince > PePeriod - 2
<1>1. peSince \in Nat /\ peSleep \in Int /\ PePeriod \in Nat /\ Slept /\ peLast = peSince
  BY PEAssumption DEF PEInv, TimesAgree, Callback
<1>2. PePeriod > peSleep => 2 * ((PePeriod - peSleep) \div 2) > (PePeriod - peSleep) - 2
  BY <1>1
<1> QED BY <1>1, <1>2 DEF Slept, MillisecondsSleep

\* For every period and any number of threads that end by themselves or are stopped: never two
\* threads in the worker function, and never a call before its period has passed but for the part
\* of a millisecond that the conversion throws away.
THEOREM EventKeepsItsPeriod == PESpec => EventIsPeriodic
<1>1. PEInv /\ [PENext]_peVars => PEInv'
  <2> SUFFICES ASSUME PEInv, [PENext]_peVars PROVE PEInv'
    OBVIOUS
  <2>1. CASE PENext
    BY <2>1, OwnerKeepsPEInv, WorkerKeepsPEInv DEF PENext
  <2>2. CASE UNCHANGED peVars
    BY <2>2 DEF peVars, PEInv, OneWorker, NoneWhileCreating, TimesAgree
  <2> QED BY <2>1, <2>2
<1>2. PEInv => OneWorker
  BY DEF PEInv
<1>3. PEInv /\ [PENext]_peVars => [\A w \in Workers : Callback(w) => peSince > PePeriod - 2]_peVars
  BY SleptLongEnough
<1> QED BY PEStarts, <1>1, <1>2, <1>3, PTL DEF PESpec, EventIsPeriodic, NotEarly

-----------------------------------------------------------------------------
(* The suicidal sleeper                                                    *)

Datagram == Command \cup {Reply("would die"), Reply("is dying"), Reply("last words")}
Pushed == [at : Nat, data : Datagram]

SleepTypes ==
    /\ inbox \in [SleepNodes -> Seq(Pushed)] /\ outbox \in [SleepNodes -> Seq(Datagram)]
    /\ group \subseteq Datagram /\ rx \in [SleepNodes -> Seq(Datagram)]
    /\ taken \in [SleepNodes -> SUBSET Nat]

\* A command under way is the one ktm wrote: replies are not commands, whatever comes back.
ByKtm(d) == d \in Command => d = ktm
CommandsAreKtms ==
    /\ \A n \in SleepNodes : /\ \A i \in 1 .. Len(outbox[n]) : ByKtm(outbox[n][i])
                             /\ \A i \in 1 .. Len(inbox[n]) : ByKtm(inbox[n][i].data)
    /\ \A d \in group : ByKtm(d)

\* Datagram i of k may go: more than UnreadLimit came, and the older of the latest were read.
MayGo(i, k, read) == k > UnreadLimit /\ \A j \in (k - UnreadLimit) .. (i - 1) : j \in read

\* The inbox is the end of what was received: box holds the last datagrams of the first k, and of
\* those before them each was read or might go.
UnreadOK(box, k, read) ==
    /\ Len(box) <= k
    /\ \A j \in 1 .. Len(box) : box[j].at = (k - Len(box)) + j
    /\ \A i \in 1 .. (k - Len(box)) : i \in read \/ MayGo(i, k, read)

\* The reading thread pops when the oldest in the inbox may go, however much is read meanwhile.
PopOK(n) == n \in popping => MayGo((Len(rx[n]) - Len(inbox[n])) + 1, Len(rx[n]), taken[n])

InboxesOK == \A n \in SleepNodes : UnreadOK(inbox[n], Len(rx[n]), taken[n]) /\ PopOK(n)

\* The inductive invariant.
SleepInv == SleepTypes /\ CommandsAreKtms /\ InboxesOK /\ DeathWasOrdered

\* What may go may go still when more has come or more was read.
LEMMA MayGoStill ==
    ASSUME NEW i \in Nat, NEW k \in Nat, NEW k2 \in Nat, k <= k2, NEW read, NEW read2, read \subseteq read2,
           MayGo(i, k, read)
    PROVE  MayGo(i, k2, read2)
<1>1. k2 > UnreadLimit
  BY SleepAssumption DEF MayGo
<1>2. ASSUME NEW j \in (k2 - UnreadLimit) .. (i - 1) PROVE j \in read2
  <2>1. j \in (k - UnreadLimit) .. (i - 1)
    BY <1>2, SleepAssumption
  <2> QED BY <2>1 DEF MayGo
<1> QED BY <1>1, <1>2 DEF MayGo

LEMMA ArrivalKeepsUnread ==
    ASSUME NEW S, NEW box \in Seq(S), NEW k \in Nat, NEW read, NEW d, UnreadOK(box, k, read)
    PROVE  UnreadOK(Append(box, [at |-> k + 1, data |-> d]), k + 1, read)
<1> DEFINE e == [at |-> k + 1, data |-> d]
           new == Append(box, e)
<1>1. Len(box) \in Nat /\ Len(new) = Len(box) + 1 /\ new[Len(box) + 1] = e
  OBVIOUS
<1>2. \A j \in 1 .. Len(box) : new[j] = box[j]
  OBVIOUS
<1>3. e.at = k + 1
  OBVIOUS
<1> HIDE DEF e, new
<1>4. ASSUME NEW j \in 1 .. Len(new) PROVE new[j].at = ((k + 1) - Len(new)) + j
  <2>1. CASE j \in 1 .. Len(box)
    <3>1. new[j].at = (k - Len(box)) + j
      BY <1>2, <2>1 DEF UnreadOK
    <3> QED BY <1>1, <3>1
  <2>2. CASE j = Len(box) + 1
    BY <1>1, <1>3, <2>2
  <2> QED BY <1>1, <2>1, <2>2
<1>5. ASSUME NEW i \in 1 .. ((k + 1) - Len(new)) PROVE i \in read \/ MayGo(i, k + 1, read)
  <2>1. i \in 1 .. (k - Len(box)) /\ i \in Nat /\ k + 1 \in Nat /\ k <= k + 1
    BY <1>1, <1>5
  <2>2. i \in read \/ MayGo(i, k, read)
    BY <2>1 DEF UnreadOK
  <2> QED BY <2>1, <2>2, MayGoStill
<1>6. Len(new) <= k + 1
  BY <1>1 DEF UnreadOK
<1>7. UnreadOK(new, k + 1, read)
  BY <1>4, <1>5, <1>6 DEF UnreadOK
<1> QED BY <1>7 DEF e, new

\* The oldest of the unread goes, which was read or may go.
LEMMA DepartureKeepsUnread ==
    ASSUME NEW S, NEW box \in Seq(S), NEW k \in Nat, NEW read, NEW read2, UnreadOK(box, k, read),
           box # <<>>, read \subseteq read2, box[1].at \in read2 \/ MayGo((k - Len(box)) + 1, k, read2)
    PROVE  UnreadOK(Tail(box), k, read2)
<1>1. Len(box) \in Nat /\ Len(box) > 0 /\ Len(Tail(box)) = Len(box) - 1
  OBVIOUS
<1>2. \A j \in 1 .. Len(Tail(box)) : Tail(box)[j] = box[j + 1]
  OBVIOUS
<1> DEFINE rest == Tail(box)
<1> HIDE DEF rest
<1>3. \A j \in 1 .. Len(rest) : rest[j].at = (k - Len(rest)) + j
  <2> SUFFICES ASSUME NEW j \in 1 .. Len(rest) PROVE rest[j].at = (k - Len(rest)) + j
    OBVIOUS
  <2>1. rest[j] = box[j + 1] /\ j + 1 \in 1 .. Len(box)
    BY <1>1, <1>2 DEF rest
  <2>2. box[j + 1].at = (k - Len(box)) + (j + 1)
    BY <2>1 DEF UnreadOK
  <2> QED BY <1>1, <2>1, <2>2 DEF rest
<1>4. ASSUME NEW i \in 1 .. (k - Len(rest)) PROVE i \in read2 \/ MayGo(i, k, read2)
  <2>1. CASE i <= k - Len(box)
    <3>1. i \in 1 .. (k - Len(box)) /\ i \in Nat /\ k <= k
      BY <1>1, <2>1
    <3>2. i \in read \/ MayGo(i, k, read)
      BY <3>1 DEF UnreadOK
    <3> QED BY <3>1, <3>2, MayGoStill
  <2>2. CASE i > k - Len(box)
    <3>1. i = (k - Len(box)) + 1
      BY <1>1, <2>2 DEF rest
    <3>2. box[1].at = (k - Len(box)) + 1
      BY <1>1 DEF UnreadOK
    <3> QED BY <3>1, <3>2
  <2> QED BY <1>1, <2>1, <2>2
<1>5. Len(rest) <= k
  BY <1>1 DEF UnreadOK, rest
<1>6. UnreadOK(rest, k, read2)
  BY <1>3, <1>4, <1>5 DEF UnreadOK
<1> QED BY <1>6 DEF rest

\* The oldest may go when the inbox is longer than its limit.
LEMMA TooLongMayGo ==
    ASSUME NEW S, NEW box \in Seq(S), NEW k \in Nat, NEW read, UnreadOK(box, k, read), TooLong(box)
    PROVE  MayGo((k - Len(box)) + 1, k, read)
<1>1. Len(box) \in Nat /\ Len(box) > UnreadLimit /\ Len(box) <= k
  BY DEF UnreadOK, TooLong
<1>2. k > UnreadLimit /\ (k - UnreadLimit) .. (((k - Len(box)) + 1) - 1) = {}
  BY <1>1, SleepAssumption
<1> QED BY <1>2 DEF MayGo

\* What the invariant promises of the inbox.
LEMMA UnreadIsLatest ==
    ASSUME NEW S, NEW box \in Seq(S), NEW k \in Nat, NEW read, UnreadOK(box, k, read), NEW i \in 1 .. k
    PROVE  i \in read \/ (\E j \in 1 .. Len(box) : box[j].at = i) \/ MayGo(i, k, read)
<1>1. Len(box) \in Nat
  OBVIOUS
<1>2. CASE i <= k - Len(box)
  BY <1>1, <1>2 DEF UnreadOK
<1>3. CASE i > k - Len(box)
  <2> DEFINE j == i - (k - Len(box))
  <2>1. j \in 1 .. Len(box) /\ (k - Len(box)) + j = i
    BY <1>1, <1>3
  <2>2. box[j].at = i
    BY <2>1 DEF UnreadOK
  <2> QED BY <2>1, <2>2
<1> QED BY <1>1, <1>2, <1>3

\* A reply is not a command, and a command is for the application only if ktm said so.
LEMMA DatagramFacts ==
    /\ NoDatagram \notin Command
    /\ \A k \in {"would die", "is dying", "last words"} : Reply(k) \in Datagram /\ Reply(k) \notin Command
    /\ Command \subseteq Datagram
<1>1. \A c \in Command : c.kind \in {"?", "K"}
  BY DEF Command
<1>2. NoDatagram.kind = "none" /\ \A k \in {"would die", "is dying", "last words"} : Reply(k).kind = k
  BY DEF NoDatagram, Reply
<1>3. \A k \in {"would die", "is dying", "last words"} : Reply(k) \in Datagram
  BY DEF Datagram
<1> QED BY <1>1, <1>2, <1>3 DEF Datagram

LEMMA SleepStarts == SleepInit => SleepInv
<1> SUFFICES ASSUME SleepInit PROVE SleepInv
  OBVIOUS
<1>1. SleepTypes
  BY DEF SleepInit, SleepTypes
<1>2. CommandsAreKtms
  BY DEF SleepInit, CommandsAreKtms
<1>3. InboxesOK
  BY DEF SleepInit, InboxesOK, UnreadOK, PopOK
<1>4. DeathWasOrdered
  BY DEF SleepInit, DeathWasOrdered
<1> QED BY <1>1, <1>2, <1>3, <1>4 DEF SleepInv

\* A datagram goes from an outbox to the group.
LEMMA WriteKeepsSleepInv ==
    ASSUME SleepInv, NEW n \in SleepNodes, WriteLoop(n)
    PROVE  SleepInv'
<1>0. /\ outbox[n] \in Seq(Datagram) /\ outbox[n] # <<>>
      /\ outbox' = [outbox EXCEPT ![n] = Tail(@)] /\ group' = group \cup {Head(outbox[n])}
      /\ UNCHANGED <<inbox, popping, rx, taken, ktm, sleeper>>
  BY DEF SleepInv, SleepTypes, WriteLoop
<1>1. /\ Head(outbox[n]) = outbox[n][1] /\ Head(outbox[n]) \in Datagram /\ Tail(outbox[n]) \in Seq(Datagram)
      /\ Len(outbox[n]) \in Nat /\ 1 \in 1 .. Len(outbox[n]) /\ Len(Tail(outbox[n])) = Len(outbox[n]) - 1
      /\ \A i \in 1 .. Len(Tail(outbox[n])) : Tail(outbox[n])[i] = outbox[n][i + 1]
  BY <1>0
<1>2. SleepTypes'
  BY <1>0, <1>1 DEF SleepInv, SleepTypes
<1>3. CommandsAreKtms'
  <2>1. ASSUME NEW m \in SleepNodes, NEW i \in 1 .. Len(outbox'[m]) PROVE ByKtm(outbox'[m][i])
    <3>1. CASE m = n
      <4>1. outbox'[m][i] = outbox[n][i + 1] /\ i + 1 \in 1 .. Len(outbox[n])
        BY <1>0, <1>1, <3>1 DEF SleepInv, SleepTypes
      <4> QED BY <4>1 DEF SleepInv, CommandsAreKtms
    <3>2. CASE m # n
      BY <1>0, <3>2 DEF SleepInv, SleepTypes, CommandsAreKtms
    <3> QED BY <3>1, <3>2
  <2>2. ASSUME NEW d \in group' PROVE ByKtm(d)
    BY <1>0, <1>1 DEF SleepInv, CommandsAreKtms
  <2> QED BY <1>0, <2>1, <2>2 DEF SleepInv, CommandsAreKtms, ByKtm
<1>4. InboxesOK'
  BY <1>0 DEF SleepInv, InboxesOK, PopOK
<1>5. DeathWasOrdered'
  BY <1>0 DEF SleepInv, DeathWasOrdered
<1> QED BY <1>2, <1>3, <1>4, <1>5 DEF SleepInv

\* A datagram arrives in an inbox.
LEMMA ReadKeepsSleepInv ==
    ASSUME SleepInv, NEW n \in SleepNodes, ReadLoop(n)
    PROVE  SleepInv'
<1>1. PICK d \in group : /\ rx' = [rx EXCEPT ![n] = Append(@, d)]
                         /\ inbox' = [inbox EXCEPT ![n] = Append(@, [at |-> Len(rx[n]) + 1, data |-> d])]
  BY DEF ReadLoop
<1>2. UNCHANGED <<outbox, popping, group, taken, ktm, sleeper>> /\ n \notin popping
  BY DEF ReadLoop
<1> DEFINE e == [at |-> Len(rx[n]) + 1, data |-> d]
<1>3. d \in Datagram /\ ByKtm(d) /\ rx[n] \in Seq(Datagram) /\ inbox[n] \in Seq(Pushed)
  BY DEF SleepInv, SleepTypes, CommandsAreKtms
<1>4. e \in Pushed /\ e.data = d
  BY <1>3 DEF Pushed
<1>5. /\ Len(rx[n]) \in Nat /\ Append(rx[n], d) \in Seq(Datagram) /\ Len(Append(rx[n], d)) = Len(rx[n]) + 1
  BY <1>3
<1>6. inbox' = [inbox EXCEPT ![n] = Append(@, e)]
  BY <1>1
<1>7. UnreadOK(Append(inbox[n], e), Len(rx[n]) + 1, taken[n])
  BY <1>3, <1>5, ArrivalKeepsUnread DEF SleepInv, InboxesOK
<1> HIDE DEF e
<1>8. /\ Append(inbox[n], e) \in Seq(Pushed) /\ Len(inbox[n]) \in Nat
      /\ Len(Append(inbox[n], e)) = Len(inbox[n]) + 1 /\ Append(inbox[n], e)[Len(inbox[n]) + 1] = e
      /\ \A i \in 1 .. Len(inbox[n]) : Append(inbox[n], e)[i] = inbox[n][i]
  BY <1>3, <1>4
<1>9. SleepTypes'
  BY <1>1, <1>2, <1>5, <1>6, <1>8 DEF SleepInv, SleepTypes
<1>10. CommandsAreKtms'
  <2>1. ASSUME NEW m \in SleepNodes, NEW i \in 1 .. Len(inbox'[m]) PROVE ByKtm(inbox'[m][i].data)
    <3>1. CASE m = n
      <4>1. inbox'[m] = Append(inbox[n], e)
        BY <1>6, <3>1 DEF SleepInv, SleepTypes
      <4>2. CASE i \in 1 .. Len(inbox[n])
        BY <1>8, <4>1, <4>2 DEF SleepInv, CommandsAreKtms
      <4>3. CASE i = Len(inbox[n]) + 1
        BY <1>3, <1>4, <1>8, <4>1, <4>3
      <4> QED BY <1>8, <4>1, <4>2, <4>3
    <3>2. CASE m # n
      BY <1>6, <3>2 DEF SleepInv, SleepTypes, CommandsAreKtms
    <3> QED BY <3>1, <3>2
  <2> QED BY <1>2, <2>1 DEF SleepInv, CommandsAreKtms, ByKtm
<1>11. InboxesOK'
  <2> SUFFICES ASSUME NEW m \in SleepNodes PROVE UnreadOK(inbox'[m], Len(rx'[m]), taken'[m]) /\ PopOK(m)'
    BY DEF InboxesOK, UnreadOK, MayGo
  <2>1. CASE m = n
    <3>1. inbox'[m] = Append(inbox[n], e) /\ Len(rx'[m]) = Len(rx[n]) + 1 /\ taken'[m] = taken[n]
      BY <1>1, <1>2, <1>5, <1>6, <2>1 DEF SleepInv, SleepTypes
    <3>2. PopOK(m)'
      BY <1>2, <2>1 DEF PopOK
    <3> QED BY <1>7, <3>1, <3>2
  <2>2. CASE m # n
    <3>1. inbox'[m] = inbox[m] /\ rx'[m] = rx[m] /\ taken'[m] = taken[m] /\ popping' = popping
      BY <1>1, <1>2, <1>6, <2>2 DEF SleepInv, SleepTypes
    <3> QED BY <3>1 DEF SleepInv, InboxesOK, PopOK
  <2> QED BY <2>1, <2>2
<1>12. DeathWasOrdered'
  BY <1>2 DEF SleepInv, DeathWasOrdered
<1> QED BY <1>9, <1>10, <1>11, <1>12 DEF SleepInv

\* The oldest datagram leaves an inbox: it is read, or the reading thread pops it.
LEMMA OldestLeaves ==
    ASSUME SleepInv, NEW n \in SleepNodes, inbox[n] # <<>>, UNCHANGED <<rx, ktm>>,
           inbox' = [inbox EXCEPT ![n] = Tail(@)],
           \/ taken' = [taken EXCEPT ![n] = @ \cup {Head(inbox[n]).at}] /\ popping' = popping
           \/ taken' = taken /\ n \in popping /\ popping' = popping \ {n}
    PROVE  /\ inbox' \in [SleepNodes -> Seq(Pushed)] /\ taken' \in [SleepNodes -> SUBSET Nat]
           /\ \A m \in SleepNodes : \A i \in 1 .. Len(inbox'[m]) : ByKtm(inbox'[m][i].data)
           /\ InboxesOK'
           /\ Head(inbox[n]).data \in Datagram /\ ByKtm(Head(inbox[n]).data)
<1>1. /\ inbox[n] \in Seq(Pushed) /\ Head(inbox[n]) = inbox[n][1] /\ Head(inbox[n]) \in Pushed
      /\ Tail(inbox[n]) \in Seq(Pushed)
      /\ Len(inbox[n]) \in Nat /\ 1 \in 1 .. Len(inbox[n]) /\ Len(Tail(inbox[n])) = Len(inbox[n]) - 1
      /\ \A i \in 1 .. Len(Tail(inbox[n])) : Tail(inbox[n])[i] = inbox[n][i + 1]
  BY DEF SleepInv, SleepTypes
<1>2. Head(inbox[n]).at \in Nat /\ Head(inbox[n]).data \in Datagram
  BY <1>1 DEF Pushed
<1>3. ByKtm(Head(inbox[n]).data)
  BY <1>1 DEF SleepInv, CommandsAreKtms
<1>4. inbox' \in [SleepNodes -> Seq(Pushed)]
  BY <1>1 DEF SleepInv, SleepTypes
<1>5. taken' \in [SleepNodes -> SUBSET Nat] /\ \A m \in SleepNodes \ {n} : taken'[m] = taken[m]
  BY <1>2 DEF SleepInv, SleepTypes
<1>6. taken[n] \subseteq taken'[n] /\ (Head(inbox[n]).at \in taken'[n] \/ n \in popping)
  BY <1>2 DEF SleepInv, SleepTypes
<1>7. ASSUME NEW m \in SleepNodes, NEW i \in 1 .. Len(inbox'[m]) PROVE ByKtm(inbox'[m][i].data)
  <2>1. CASE m = n
    <3>1. inbox'[m][i] = inbox[n][i + 1] /\ i + 1 \in 1 .. Len(inbox[n])
      BY <1>1, <2>1 DEF SleepInv, SleepTypes
    <3> QED BY <3>1 DEF SleepInv, CommandsAreKtms
  <2>2. CASE m # n
    BY <2>2 DEF SleepInv, SleepTypes, CommandsAreKtms
  <2> QED BY <2>1, <2>2
<1>8. InboxesOK'
  <2> SUFFICES ASSUME NEW m \in SleepNodes PROVE UnreadOK(inbox'[m], Len(rx'[m]), taken'[m]) /\ PopOK(m)'
    BY DEF InboxesOK, UnreadOK, MayGo
  <2>1. CASE m = n
    <3>1. inbox'[m] = Tail(inbox[n]) /\ rx'[m] = rx[n] /\ Len(rx[n]) \in Nat
      BY <2>1 DEF SleepInv, SleepTypes
    <3> DEFINE k == Len(rx[n])
               first == (k - Len(inbox[n])) + 1
    <3>2. UnreadOK(inbox[n], k, taken[n]) /\ (n \in popping => MayGo(first, k, taken[n]))
      BY DEF SleepInv, InboxesOK, PopOK
    <3>7. k \in Nat /\ Len(inbox[n]) \in Nat /\ Len(inbox[n]) <= k
      BY <1>1, <3>1, <3>2 DEF UnreadOK
    <3>8. first \in Nat /\ k <= k
      BY <3>7
    <3>3. n \in popping => MayGo(first, k, taken'[n])
      BY <1>6, <3>2, <3>7, <3>8, MayGoStill
    <3>4. UnreadOK(Tail(inbox[n]), k, taken'[n])
      BY <1>1, <1>6, <3>1, <3>2, <3>3, DepartureKeepsUnread
    <3>5. ASSUME n \in popping' PROVE MayGo((k - Len(Tail(inbox[n]))) + 1, k, taken'[n])
      <4>1. Head(inbox[n]).at \in taken'[n]
        BY <1>2, <3>5 DEF SleepInv, SleepTypes
      <4>2. Head(inbox[n]).at = first
        BY <1>1, <3>2 DEF UnreadOK
      <4>3. (k - Len(Tail(inbox[n]))) + 1 = first + 1 /\ first \in Nat
        <5>1. Len(Tail(inbox[n])) = Len(inbox[n]) - 1
          BY <1>1
        <5>2. \A a, b, c \in Nat : c = b - 1 => (a - c) + 1 = ((a - b) + 1) + 1
          OBVIOUS
        <5>3. Len(Tail(inbox[n])) \in Nat
          BY <1>1
        <5> HIDE DEF k
        <5>4. (k - Len(Tail(inbox[n]))) + 1 = first + 1
          BY <3>7, <5>1, <5>2, <5>3, Zenon
        <5> QED BY <3>8, <5>4, Zenon
      <4>4. \A j \in (k - UnreadLimit) .. ((first + 1) - 1) : j \in taken'[n]
        <5> HIDE DEF first, k
        <5>1. ASSUME NEW j \in (k - UnreadLimit) .. ((first + 1) - 1) PROVE j \in taken'[n]
          <6>1. j \in (k - UnreadLimit) .. (first - 1) \/ j = first
            BY <3>1, <4>3, <5>1, SleepAssumption DEF k
          <6> QED BY <3>3, <3>5, <4>1, <4>2, <6>1, <2>1 DEF MayGo
        <5> QED BY <5>1
      <4> QED BY <3>3, <3>5, <4>3, <4>4 DEF MayGo
    <3>6. PopOK(m)'
      BY <2>1, <3>1, <3>5 DEF PopOK
    <3> QED BY <2>1, <3>1, <3>4, <3>6
  <2>2. CASE m # n
    <3>1. inbox'[m] = inbox[m] /\ rx'[m] = rx[m] /\ taken'[m] = taken[m] /\ (m \in popping' => m \in popping)
      BY <1>5, <2>2 DEF SleepInv, SleepTypes
    <3> QED BY <3>1 DEF SleepInv, InboxesOK, PopOK
  <2> QED BY <2>1, <2>2
<1> QED BY <1>2, <1>3, <1>4, <1>5, <1>7, <1>8

\* A datagram that is no command, or is ktm's, goes into an outbox.
LEMMA OutboxGrows ==
    ASSUME SleepInv, NEW n \in SleepNodes, NEW d \in Datagram,
           outbox' = [outbox EXCEPT ![n] = Append(@, d)]
    PROVE  /\ outbox' \in [SleepNodes -> Seq(Datagram)]
           /\ \A m \in SleepNodes : \A i \in 1 .. Len(outbox'[m]) :
                  outbox'[m][i] = d \/ \E j \in 1 .. Len(outbox[m]) : outbox'[m][i] = outbox[m][j]
<1>1. /\ outbox[n] \in Seq(Datagram) /\ Append(outbox[n], d) \in Seq(Datagram) /\ Len(outbox[n]) \in Nat
      /\ Len(Append(outbox[n], d)) = Len(outbox[n]) + 1 /\ Append(outbox[n], d)[Len(outbox[n]) + 1] = d
      /\ \A i \in 1 .. Len(outbox[n]) : Append(outbox[n], d)[i] = outbox[n][i]
  BY DEF SleepInv, SleepTypes
<1>2. outbox' \in [SleepNodes -> Seq(Datagram)]
  BY <1>1 DEF SleepInv, SleepTypes
<1>3. ASSUME NEW m \in SleepNodes, NEW i \in 1 .. Len(outbox'[m])
      PROVE  outbox'[m][i] = d \/ \E j \in 1 .. Len(outbox[m]) : outbox'[m][i] = outbox[m][j]
  <2>1. CASE m = n
    <3>1. outbox'[m] = Append(outbox[n], d)
      BY <2>1 DEF SleepInv, SleepTypes
    <3>2. i \in 1 .. Len(outbox[n]) \/ i = Len(outbox[n]) + 1
      BY <1>1, <3>1
    <3> QED BY <1>1, <2>1, <3>1, <3>2
  <2>2. CASE m # n
    <3>1. outbox'[m] = outbox[m]
      BY <2>2 DEF SleepInv, SleepTypes
    <3> QED BY <3>1
  <2> QED BY <2>1, <2>2
<1> QED BY <1>2, <1>3

\* The reading thread looks at the size of the inbox, then pops it, whatever was read meanwhile.
LEMMA CutKeepsSleepInv ==
    ASSUME SleepInv, NEW n \in SleepNodes, LookAtSize(n) \/ Pop(n)
    PROVE  SleepInv'
<1>1. UNCHANGED <<outbox, group, rx, taken, ktm, sleeper>>
  BY DEF LookAtSize, Pop
<1>2. CASE LookAtSize(n)
  <2>1. UNCHANGED inbox /\ popping' = IF TooLong(inbox[n]) THEN popping \cup {n} ELSE popping
    BY <1>2 DEF LookAtSize
  <2>2. SleepTypes' /\ CommandsAreKtms' /\ DeathWasOrdered'
    BY <1>1, <2>1 DEF SleepInv, SleepTypes, CommandsAreKtms, ByKtm, DeathWasOrdered
  <2>3. ASSUME NEW m \in SleepNodes, m \in popping'
        PROVE  MayGo((Len(rx[m]) - Len(inbox[m])) + 1, Len(rx[m]), taken[m])
    <3>1. UnreadOK(inbox[m], Len(rx[m]), taken[m]) /\ PopOK(m)
      BY DEF SleepInv, InboxesOK
    <3>2. inbox[m] \in Seq(Pushed) /\ Len(rx[m]) \in Nat
      BY DEF SleepInv, SleepTypes
    <3>3. m \in popping \/ TooLong(inbox[m])
      BY <2>1, <2>3
    <3> QED BY <3>1, <3>2, <3>3, TooLongMayGo DEF PopOK
  <2>4. InboxesOK'
    BY <1>1, <2>1, <2>3 DEF SleepInv, InboxesOK, PopOK
  <2> QED BY <2>2, <2>4 DEF SleepInv
<1>3. CASE Pop(n)
  <2>1. n \in popping /\ popping' = popping \ {n}
    BY <1>3 DEF Pop
  <2>2. CASE UNCHANGED inbox
    BY <1>1, <2>1, <2>2
    DEF SleepInv, SleepTypes, CommandsAreKtms, ByKtm, InboxesOK, PopOK, DeathWasOrdered
  <2>3. CASE inbox[n] # <<>> /\ inbox' = [inbox EXCEPT ![n] = Tail(@)]
    <3>1. /\ inbox' \in [SleepNodes -> Seq(Pushed)] /\ InboxesOK'
          /\ \A m \in SleepNodes : \A i \in 1 .. Len(inbox'[m]) : ByKtm(inbox'[m][i].data)
      BY <1>1, <2>1, <2>3, OldestLeaves
    <3>2. SleepTypes'
      BY <1>1, <3>1 DEF SleepInv, SleepTypes
    <3>3. CommandsAreKtms'
      BY <1>1, <3>1 DEF SleepInv, CommandsAreKtms, ByKtm
    <3>4. DeathWasOrdered'
      BY <1>1 DEF SleepInv, DeathWasOrdered
    <3> QED BY <3>1, <3>2, <3>3, <3>4 DEF SleepInv
  <2> QED BY <1>3, <2>2, <2>3 DEF Pop
<1> QED BY <1>2, <1>3

LEMMA KtmKeepsSleepInv ==
    ASSUME SleepInv, KtmWrite \/ KtmRead
    PROVE  SleepInv'
<1>1. CASE KtmWrite
  <2>1. PICK c \in Command : ktm' = c /\ outbox' = [outbox EXCEPT !["ktm"] = Append(@, c)]
    BY <1>1 DEF KtmWrite
  <2>2. ktm = NoDatagram /\ UNCHANGED <<inbox, popping, group, rx, taken, sleeper>>
    BY <1>1 DEF KtmWrite
  <2>3. \A d : ByKtm(d) => d \notin Command
    BY <2>2, DatagramFacts DEF ByKtm
  <2>4. "ktm" \in SleepNodes /\ c \in Datagram
    BY DatagramFacts DEF SleepNodes
  <2>5. /\ outbox' \in [SleepNodes -> Seq(Datagram)]
        /\ \A m \in SleepNodes : \A i \in 1 .. Len(outbox'[m]) :
               outbox'[m][i] = c \/ \E j \in 1 .. Len(outbox[m]) : outbox'[m][i] = outbox[m][j]
    BY <2>1, <2>4, OutboxGrows
  <2>6. SleepTypes'
    BY <2>2, <2>5 DEF SleepInv, SleepTypes
  <2>7. CommandsAreKtms'
    <3>1. ASSUME NEW m \in SleepNodes, NEW i \in 1 .. Len(outbox'[m]) PROVE outbox'[m][i] \in Command => outbox'[m][i] = c
      <4>1. ASSUME NEW j \in 1 .. Len(outbox[m]) PROVE outbox[m][j] \notin Command
        BY <2>3 DEF SleepInv, CommandsAreKtms
      <4> QED BY <2>5, <4>1
    <3>2. ASSUME NEW m \in SleepNodes, NEW i \in 1 .. Len(inbox[m]) PROVE inbox[m][i].data \notin Command
      BY <2>3 DEF SleepInv, CommandsAreKtms
    <3>3. \A d \in group : d \notin Command
      BY <2>3 DEF SleepInv, CommandsAreKtms
    <3> QED BY <2>1, <2>2, <3>1, <3>2, <3>3 DEF CommandsAreKtms, ByKtm
  <2>8. InboxesOK'
    BY <2>2 DEF SleepInv, InboxesOK, PopOK
  <2>9. DeathWasOrdered'
    BY <2>2, DatagramFacts DEF SleepInv, DeathWasOrdered
  <2> QED BY <2>6, <2>7, <2>8, <2>9 DEF SleepInv
<1>2. CASE KtmRead
  <2>1. /\ inbox["ktm"] # <<>> /\ inbox' = [inbox EXCEPT !["ktm"] = Tail(@)]
        /\ taken' = [taken EXCEPT !["ktm"] = @ \cup {Head(inbox["ktm"]).at}]
        /\ UNCHANGED <<outbox, popping, group, rx, ktm, sleeper>> /\ "ktm" \in SleepNodes
    BY <1>2 DEF KtmRead, Pull, SleepNodes
  <2>2. /\ inbox' \in [SleepNodes -> Seq(Pushed)] /\ taken' \in [SleepNodes -> SUBSET Nat] /\ InboxesOK'
        /\ \A m \in SleepNodes : \A i \in 1 .. Len(inbox'[m]) : ByKtm(inbox'[m][i].data)
    BY <2>1, OldestLeaves
  <2>3. SleepTypes'
    BY <2>1, <2>2 DEF SleepInv, SleepTypes
  <2>4. CommandsAreKtms'
    BY <2>1, <2>2 DEF SleepInv, CommandsAreKtms, ByKtm
  <2>5. DeathWasOrdered'
    BY <2>1 DEF SleepInv, DeathWasOrdered
  <2> QED BY <2>2, <2>3, <2>4, <2>5 DEF SleepInv
<1> QED BY <1>1, <1>2

\* The reply of the application, or none, goes into its outbox.
LEMMA RepliesAreNoCommands ==
    ASSUME SleepInv, ktm' = ktm, NEW k \in {"would die", "is dying", "last words"},
           UNCHANGED outbox \/ outbox' = [outbox EXCEPT !["app"] = Append(@, Reply(k))]
    PROVE  /\ outbox' \in [SleepNodes -> Seq(Datagram)]
           /\ \A m \in SleepNodes : \A i \in 1 .. Len(outbox'[m]) : ByKtm(outbox'[m][i])
<1>1. CASE UNCHANGED outbox
  BY <1>1 DEF SleepInv, SleepTypes, CommandsAreKtms
<1>2. CASE outbox' = [outbox EXCEPT !["app"] = Append(@, Reply(k))]
  <2>1. "app" \in SleepNodes /\ Reply(k) \in Datagram /\ ByKtm(Reply(k))
    BY DatagramFacts DEF SleepNodes, ByKtm
  <2>2. /\ outbox' \in [SleepNodes -> Seq(Datagram)]
        /\ \A m \in SleepNodes : \A i \in 1 .. Len(outbox'[m]) :
               outbox'[m][i] = Reply(k) \/ \E j \in 1 .. Len(outbox[m]) : outbox'[m][i] = outbox[m][j]
    BY <1>2, <2>1, OutboxGrows
  <2>3. \A m \in SleepNodes : \A j \in 1 .. Len(outbox[m]) : ByKtm(outbox[m][j])
    BY DEF SleepInv, CommandsAreKtms
  <2>4. ASSUME NEW m \in SleepNodes, NEW i \in 1 .. Len(outbox'[m]) PROVE ByKtm(outbox'[m][i])
    BY <2>1, <2>2, <2>3, Zenon
  <2> QED BY <2>2, <2>4
<1> QED BY <1>1, <1>2

\* SuicidalSleeper::Work: only a kill of ktm's, with phrase and name, leads to the last rights.
LEMMA WorkKeepsSleepInv ==
    ASSUME SleepInv, Work
    PROVE  SleepInv'
<1> DEFINE d == Head(inbox["app"]).data
<1>1. /\ inbox["app"] # <<>> /\ inbox' = [inbox EXCEPT !["app"] = Tail(@)]
      /\ taken' = [taken EXCEPT !["app"] = @ \cup {Head(inbox["app"]).at}]
      /\ UNCHANGED <<popping, group, rx, ktm>> /\ "app" \in SleepNodes
  BY DEF Work, Pull, SleepNodes
<1>2. /\ inbox' \in [SleepNodes -> Seq(Pushed)] /\ taken' \in [SleepNodes -> SUBSET Nat] /\ InboxesOK'
      /\ \A m \in SleepNodes : \A i \in 1 .. Len(inbox'[m]) : ByKtm(inbox'[m][i].data)
      /\ ByKtm(d)
  BY <1>1, OldestLeaves
<1>3. \/ UNCHANGED <<outbox, sleeper>>
      \/ outbox' = [outbox EXCEPT !["app"] = Append(@, Reply("would die"))] /\ UNCHANGED sleeper
      \/ outbox' = [outbox EXCEPT !["app"] = Append(@, Reply("is dying"))] /\ IsForMe(d) /\ d.kind # "?"
  BY DEF Work
<1> HIDE DEF d
<1>4. /\ outbox' \in [SleepNodes -> Seq(Datagram)]
      /\ \A m \in SleepNodes : \A i \in 1 .. Len(outbox'[m]) : ByKtm(outbox'[m][i])
  <2>1. \E k \in {"would die", "is dying", "last words"} :
           UNCHANGED outbox \/ outbox' = [outbox EXCEPT !["app"] = Append(@, Reply(k))]
    BY <1>3
  <2> QED BY <1>1, <2>1, RepliesAreNoCommands
<1>5. SleepTypes'
  BY <1>1, <1>2, <1>4 DEF SleepInv, SleepTypes
<1>6. CommandsAreKtms'
  BY <1>1, <1>2, <1>4 DEF SleepInv, CommandsAreKtms, ByKtm
<1>7. DeathWasOrdered'
  <2>1. CASE UNCHANGED sleeper
    BY <1>1, <2>1 DEF SleepInv, DeathWasOrdered
  <2>2. CASE IsForMe(d) /\ d.kind # "?"
    <3>1. d \in Command /\ d = ktm /\ d.phrase /\ d.matches
      BY <1>2, <2>2, Zenon DEF IsForMe, ByKtm
    <3>2. d.kind = "K"
      BY <2>2, <3>1 DEF Command
    <3>3. ktm \in Command /\ ktm.kind = "K" /\ ktm.phrase /\ ktm.matches
      BY <3>1, <3>2, Zenon
    <3> QED BY <1>1, <3>3, Zenon DEF DeathWasOrdered
  <2> QED BY <1>3, <2>1, <2>2
<1> QED BY <1>2, <1>5, <1>6, <1>7 DEF SleepInv

\* The callback of the last rights and the count down, which begin after the order.
LEMMA DyingKeepsSleepInv ==
    ASSUME SleepInv, LastRights \/ Count \/ (Exit /\ sleeper # "work")
    PROVE  SleepInv'
<1>1. /\ UNCHANGED <<inbox, popping, group, rx, taken, ktm>> /\ (sleeper' # "work" => sleeper # "work")
      /\ UNCHANGED outbox \/ outbox' = [outbox EXCEPT !["app"] = Append(@, Reply("last words"))]
  BY DEF LastRights, Count, Exit
<1>2. /\ outbox' \in [SleepNodes -> Seq(Datagram)]
      /\ \A m \in SleepNodes : \A i \in 1 .. Len(outbox'[m]) : ByKtm(outbox'[m][i])
  BY <1>1, RepliesAreNoCommands
<1>3. SleepTypes'
  BY <1>1, <1>2 DEF SleepInv, SleepTypes
<1>4. CommandsAreKtms'
  BY <1>1, <1>2 DEF SleepInv, CommandsAreKtms, ByKtm
<1>5. InboxesOK'
  BY <1>1 DEF SleepInv, InboxesOK, PopOK
<1>6. DeathWasOrdered'
  BY <1>1 DEF SleepInv, DeathWasOrdered
<1> QED BY <1>3, <1>4, <1>5, <1>6 DEF SleepInv

\* The count down runs only once the order has been accepted.
CountsOnlyDying == seconds # NotCounting => sleeper # "work"

\* For every limit of the inbox and every count down, on a group that loses, repeats and reorders:
\* the application dies only of a kill of ktm's with its phrase and its name, and an inbox discards
\* nothing before its limit is passed and nothing while an older of the latest is unread, although
\* it is looked at and popped in two steps.
THEOREM SleeperDiesByOrder == SleepSpec => []DeathIsByOrder
<1> DEFINE Inv == SleepInv /\ CountsOnlyDying
<1>1. SleepInit => Inv
  BY SleepStarts DEF SleepInit, CountsOnlyDying
<1>2. Inv /\ [SleepNext]_ssleepVars => Inv'
  <2> SUFFICES ASSUME SleepInv, CountsOnlyDying, [SleepNext]_ssleepVars PROVE Inv'
    OBVIOUS
  <2>1. SleepInv'
    <3>1. CASE Exit
      BY <3>1, DyingKeepsSleepInv DEF Exit, CountsOnlyDying, NotCounting
    <3>2. CASE SleepNext /\ ~Exit
      BY <3>2, WriteKeepsSleepInv, ReadKeepsSleepInv, CutKeepsSleepInv, KtmKeepsSleepInv,
         WorkKeepsSleepInv, DyingKeepsSleepInv DEF SleepNext
    <3>3. CASE UNCHANGED ssleepVars
      BY <3>3 DEF ssleepVars, SleepInv, SleepTypes, CommandsAreKtms, ByKtm, InboxesOK, PopOK, DeathWasOrdered
    <3> QED BY <3>1, <3>2, <3>3
  <2>2. CountsOnlyDying'
    <3>1. CASE Work
      <4>1. \/ UNCHANGED <<sleeper, seconds>>
            \/ sleeper' = "last rights"
        BY <3>1 DEF Work
      <4> QED BY <4>1 DEF CountsOnlyDying
    <3>2. CASE LastRights \/ Count \/ Exit
      <4>1. CASE LastRights
        BY <4>1 DEF LastRights, CountsOnlyDying
      <4>2. CASE Count
        <5>1. seconds # NotCounting /\ UNCHANGED sleeper
          BY <4>2 DEF Count, NotCounting
        <5> QED BY <5>1 DEF CountsOnlyDying
      <4>3. CASE Exit
        BY <4>3 DEF Exit, CountsOnlyDying
      <4> QED BY <3>2, <4>1, <4>2, <4>3
    <3>3. CASE UNCHANGED <<sleeper, seconds>>
      BY <3>3 DEF CountsOnlyDying
    <3>4. KtmWrite \/ KtmRead \/ (\E n \in SleepNodes : WriteLoop(n) \/ ReadLoop(n) \/ LookAtSize(n) \/ Pop(n))
            => UNCHANGED <<sleeper, seconds>>
      BY DEF KtmWrite, KtmRead, WriteLoop, ReadLoop, LookAtSize, Pop
    <3>5. UNCHANGED ssleepVars => UNCHANGED <<sleeper, seconds>>
      BY DEF ssleepVars
    <3> QED BY <3>1, <3>2, <3>3, <3>4, <3>5 DEF SleepNext
  <2> QED BY <2>1, <2>2
<1>3. Inv => DeathIsByOrder
  <2> SUFFICES ASSUME SleepInv, NEW n \in SleepNodes, NEW i \in Discarded(n)
               PROVE  /\ Len(rx[n]) > UnreadLimit
                      /\ (Len(rx[n]) - UnreadLimit) .. (i - 1) \subseteq taken[n]
    BY DEF DeathIsByOrder, OldestGoFirst, SleepInv
  <2>1. inbox[n] \in Seq(Pushed) /\ Len(rx[n]) \in Nat /\ UnreadOK(inbox[n], Len(rx[n]), taken[n])
    BY DEF SleepInv, SleepTypes, InboxesOK
  <2>2. i \in 1 .. Len(rx[n]) /\ i \notin taken[n] /\ ~\E j \in 1 .. Len(inbox[n]) : inbox[n][j].at = i
    BY DEF Discarded
  <2> QED BY <2>1, <2>2, UnreadIsLatest DEF MayGo
<1> QED BY <1>1, <1>2, <1>3, PTL DEF SleepSpec

-----------------------------------------------------------------------------
(* The dynamic variables                                                   *)

VariableFields == {"name", "sub", "dfVal", "sVal", "bDouble", "fresh", "time"}

\* The message a variable would be published with is the write it is fresh from.
WriteOf(v) == [type |-> IF v.bDouble THEN "double" ELSE "string",
               val |-> IF v.bDouble THEN v.dfVal ELSE v.sVal, time |-> v.time]

\* A variable is fresh exactly from its last write.
VariableOK(v, last) ==
    /\ DOMAIN v = VariableFields
    /\ v.bDouble \in BOOLEAN /\ v.fresh \in BOOLEAN
    /\ last = IF v.fresh THEN WriteOf(v) ELSE NoWrite

\* The inductive invariant.
DYInv ==
    /\ DOMAIN dyVars \subseteq DynNames
    /\ DOMAIN dyLast = DynNames
    /\ \A n \in DynNames \ DOMAIN dyVars : dyLast[n] = NoWrite
    /\ \A n \in DOMAIN dyVars : VariableOK(dyVars[n], dyLast[n])

\* A write to a variable makes it fresh from that write, whichever type it had.
LEMMA WritesAreKept ==
    ASSUME NEW v, NEW last, VariableOK(v, last), NEW val, NEW time
    PROVE  /\ VariableOK(SetDouble(v, val, time), [type |-> "double", val |-> val, time |-> time])
           /\ VariableOK(SetString(v, val, time), [type |-> "string", val |-> val, time |-> time])
           /\ VariableOK([v EXCEPT !.fresh = FALSE], NoWrite)
<1>1. DOMAIN v = VariableFields /\ v.bDouble \in BOOLEAN
  BY DEF VariableOK
<1>2. ASSUME NEW u, u = SetDouble(v, val, time)
      PROVE  VariableOK(u, [type |-> "double", val |-> val, time |-> time])
  <2>1. DOMAIN u = VariableFields
    BY <1>1, <1>2 DEF SetDouble
  <2>2. u.dfVal = val /\ u.time = time /\ u.bDouble = TRUE /\ u.fresh = TRUE
    BY <1>1, <1>2 DEF SetDouble, VariableFields
  <2> QED BY <2>1, <2>2 DEF VariableOK, WriteOf
<1>3. ASSUME NEW u, u = SetString(v, val, time)
      PROVE  VariableOK(u, [type |-> "string", val |-> val, time |-> time])
  <2>1. DOMAIN u = VariableFields
    BY <1>1, <1>3 DEF SetString
  <2>2. u.sVal = val /\ u.time = time /\ u.bDouble = FALSE /\ u.fresh = TRUE
    BY <1>1, <1>3 DEF SetString, VariableFields
  <2> QED BY <2>1, <2>2 DEF VariableOK, WriteOf
<1>4. ASSUME NEW u, u = [v EXCEPT !.fresh = FALSE] PROVE VariableOK(u, NoWrite)
  <2>1. DOMAIN u = VariableFields
    BY <1>1, <1>4
  <2>2. u.bDouble = v.bDouble /\ u.fresh = FALSE
    BY <1>1, <1>4 DEF VariableFields
  <2> QED BY <1>1, <2>1, <2>2 DEF VariableOK
<1> QED BY <1>2, <1>3, <1>4

\* A message is such a write, and gives the variable its key for a name.
LEMMA MailIsKept ==
    ASSUME NEW v, NEW last, VariableOK(v, last), NEW msg, msg.type \in {"double", "string"}
    PROVE  VariableOK(SetFromMsg(v, msg), [type |-> msg.type, val |-> msg.val, time |-> msg.time])
<1> DEFINE u == IF msg.type = "double" THEN SetDouble(v, msg.val, msg.time) ELSE SetString(v, msg.val, msg.time)
           w == [type |-> msg.type, val |-> msg.val, time |-> msg.time]
<1>1. VariableOK(u, w)
  <2>1. CASE msg.type = "double"
    BY <2>1, WritesAreKept
  <2>2. CASE msg.type = "string"
    BY <2>2, WritesAreKept
  <2> QED BY <2>1, <2>2
<1>2. SetFromMsg(v, msg) = [u EXCEPT !.name = msg.key]
  BY DEF SetFromMsg
<1> HIDE DEF u, w
<1>3. PICK x : x = SetFromMsg(v, msg)
  OBVIOUS
<1>4. /\ DOMAIN x = VariableFields
      /\ x.dfVal = u.dfVal /\ x.sVal = u.sVal /\ x.bDouble = u.bDouble /\ x.fresh = u.fresh /\ x.time = u.time
  BY <1>1, <1>2, <1>3 DEF VariableOK, VariableFields
<1>5. VariableOK(x, w)
  BY <1>1, <1>4 DEF VariableOK, WriteOf
<1> QED BY <1>3, <1>5 DEF w

LEMMA DYStart == DYInit => DYInv
BY DEF DYInit, DYInv

LEMMA DYStep ==
    ASSUME DYInv, [DYNext]_dyVars_
    PROVE  DYInv'
<1>1. ASSUME NEW n \in DynNames, NEW sub, AddMOOSVariable(n, sub) PROVE DYInv'
  <2>1. /\ n \notin DOMAIN dyVars /\ UNCHANGED dyLast
        /\ dyVars' = [k \in DOMAIN dyVars \cup {n} |-> IF k = n THEN NewVariable(n, sub) ELSE dyVars[k]]
    BY <1>1 DEF AddMOOSVariable
  <2>2. VariableOK(NewVariable(n, sub), NoWrite)
    <3>1. DOMAIN NewVariable(n, sub) = VariableFields
      BY DEF NewVariable, VariableFields
    <3>2. NewVariable(n, sub).bDouble = FALSE /\ NewVariable(n, sub).fresh = FALSE
      BY DEF NewVariable
    <3> QED BY <3>1, <3>2 DEF VariableOK
  <2> QED BY <2>1, <2>2 DEF DYInv
\* A write to one variable.
<1>2. ASSUME NEW n \in DynNames, n \in DOMAIN dyVars, NEW v, NEW w, VariableOK(v, w),
             dyVars' = [dyVars EXCEPT ![n] = v], dyLast' = [dyLast EXCEPT ![n] = w]
      PROVE  DYInv'
  BY <1>2 DEF DYInv
<1>3. ASSUME UNCHANGED <<dyVars, dyLast>> PROVE DYInv'
  BY <1>3 DEF DYInv
<1>4. ASSUME NEW n \in DynNames, NEW t \in {"double", "string"}, SetMOOSVar(n, t) PROVE DYInv'
  <2> DEFINE v == IF t = "double" THEN SetDouble(dyVars[n], dyClock, dyClock) ELSE SetString(dyVars[n], dyClock, dyClock)
             w == [type |-> t, val |-> dyClock, time |-> dyClock]
  <2>1. /\ n \in DOMAIN dyVars
        /\ dyVars' = [dyVars EXCEPT ![n] = v] /\ dyLast' = [dyLast EXCEPT ![n] = w]
    BY <1>4 DEF SetMOOSVar, Written
  <2>2. VariableOK(v, w)
    <3>1. VariableOK(dyVars[n], dyLast[n])
      BY <2>1 DEF DYInv
    <3>2. CASE t = "double"
      BY <3>1, <3>2, WritesAreKept
    <3>3. CASE t = "string"
      BY <3>1, <3>3, WritesAreKept
    <3> QED BY <3>2, <3>3
  <2> HIDE DEF v, w
  <2> QED BY <1>2, <2>1, <2>2
<1>5. ASSUME NEW n \in DynNames, SetMOOSVariable(n) PROVE DYInv'
  <2> DEFINE v == SetDouble(dyVars[n], dyClock, dyClock)
             w == [type |-> "double", val |-> dyClock, time |-> dyClock]
  <2>1. /\ n \in DOMAIN dyVars
        /\ \/ /\ v.name \in DOMAIN dyVars /\ dyVars' = [dyVars EXCEPT ![v.name] = v]
              /\ dyLast' = [dyLast EXCEPT ![v.name] = w]
           \/ UNCHANGED <<dyVars, dyLast>>
    BY <1>5 DEF SetMOOSVariable, Written
  <2>2. VariableOK(v, w)
    BY <2>1, WritesAreKept DEF DYInv
  <2>3. v.name \in DOMAIN dyVars => v.name \in DynNames
    BY DEF DYInv
  <2> HIDE DEF v, w
  <2> QED BY <1>2, <1>3, <2>1, <2>2, <2>3
<1>6. ASSUME NEW mail \in DyMail, UpdateMOOSVariables(mail) PROVE DYInv'
  <2> DEFINE at(n) == PeekFirst(mail, dyVars[n].sub)
             takes(n) == at(n) # 0 /\ ~IsSkewed(mail[at(n)])
             w(n) == [type |-> mail[at(n)].type, val |-> mail[at(n)].val, time |-> mail[at(n)].time]
  <2>1. /\ dyVars' = [n \in DOMAIN dyVars |-> IF takes(n) THEN SetFromMsg(dyVars[n], mail[at(n)]) ELSE dyVars[n]]
        /\ dyLast' = [n \in DynNames |-> IF n \in DOMAIN dyVars /\ takes(n) THEN w(n) ELSE dyLast[n]]
    BY <1>6 DEF UpdateMOOSVariables
  <2>2. \A i \in 1 .. Len(mail) : mail[i].type \in {"double", "string"}
    BY DEF DyMail
  <2>3. \A n : at(n) # 0 => at(n) \in 1 .. Len(mail)
    <3> SUFFICES ASSUME NEW n, at(n) # 0 PROVE at(n) \in 1 .. Len(mail)
      OBVIOUS
    <3> DEFINE S == {i \in 1 .. Len(mail) : mail[i].key = dyVars[n].sub}
    <3>1. S # {} /\ at(n) = CHOOSE i \in S : \A j \in S : i <= j
      BY DEF PeekFirst
    <3>2. \E i \in S : \A j \in S : i <= j
      <4>1. Len(mail) \in {1, 2}
        BY DEF DyMail
      <4>2. S \subseteq {1, 2} /\ S # {}
        BY <3>1, <4>1
      <4> HIDE DEF S
      <4>3. CASE 1 \in S
        BY <4>2, <4>3
      <4>4. CASE 1 \notin S
        <5>1. S = {2}
          BY <4>2, <4>4
        <5> QED BY <5>1
      <4> QED BY <4>3, <4>4
    <3> QED BY <3>1, <3>2
  <2>4. ASSUME NEW n \in DOMAIN dyVars, takes(n) PROVE VariableOK(SetFromMsg(dyVars[n], mail[at(n)]), w(n))
    <3>1. mail[at(n)].type \in {"double", "string"}
      BY <2>2, <2>3, <2>4
    <3>2. VariableOK(dyVars[n], dyLast[n])
      BY DEF DYInv
    <3> HIDE DEF at
    <3> QED BY <3>1, <3>2, MailIsKept
  <2> HIDE DEF at, takes, w
  <2> QED BY <2>1, <2>4 DEF DYInv
<1>7. CASE PublishFreshMOOSVariables
  <2>1. /\ dyVars' = [n \in DOMAIN dyVars |-> [dyVars[n] EXCEPT !.fresh = FALSE]]
        /\ dyLast' = [n \in DynNames |-> IF n \in Fresh THEN NoWrite ELSE dyLast[n]]
    BY <1>7 DEF PublishFreshMOOSVariables
  <2>2. ASSUME NEW n \in DOMAIN dyVars
        PROVE  /\ VariableOK([dyVars[n] EXCEPT !.fresh = FALSE], NoWrite)
               /\ n \notin Fresh => dyLast[n] = NoWrite
    <3>1. VariableOK(dyVars[n], dyLast[n])
      BY DEF DYInv
    <3>2. VariableOK([dyVars[n] EXCEPT !.fresh = FALSE], NoWrite)
      BY <3>1, WritesAreKept
    <3>3. ~dyVars[n].fresh => dyLast[n] = NoWrite
      BY <3>1 DEF VariableOK
    <3> QED BY <3>2, <3>3 DEF Fresh
  <2> QED BY <2>1, <2>2 DEF DYInv, Fresh
<1>8. CASE UNCHANGED dyVars_ \/ RegisterMOOSVariables
  BY <1>3, <1>8 DEF dyVars_, RegisterMOOSVariables
<1>9. ASSUME NEW t, NEW e, Notify(t, e) PROVE DYInv'
  BY <1>3, <1>9 DEF Notify
<1> QED BY <1>1, <1>4, <1>5, <1>6, <1>7, <1>8, <1>9 DEF DYNext

\* For any number of variables, whatever is written, arrives by mail and is published in between:
\* what is published of a variable is its last write, its type, value and time together, and once.
THEOREM VariablesAreTheirWrites == DYSpec => PublishedIsOneWrite
<1> DEFINE Sent(n) == {m \in dyPosted' : m.name = PublishName(n)}
           One(n) == IF dyUp /\ dyLast[n] # NoWrite
                     THEN Sent(n) = {[name |-> PublishName(n), type |-> dyLast[n].type, val |-> dyLast[n].val,
                                      time |-> dyLast[n].time]}
                     ELSE Sent(n) = {}
<1>1. ASSUME DYInv, PublishFreshMOOSVariables, NEW n \in DynNames PROVE One(n)
  <2>1. dyPosted' = IF dyUp THEN {Notification(PublishName(k), dyVars[k]) : k \in Fresh} ELSE {}
    BY <1>1 DEF PublishFreshMOOSVariables, Posted
  <2>2. \A k, v : Notification(PublishName(k), v).name = PublishName(k)
    BY DEF Notification
  <2>3. \A k : PublishName(k) = PublishName(n) => k = n
    BY DEF PublishName
  <2>4. dyUp => Sent(n) = IF n \in Fresh THEN {Notification(PublishName(n), dyVars[n])} ELSE {}
    BY <2>1, <2>2, <2>3
  <2>5. ~dyUp => Sent(n) = {}
    BY <2>1
  <2>6. CASE n \in Fresh
    <3>1. n \in DOMAIN dyVars /\ dyVars[n].fresh
      BY <2>6 DEF Fresh
    <3>2. dyLast[n] = WriteOf(dyVars[n])
      BY <1>1, <3>1 DEF DYInv, VariableOK
    <3>3. dyLast[n] # NoWrite
      BY <3>2 DEF WriteOf, NoWrite
    <3>4. Notification(PublishName(n), dyVars[n]) =
             [name |-> PublishName(n), type |-> dyLast[n].type, val |-> dyLast[n].val, time |-> dyLast[n].time]
      BY <3>2 DEF WriteOf, Notification
    <3> QED BY <2>4, <2>5, <2>6, <3>3, <3>4
  <2>7. CASE n \notin Fresh
    <3>1. dyLast[n] = NoWrite
      BY <1>1, <2>7 DEF DYInv, VariableOK, Fresh
    <3> QED BY <2>4, <2>5, <2>7, <3>1
  <2> QED BY <2>6, <2>7
<1>2. DYInv /\ [DYNext]_dyVars_ => [PublishFreshMOOSVariables => \A n \in DynNames : One(n)]_dyVars_
  BY <1>1
<1>3. DYInv /\ [DYNext]_dyVars_ => DYInv'
  BY DYStep
<1> QED BY <1>2, <1>3, DYStart, PTL DEF DYSpec, PublishedIsOneWrite

-----------------------------------------------------------------------------
(* The string functions                                                    *)

\* The least position of a set of them.
LEMMA FirstPosition ==
    ASSUME NEW S \in SUBSET Nat, NEW k \in S, \A j \in S : k <= j
    PROVE  FirstOf(S) = k
<1>1. FirstPos[S] = IF S = {} THEN NoPos ELSE CHOOSE i \in S : \A j \in S : i <= j
  BY DEF FirstPos
<1>2. \A i \in S : (\A j \in S : i <= j) => i = k
  <2> TAKE i \in S
  <2>1. i \in Nat /\ k \in Nat
    OBVIOUS
  <2>2. (\A j \in S : i <= j) => i <= k /\ k <= i
    OBVIOUS
  <2> QED BY <2>1, <2>2
<1>3. (CHOOSE i \in S : \A j \in S : i <= j) \in S
      /\ \A j \in S : (CHOOSE i \in S : \A m \in S : i <= m) <= j
  OBVIOUS
<1> QED BY <1>1, <1>2, <1>3 DEF FirstOf

\* Sequences of one, two and three characters.
LEMMA ShortSequences ==
    ASSUME NEW T, NEW a \in T, NEW b \in T, NEW c \in T
    PROVE  /\ <<>> \in Seq(T) /\ <<a>> \in Seq(T) /\ <<a, b>> \in Seq(T) /\ <<a, b, c>> \in Seq(T)
           /\ <<a>> # <<>>
           /\ <<a>> \o <<b>> = <<a, b>> /\ <<a>> \o <<b>> \o <<c>> = <<a, b, c>>
<1>1. <<a>> \o <<b>> = <<a, b>>
  <2> DEFINE s == <<a>> \o <<b>>
             t == <<a, b>>
  <2>1. s \in Seq(T) /\ Len(s) = 2 /\ s[1] = a /\ s[2] = b
    OBVIOUS
  <2>2. t \in Seq(T) /\ Len(t) = 2 /\ t[1] = a /\ t[2] = b
    OBVIOUS
  <2>3. \A i \in 1 .. Len(s) : s[i] = t[i]
    BY <2>1, <2>2
  <2> HIDE DEF s, t
  <2>4. s = t
    BY <2>1, <2>2, <2>3, SeqEqual
  <2> QED BY <2>4 DEF s, t
<1>2. <<a, b>> \o <<c>> = <<a, b, c>>
  <2> DEFINE s == <<a, b>> \o <<c>>
             t == <<a, b, c>>
  <2>1. s \in Seq(T) /\ Len(s) = 3 /\ s[1] = a /\ s[2] = b /\ s[3] = c
    OBVIOUS
  <2>2. t \in Seq(T) /\ Len(t) = 3 /\ t[1] = a /\ t[2] = b /\ t[3] = c
    OBVIOUS
  <2>3. \A i \in 1 .. Len(s) : s[i] = t[i]
    BY <2>1, <2>2
  <2> HIDE DEF s, t
  <2>4. s = t
    BY <2>1, <2>2, <2>3, SeqEqual
  <2> QED BY <2>4 DEF s, t
<1>3. <<>> \in Seq(T) /\ <<a>> \in Seq(T) /\ <<a, b>> \in Seq(T) /\ <<a, b, c>> \in Seq(T) /\ <<a>> # <<>>
  OBVIOUS
<1> QED BY <1>1, <1>2, <1>3

\* What std::string::substr takes out when it takes one character.
LEMMA OneCharacter ==
    ASSUME NEW T, NEW s \in Seq(T), NEW i \in 1 .. Len(s), NEW c
    PROVE  SubSeq(s, i, i) = <<c>> <=> s[i] = c
<1>1. SubSeq(s, i, i) \in Seq(T) /\ Len(SubSeq(s, i, i)) = 1 /\ SubSeq(s, i, i)[1] = s[i]
  OBVIOUS
<1>2. <<s[i]>> \in Seq(T) /\ Len(<<s[i]>>) = 1 /\ <<s[i]>>[1] = s[i]
  OBVIOUS
<1>3. SubSeq(s, i, i) = <<s[i]>>
  <2> DEFINE a == SubSeq(s, i, i)
             b == <<s[i]>>
  <2>1. a \in Seq(T) /\ b \in Seq(T) /\ Len(a) = Len(b)
    BY <1>1, <1>2
  <2>2. \A j \in 1 .. Len(a) : a[j] = b[j]
    BY <1>1, <1>2
  <2> HIDE DEF a, b
  <2>3. a = b
    BY <2>1, <2>2, SeqEqual
  <2> QED BY <2>3 DEF a, b
<1>4. SubSeq(s, i, i) = <<c>> => s[i] = c
  <2>1. <<c>>[1] = c
    OBVIOUS
  <2> QED BY <1>1, <2>1
<1> QED BY <1>3, <1>4

\* Where a separator of one character is looked for.
LEMMA SeparatorsAt ==
    ASSUME NEW T, NEW s \in Seq(T), NEW c
    PROVE  StrFind(s, <<c>>) = FirstOf({i \in 1 .. Len(s) : s[i] = c})
<1>1. Len(<<c>>) = 1 /\ Len(s) \in Nat /\ <<c>> # <<>>
  OBVIOUS
<1>2. {i \in 1 .. Len(s) - Len(<<c>>) + 1 : SubSeq(s, i, i + Len(<<c>>) - 1) = <<c>>}
          = {i \in 1 .. Len(s) : SubSeq(s, i, i) = <<c>>}
  BY <1>1
<1>3. {i \in 1 .. Len(s) : SubSeq(s, i, i) = <<c>>} = {i \in 1 .. Len(s) : s[i] = c}
  <2>1. \A i \in 1 .. Len(s) : SubSeq(s, i, i) = <<c>> <=> s[i] = c
    BY OneCharacter
  <2> QED BY <2>1
<1> QED BY <1>1, <1>2, <1>3 DEF StrFind

\* MOOSChomp takes off what stands before the first separator, and leaves what stands behind it.
LEMMA ChompSplits ==
    ASSUME NEW T, NEW h \in Seq(T), NEW r \in Seq(T), NEW c \in T,
           \A i \in 1 .. Len(h) : h[i] # c
    PROVE  MOOSChomp(h \o <<c>> \o r, <<c>>) = [head |-> h, rest |-> r]
<1> DEFINE s == h \o <<c>> \o r
           S == {i \in 1 .. Len(s) : s[i] = c}
           k == Len(h) + 1
           at == [n \in Nat |-> IF n = NoPos THEN [head |-> s, rest |-> <<>>]
                                ELSE [head |-> SubSeq(s, 1, n - 1), rest |-> From(s, n + Len(<<c>>))]]
<1>1. Len(<<c>>) = 1 /\ Len(h) \in Nat /\ Len(r) \in Nat /\ <<c>> \in Seq(T) /\ <<c>>[1] = c
  OBVIOUS
<1>2. /\ h \o <<c>> \in Seq(T) /\ Len(h \o <<c>>) = Len(h) + 1 /\ (h \o <<c>>)[k] = c
      /\ \A i \in 1 .. Len(h) : (h \o <<c>>)[i] = h[i]
  OBVIOUS
<1>3. /\ s \in Seq(T) /\ Len(s) = k + Len(r)
      /\ \A i \in 1 .. Len(s) : s[i] = IF i <= k THEN (h \o <<c>>)[i] ELSE r[i - k]
  <2> DEFINE hc == h \o <<c>>
  <2>1. hc \in Seq(T) /\ Len(hc) = k
    BY <1>2
  <2> HIDE DEF hc, k
  <2>2. /\ hc \o r \in Seq(T) /\ Len(hc \o r) = k + Len(r)
        /\ \A i \in 1 .. k + Len(r) : (hc \o r)[i] = IF i <= k THEN hc[i] ELSE r[i - k]
    BY <2>1, ConcatProperties
  <2> QED BY <2>2 DEF hc
<1> HIDE DEF s
<1>4. k \in S
  BY <1>1, <1>2, <1>3
<1>5. \A j \in S : k <= j
  <2> SUFFICES ASSUME NEW j \in S, ~(k <= j) PROVE FALSE
    OBVIOUS
  <2>1. j \in 1 .. Len(h) /\ j \in 1 .. Len(s) /\ j <= k
    BY <1>1, <1>3
  <2>2. s[j] = h[j] /\ s[j] = c
    BY <1>2, <1>3, <2>1
  <2> QED BY <2>1, <2>2
<1>6. StrFind(s, <<c>>) = k
  <2>1. S \in SUBSET Nat
    BY <1>3
  <2>2. StrFind(s, <<c>>) = FirstOf(S)
    <3>1. s \in Seq(T)
      BY <1>3
    <3> QED BY <3>1, SeparatorsAt
  <2> HIDE DEF S, k
  <2> QED BY <1>4, <1>5, <2>1, <2>2, FirstPosition
<1>7. SubSeq(s, 1, Len(h)) = h
  <2> DEFINE a == SubSeq(s, 1, Len(h))
  <2>1. a \in Seq(T) /\ Len(a) = Len(h) /\ \A i \in 1 .. Len(h) : a[i] = s[i]
    BY <1>1, <1>3
  <2>2. \A i \in 1 .. Len(h) : s[i] = h[i]
    BY <1>1, <1>2, <1>3
  <2> HIDE DEF a
  <2>3. a = h
    BY <2>1, <2>2, SeqEqual
  <2> QED BY <2>3 DEF a
<1>8. SubSeq(s, k + 1, Len(s)) = r
  <2> DEFINE a == SubSeq(s, k + 1, Len(s))
  <2>1. a \in Seq(T) /\ Len(a) = Len(r) /\ \A i \in 1 .. Len(r) : a[i] = s[k + i]
    BY <1>1, <1>3
  <2>2. ASSUME NEW i \in 1 .. Len(r) PROVE s[k + i] = r[i]
    <3>1. k + i \in 1 .. Len(s) /\ ~(k + i <= k) /\ (k + i) - k = i
      BY <1>1, <1>3
    <3> HIDE DEF k
    <3> QED BY <1>3, <3>1
  <2> HIDE DEF a, k
  <2>3. a = r
    BY <2>1, <2>2, SeqEqual
  <2> QED BY <2>3 DEF a
<1>9. at[k] = [head |-> h, rest |-> r]
  <2>1. k \in Nat /\ k # NoPos /\ k + Len(<<c>>) = k + 1 /\ k - 1 = Len(h)
    BY <1>1 DEF NoPos
  <2> HIDE DEF k
  <2> QED BY <1>7, <1>8, <2>1 DEF From
<1>10. MOOSChomp(s, <<c>>) = at[StrFind(s, <<c>>)]
  BY DEF MOOSChomp
<1> QED BY <1>6, <1>9, <1>10 DEF s

\* Without a separator everything is taken off.
LEMMA ChompWhole ==
    ASSUME NEW T, NEW h \in Seq(T), NEW c \in T, \A i \in 1 .. Len(h) : h[i] # c
    PROVE  MOOSChomp(h, <<c>>) = [head |-> h, rest |-> <<>>]
<1> DEFINE S == {i \in 1 .. Len(h) : h[i] = c}
           at == [n \in Nat |-> IF n = NoPos THEN [head |-> h, rest |-> <<>>]
                                ELSE [head |-> SubSeq(h, 1, n - 1), rest |-> From(h, n + Len(<<c>>))]]
<1>1. S = {}
  OBVIOUS
<1>2. StrFind(h, <<c>>) = FirstOf(S)
  BY SeparatorsAt
<1> HIDE DEF S
<1>3. FirstPos[S] = IF S = {} THEN NoPos ELSE CHOOSE i \in S : \A j \in S : i <= j
  BY <1>1 DEF FirstPos
<1>4. StrFind(h, <<c>>) = NoPos
  BY <1>1, <1>2, <1>3 DEF FirstOf
<1>5. at[NoPos] = [head |-> h, rest |-> <<>>]
  BY DEF NoPos
<1>6. MOOSChomp(h, <<c>>) = at[StrFind(h, <<c>>)]
  BY DEF MOOSChomp
<1> QED BY <1>4, <1>5, <1>6

\* A set of numbers that has 0, and the successor of each of its members, has them all.
LEMMA NatSetInduction ==
    ASSUME NEW S, 0 \in S, \A n \in Nat : n \in S => n + 1 \in S
    PROVE  Nat \subseteq S
<1> DEFINE T == Nat \ S
<1> SUFFICES ASSUME T # {} PROVE FALSE
  OBVIOUS
<1>1. IsWellFoundedOn(OpToRel(<, Nat), Nat)
  BY NatLessThanWellFounded
<1>2. \E x \in T : \A y \in T : ~ (<<y, x>> \in OpToRel(<, Nat))
  <2> HIDE DEF T
  <2>1. T \subseteq Nat
    BY DEF T
  <2> QED BY <1>1, <2>1, WFMin
<1>3. PICK x \in T : \A y \in T : ~ (<<y, x>> \in OpToRel(<, Nat))
  BY <1>2
<1>4. \A y \in T : ~ (y < x)
  BY <1>3 DEF OpToRel
<1>5. x # 0 /\ x - 1 \in Nat
  OBVIOUS
<1>6. x - 1 \in S
  BY <1>4, <1>5
<1> QED BY <1>5, <1>6

\* A set of numbers that is not empty has a least one.
LEMMA LeastExists ==
    ASSUME NEW S \in SUBSET Nat, S # {}
    PROVE  \E k \in S : \A j \in S : k <= j
<1>1. IsWellFoundedOn(OpToRel(<, Nat), Nat)
  BY NatLessThanWellFounded
<1>2. PICK k \in S : \A j \in S : ~ (<<j, k>> \in OpToRel(<, Nat))
  BY <1>1, WFMin
<1>3. \A j \in S : ~ (j < k)
  BY <1>2 DEF OpToRel
<1>4. \A j \in S : k <= j
  BY <1>3
<1> QED BY <1>4

\* A set of positions has a least one, and FirstOf is it.
LEMMA FirstOfIs ==
    ASSUME NEW S \in SUBSET Nat, S # {}
    PROVE  FirstOf(S) \in S /\ \A j \in S : FirstOf(S) <= j
<1>1. PICK k \in S : \A j \in S : k <= j
  BY LeastExists
<1>2. FirstOf(S) = k
  BY <1>1, FirstPosition
<1> QED BY <1>1, <1>2

\* The greatest position of a set that has one.
LEMMA LastPosition ==
    ASSUME NEW S \in SUBSET Nat, NEW k \in S, \A j \in S : k >= j
    PROVE  LastOf(S) = k
<1>1. LastPos[S] = IF S = {} THEN NoPos ELSE CHOOSE i \in S : \A j \in S : i >= j
  BY DEF LastPos
<1>2. \A i \in S : (\A j \in S : i >= j) => i = k
  <2> TAKE i \in S
  <2>1. i \in Nat /\ k \in Nat
    OBVIOUS
  <2>2. (\A j \in S : i >= j) => i <= k /\ k <= i
    OBVIOUS
  <2> QED BY <2>1, <2>2
<1>3. (CHOOSE i \in S : \A j \in S : i >= j) \in S
      /\ \A j \in S : (CHOOSE i \in S : \A m \in S : i >= m) >= j
  OBVIOUS
<1> QED BY <1>1, <1>2, <1>3 DEF LastOf

\* What MOOSChomp takes off and leaves are texts, and it leaves less than it was given.
LEMMA ChompShortens ==
    ASSUME NEW T, NEW t \in Seq(T), NEW c
    PROVE  /\ MOOSChomp(t, <<c>>).head \in Seq(T) /\ MOOSChomp(t, <<c>>).rest \in Seq(T)
           /\ t # <<>> => Len(MOOSChomp(t, <<c>>).rest) < Len(t)
<1> DEFINE S == {i \in 1 .. Len(t) : t[i] = c}
           at == [n \in Nat |-> IF n = NoPos THEN [head |-> t, rest |-> <<>>]
                                ELSE [head |-> SubSeq(t, 1, n - 1), rest |-> From(t, n + Len(<<c>>))]]
           k == StrFind(t, <<c>>)
<1>1. MOOSChomp(t, <<c>>) = at[k]
  BY DEF MOOSChomp
<1>2. k = FirstOf(S)
  BY SeparatorsAt
<1>3. Len(<<c>>) = 1 /\ Len(t) \in Nat /\ (t # <<>> => Len(t) > 0)
  OBVIOUS
<1> HIDE DEF k
<1>4. CASE S = {}
  <2> HIDE DEF S
  <2>1. FirstPos[S] = IF S = {} THEN NoPos ELSE CHOOSE i \in S : \A j \in S : i <= j
    BY <1>4 DEF FirstPos
  <2>2. k = NoPos
    BY <1>2, <1>4, <2>1 DEF FirstOf
  <2>3. at[k] = [head |-> t, rest |-> <<>>]
    BY <2>2 DEF NoPos
  <2>4. <<>> \in Seq(T) /\ Len(<<>>) = 0
    OBVIOUS
  <2> QED BY <1>1, <1>3, <2>3, <2>4
<1>5. CASE S # {}
  <2>1. k \in 1 .. Len(t)
    <3>1. S \in SUBSET Nat
      OBVIOUS
    <3>2. k \in S
      BY <1>2, <1>5, <3>1, FirstOfIs
    <3> QED BY <3>2
  <2>2. at[k] = [head |-> SubSeq(t, 1, k - 1), rest |-> SubSeq(t, k + 1, Len(t))]
    BY <1>3, <2>1 DEF NoPos, From
  <2>3. SubSeq(t, 1, k - 1) \in Seq(T) /\ SubSeq(t, k + 1, Len(t)) \in Seq(T)
    BY <1>3, <2>1
  <2>4. Len(SubSeq(t, k + 1, Len(t))) < Len(t)
    BY <1>3, <2>1
  <2> HIDE DEF at
  <2>5. MOOSChomp(t, <<c>>) = [head |-> SubSeq(t, 1, k - 1), rest |-> SubSeq(t, k + 1, Len(t))]
    BY <1>1, <2>2
  <2>6. /\ MOOSChomp(t, <<c>>).head = SubSeq(t, 1, k - 1)
        /\ MOOSChomp(t, <<c>>).rest = SubSeq(t, k + 1, Len(t))
    BY <2>5
  <2> QED BY <2>3, <2>4, <2>6
<1> QED BY <1>4, <1>5

\* What StringListToVector makes of the texts of a set that is closed under MOOSChomp.
Splits(f, texts, tok) ==
    f = [t \in texts |-> IF t = <<>> THEN <<>>
                         ELSE <<MOOSChomp(t, tok).head>> \o f[MOOSChomp(t, tok).rest]]
UpTo(T, k) == {t \in Seq(T) : Len(t) <= k}

LEMMA SplitsOfShortTexts ==
    ASSUME NEW T, NEW c, NEW k \in Nat
    PROVE  \E f : Splits(f, UpTo(T, k), <<c>>)
<1> DEFINE Words(t, f) == IF t = <<>> THEN <<>> ELSE <<MOOSChomp(t, <<c>>).head>> \o f[MOOSChomp(t, <<c>>).rest]
           S == {j \in Nat : \E f : Splits(f, UpTo(T, j), <<c>>)}
<1>1. 0 \in S
  <2> DEFINE f == [t \in UpTo(T, 0) |-> <<>>]
  <2>1. \A t \in UpTo(T, 0) : t = <<>>
    BY DEF UpTo
  <2>2. Splits(f, UpTo(T, 0), <<c>>)
    BY <2>1 DEF Splits
  <2> QED BY <2>2
<1>2. ASSUME NEW j \in Nat, j \in S PROVE j + 1 \in S
  <2>1. PICK f : Splits(f, UpTo(T, j), <<c>>)
    BY <1>2
  <2>2. f = [t \in UpTo(T, j) |-> Words(t, f)]
    BY <2>1 DEF Splits
  <2> DEFINE g == [t \in UpTo(T, j + 1) |-> Words(t, f)]
  <2>3. \A t \in UpTo(T, j) : t \in UpTo(T, j + 1)
    BY DEF UpTo
  <2>4. \A t \in UpTo(T, j) : g[t] = f[t]
    <3> HIDE DEF Words
    <3> QED BY <2>2, <2>3
  <2>5. ASSUME NEW t \in UpTo(T, j + 1), t # <<>> PROVE MOOSChomp(t, <<c>>).rest \in UpTo(T, j)
    <3>1. t \in Seq(T) /\ Len(t) <= j + 1
      BY DEF UpTo
    <3>2. MOOSChomp(t, <<c>>).rest \in Seq(T) /\ Len(MOOSChomp(t, <<c>>).rest) < Len(t)
      BY <2>5, <3>1, ChompShortens
    <3>3. Len(t) \in Nat /\ Len(MOOSChomp(t, <<c>>).rest) \in Nat
      BY <3>1, <3>2
    <3> QED BY <3>1, <3>2, <3>3 DEF UpTo
  <2>6. ASSUME NEW t \in UpTo(T, j + 1) PROVE g[t] = Words(t, g)
    <3>1. CASE t = <<>>
      BY <3>1
    <3>2. CASE t # <<>>
      <4>1. g[MOOSChomp(t, <<c>>).rest] = f[MOOSChomp(t, <<c>>).rest]
        BY <2>4, <2>5, <3>2
      <4>2. g[t] = Words(t, f)
        OBVIOUS
      <4> HIDE DEF g
      <4> QED BY <3>2, <4>1, <4>2
    <3> QED BY <3>1, <3>2
  <2>7. g = [t \in UpTo(T, j + 1) |-> g[t]]
    OBVIOUS
  <2>8. Splits(g, UpTo(T, j + 1), <<c>>)
    <3> HIDE DEF g
    <3> QED BY <2>6, <2>7 DEF Splits
  <2> QED BY <2>8
<1> HIDE DEF S
<1>3. Nat \subseteq S
  BY <1>1, <1>2, NatSetInduction
<1> QED BY <1>3 DEF S

LEMMA SplitsAgree ==
    ASSUME NEW T, NEW c, NEW m \in Nat, NEW k \in Nat, k <= m, NEW f, NEW g,
           Splits(f, UpTo(T, m), <<c>>), Splits(g, UpTo(T, k), <<c>>)
    PROVE  \A t \in UpTo(T, k) : f[t] = g[t]
<1> DEFINE S == {j \in Nat : \A t \in UpTo(T, k) : Len(t) <= j => f[t] = g[t]}
           Words(t, h) == IF t = <<>> THEN <<>> ELSE <<MOOSChomp(t, <<c>>).head>> \o h[MOOSChomp(t, <<c>>).rest]
<1>1. \A t \in UpTo(T, k) : t \in UpTo(T, m) /\ t \in Seq(T) /\ Len(t) \in Nat
  BY DEF UpTo
<1>2. \A t \in UpTo(T, k) : f[t] = Words(t, f) /\ g[t] = Words(t, g)
  BY <1>1 DEF Splits
<1>3. 0 \in S
  <2> SUFFICES ASSUME NEW t \in UpTo(T, k), Len(t) <= 0 PROVE f[t] = g[t]
    OBVIOUS
  <2>1. t = <<>>
    BY <1>1
  <2> QED BY <1>2, <2>1
<1>4. ASSUME NEW j \in Nat, j \in S PROVE j + 1 \in S
  <2>6. \A t \in UpTo(T, k) : t = <<>> => f[t] = g[t]
    BY <1>2
  <2> SUFFICES ASSUME NEW t \in UpTo(T, k), Len(t) <= j + 1, t # <<>> PROVE f[t] = g[t]
    BY <2>6
  <2> DEFINE r == MOOSChomp(t, <<c>>).rest
  <2>1. r \in Seq(T) /\ Len(r) < Len(t)
    BY <1>1, ChompShortens
  <2>2. Len(t) <= k /\ Len(r) \in Nat
    BY <2>1 DEF UpTo
  <2>3. r \in UpTo(T, k) /\ Len(r) <= j
    BY <1>1, <2>1, <2>2 DEF UpTo
  <2>4. f[r] = g[r]
    BY <1>4, <2>3
  <2>5. Words(t, f) = Words(t, g)
    BY <2>4
  <2> HIDE DEF Words
  <2> QED BY <1>2, <2>5
<1>5. Nat \subseteq S
  <2> HIDE DEF S
  <2> QED BY <1>3, <1>4, NatSetInduction
<1>6. k \in S
  BY <1>5
<1> QED BY <1>6 DEF UpTo

LEMMA SplitsExist ==
    ASSUME NEW T, NEW c
    PROVE  \E f : Splits(f, Seq(T), <<c>>)
<1> DEFINE P(f, k) == Splits(f, UpTo(T, k), <<c>>)
           Of(k) == CHOOSE f : P(f, k)
           Words(t, f) == IF t = <<>> THEN <<>> ELSE <<MOOSChomp(t, <<c>>).head>> \o f[MOOSChomp(t, <<c>>).rest]
           F == [t \in Seq(T) |-> Of(Len(t))[t]]
<1>1. \A k \in Nat : P(Of(k), k)
  <2> TAKE k \in Nat
  <2>1. \E f : P(f, k)
    BY SplitsOfShortTexts
  <2> HIDE DEF P
  <2> QED BY <2>1
<1> HIDE DEF Of
<1>2. ASSUME NEW t \in Seq(T) PROVE F[t] = Words(t, F)
  <2>1. Len(t) \in Nat /\ t \in UpTo(T, Len(t))
    BY DEF UpTo
  <2>2. Splits(Of(Len(t)), UpTo(T, Len(t)), <<c>>)
    BY <1>1, <2>1
  <2>3. F[t] = Of(Len(t))[t]
    OBVIOUS
  <2>4. Of(Len(t))[t] = Words(t, Of(Len(t)))
    BY <2>1, <2>2 DEF Splits
  <2>5. CASE t = <<>>
    BY <2>3, <2>4, <2>5
  <2>6. CASE t # <<>>
    <3> DEFINE r == MOOSChomp(t, <<c>>).rest
    <3>1. r \in Seq(T) /\ Len(r) < Len(t)
      BY <2>6, ChompShortens
    <3>2. Len(r) \in Nat /\ Len(r) <= Len(t) /\ r \in UpTo(T, Len(r))
      BY <2>1, <3>1 DEF UpTo
    <3>3. Splits(Of(Len(r)), UpTo(T, Len(r)), <<c>>)
      BY <1>1, <3>2
    <3>4. Of(Len(t))[r] = Of(Len(r))[r]
      <4> HIDE DEF r
      <4> QED BY <2>1, <2>2, <3>2, <3>3, SplitsAgree
    <3>5. F[r] = Of(Len(r))[r]
      BY <3>1
    <3>6. Words(t, F) = Words(t, Of(Len(t)))
      <4> HIDE DEF F
      <4> QED BY <2>6, <3>4, <3>5
    <3> HIDE DEF Words, F
    <3> QED BY <2>3, <2>4, <3>6
  <2> QED BY <2>5, <2>6
<1>3. F = [t \in Seq(T) |-> F[t]]
  OBVIOUS
<1> HIDE DEF F
<1>4. Splits(F, Seq(T), <<c>>)
  BY <1>2, <1>3 DEF Splits
<1> QED BY <1>4

\* A text is split into a list of texts.
LEMMA SplitIsAList ==
    ASSUME NEW r \in Seq(STRING), NEW c
    PROVE  StringListToVector(r, <<c>>) \in Seq(Seq(STRING))
<1> DEFINE P(f) == Splits(f, Seq(STRING), <<c>>)
           F == CHOOSE f : P(f)
           S == {j \in Nat : \A t \in Seq(STRING) : Len(t) <= j => F[t] \in Seq(Seq(STRING))}
<1>1. \E f : P(f)
  BY SplitsExist
<1>2. StringListToVector(r, <<c>>) = F[r]
  BY DEF StringListToVector, Splits
<1> HIDE DEF P, F
<1>3. P(F)
  BY <1>1 DEF F
<1>4. \A t \in Seq(STRING) : F[t] = IF t = <<>> THEN <<>>
                                   ELSE <<MOOSChomp(t, <<c>>).head>> \o F[MOOSChomp(t, <<c>>).rest]
  BY <1>3 DEF P, Splits
<1>5. 0 \in S
  <2> SUFFICES ASSUME NEW t \in Seq(STRING), Len(t) <= 0 PROVE F[t] \in Seq(Seq(STRING))
    OBVIOUS
  <2>1. t = <<>>
    OBVIOUS
  <2>2. F[t] = <<>>
    BY <1>4, <2>1
  <2> QED BY <2>2, EmptySeq
<1>6. ASSUME NEW j \in Nat, j \in S PROVE j + 1 \in S
  <2> SUFFICES ASSUME NEW t \in Seq(STRING), Len(t) <= j + 1 PROVE F[t] \in Seq(Seq(STRING))
    OBVIOUS
  <2>1. CASE t = <<>>
    <3>1. F[t] = <<>>
      BY <1>4, <2>1
    <3> QED BY <3>1, EmptySeq
  <2>2. CASE t # <<>>
    <3> DEFINE h == MOOSChomp(t, <<c>>).head
               r1 == MOOSChomp(t, <<c>>).rest
    <3>1. h \in Seq(STRING) /\ r1 \in Seq(STRING) /\ Len(r1) < Len(t)
      BY <2>2, ChompShortens
    <3>2. F[t] = <<h>> \o F[r1]
      BY <1>4, <2>2
    <3> HIDE DEF h, r1
    <3>3. Len(r1) <= j
      <4>1. Len(r1) \in Nat /\ Len(t) \in Nat
        BY <3>1
      <4> QED BY <3>1, <4>1
    <3>4. F[r1] \in Seq(Seq(STRING))
      BY <1>6, <3>1, <3>3
    <3>5. <<h>> \in Seq(Seq(STRING))
      BY <3>1, ShortSequences
    <3>6. <<h>> \o F[r1] \in Seq(Seq(STRING))
      BY <3>4, <3>5, ConcatProperties
    <3> QED BY <3>2, <3>6
  <2> QED BY <2>1, <2>2
<1>7. Nat \subseteq S
  <2> HIDE DEF S
  <2> QED BY <1>5, <1>6, NatSetInduction
<1>8. Len(r) \in S
  <2>1. Len(r) \in Nat
    BY LenProperties
  <2> QED BY <1>7, <2>1
<1>9. F[r] \in Seq(Seq(STRING))
  <2>1. Len(r) \in Nat
    BY LenProperties
  <2> QED BY <1>8, <2>1
<1> QED BY <1>2, <1>9

-----------------------------------------------------------------------------
(* The testing client umm                                                  *)

\* The digits and what they stand for.
LEMMA DigitValues == /\ DigitChars = {"0", "1", "2", "3"}
                     /\ ValueOf("0") = 0 /\ ValueOf("1") = 1 /\ ValueOf("2") = 2 /\ ValueOf("3") = 3
<1>1. Len(Digit) = 4 /\ Digit[1] = "0" /\ Digit[2] = "1" /\ Digit[3] = "2" /\ Digit[4] = "3"
  BY DEF Digit
<1>2. 0 .. Len(Digit) - 1 = {0, 1, 2, 3} /\ 1 .. Len(Digit) = {1, 2, 3, 4}
  BY <1>1
<1>3. DigitChars = {"0", "1", "2", "3"}
  BY <1>1, <1>2 DEF DigitChars
<1>4. \A c \in DigitChars : \E n \in 0 .. Len(Digit) - 1 : Digit[n + 1] = c
  BY <1>1, <1>2, <1>3
<1>5. \A c \in DigitChars : ValueOf(c) \in {0, 1, 2, 3} /\ Digit[ValueOf(c) + 1] = c
  BY <1>2, <1>4 DEF ValueOf
<1> QED BY <1>1, <1>3, <1>5

\* The characters of the directives of the model.
Letters == {"x", "y", "v", "a", "@", ":", "*", "1", "2", "3"}

\* The directives of the model: what is published, and how often.
LEMMA PublicationsAre ==
    Publications = {[name |-> <<"x">>, size |-> 0, period |-> UmmSecond \div 2],
                    [name |-> <<"y">>, size |-> 3, period |-> UmmSecond]}
<1>1. Publication(<<"x", "@", "2">>) = [name |-> <<"x">>, size |-> 0, period |-> UmmSecond \div 2]
  <2>1. MOOSChomp(<<"x", "@", "2">>, <<"@">>) = [head |-> <<"x">>, rest |-> <<"2">>]
    <3>1. MOOSChomp(<<"x">> \o <<"@">> \o <<"2">>, <<"@">>) = [head |-> <<"x">>, rest |-> <<"2">>]
      <4>1. "@" \in Letters /\ <<"x">> \in Seq(Letters) /\ <<"2">> \in Seq(Letters)
        BY DEF Letters
      <4>2. \A i \in 1 .. Len(<<"x">>) : <<"x">>[i] # "@"
        OBVIOUS
      <4> QED BY <4>1, <4>2, ChompSplits
    <3>2. <<"x">> \o <<"@">> \o <<"2">> = <<"x", "@", "2">>
      <4>1. "x" \in Letters /\ "@" \in Letters /\ "2" \in Letters
        BY DEF Letters
      <4> QED BY <4>1, ShortSequences
    <3> QED BY <3>1, <3>2
  <2>2. MOOSChomp(<<"x">>, <<":">>) = [head |-> <<"x">>, rest |-> <<>>]
    <3>1. ":" \in Letters /\ <<"x">> \in Seq(Letters)
      BY DEF Letters
    <3>2. \A i \in 1 .. Len(<<"x">>) : <<"x">>[i] # ":"
      OBVIOUS
    <3> QED BY <3>1, <3>2, ChompWhole
  <2>3. Hz(<<"2">>) = 2 /\ <<"2">> # <<>>
    BY DigitValues DEF Hz
  <2> QED BY <2>1, <2>2, <2>3 DEF Publication
<1>2. Publication(<<"y", ":", "3">>) = [name |-> <<"y">>, size |-> 3, period |-> UmmSecond]
  <2>1. MOOSChomp(<<"y", ":", "3">>, <<"@">>) = [head |-> <<"y", ":", "3">>, rest |-> <<>>]
    <3>1. "@" \in Letters /\ <<"y", ":", "3">> \in Seq(Letters)
      BY DEF Letters
    <3>2. \A i \in 1 .. Len(<<"y", ":", "3">>) : <<"y", ":", "3">>[i] # "@"
      OBVIOUS
    <3> QED BY <3>1, <3>2, ChompWhole
  <2>2. MOOSChomp(<<"y", ":", "3">>, <<":">>) = [head |-> <<"y">>, rest |-> <<"3">>]
    <3>1. MOOSChomp(<<"y">> \o <<":">> \o <<"3">>, <<":">>) = [head |-> <<"y">>, rest |-> <<"3">>]
      <4>1. ":" \in Letters /\ <<"y">> \in Seq(Letters) /\ <<"3">> \in Seq(Letters)
        BY DEF Letters
      <4>2. \A i \in 1 .. Len(<<"y">>) : <<"y">>[i] # ":"
        OBVIOUS
      <4> QED BY <4>1, <4>2, ChompSplits
    <3>2. <<"y">> \o <<":">> \o <<"3">> = <<"y", ":", "3">>
      <4>1. "y" \in Letters /\ ":" \in Letters /\ "3" \in Letters
        BY DEF Letters
      <4> QED BY <4>1, ShortSequences
    <3> QED BY <3>1, <3>2
  <2>3. Hz(<<"3">>) = 3 /\ <<"3">> # <<>>
    BY DigitValues DEF Hz
  <2> QED BY <2>1, <2>2, <2>3 DEF Publication
<1> QED BY <1>1, <1>2 DEF Publications

LEMMA JobPeriods ==
    /\ Names = {<<"x">>, <<"y">>} /\ <<>> \notin Names
    /\ \A n \in Names : JobPeriod(n) \in Int
<1>1. Names = {<<"x">>, <<"y">>}
  BY PublicationsAre DEF Names
<1>2. \A n \in Names : \E p \in Publications : p.name = n
  BY DEF Names
<1>3. \A p \in Publications : p.period \in Int
  <2>1. UmmSecond \div 2 \in Int /\ UmmSecond \in Int
    BY UmmAssumption
  <2> QED BY <2>1, PublicationsAre
<1>4. \A n \in Names : (CHOOSE p \in Publications : p.name = n) \in Publications
  BY <1>2
<1>5. <<>> \notin Names
  BY <1>1
<1> QED BY <1>1, <1>3, <1>4, <1>5 DEF JobPeriod

\* WildSubscription: every way to write the directive asks for what it says.
LEMMA Directives == DirectivesAreParsed
<1> SUFFICES ASSUME NEW p \in {<<"v">>, <<"v", "*">>}, NEW a \in {<<"a">>, <<"*">>}, NEW f \in {"1", "2"}
             PROVE  /\ WildSubscription(p \o <<":">> \o a \o <<"@", f>>) =
                           [var |-> p, app |-> a, period |-> UmmSecond \div ValueOf(f)]
                    /\ WildSubscription(p \o <<":">> \o a) = [var |-> p, app |-> a, period |-> 0]
                    /\ WildSubscription(p) = [var |-> p, app |-> <<"*">>, period |-> 0]
  BY DEF DirectivesAreParsed
<1>1. /\ p \in Seq(Letters) /\ a \in Seq(Letters) /\ p # <<>> /\ a # <<>>
      /\ f \in Letters /\ ":" \in Letters /\ "@" \in Letters /\ <<f>> \in Seq(Letters) /\ <<>> \in Seq(Letters)
  <2>1. {"v", "a", "*", ":", "@", "1", "2"} \subseteq Letters
    BY DEF Letters
  <2>2. p \in Seq(Letters) /\ p # <<>>
    <3>1. <<"v">> \in Seq(Letters) /\ <<"v", "*">> \in Seq(Letters)
      BY <2>1, ShortSequences
    <3>2. <<"v">> # <<>> /\ <<"v", "*">> # <<>>
      OBVIOUS
    <3> QED BY <3>1, <3>2
  <2>3. a \in Seq(Letters) /\ a # <<>>
    <3>1. <<"a">> \in Seq(Letters) /\ <<"*">> \in Seq(Letters)
      BY <2>1, ShortSequences
    <3>2. <<"a">> # <<>> /\ <<"*">> # <<>>
      OBVIOUS
    <3> QED BY <3>1, <3>2
  <2>4. f \in Letters
    BY <2>1
  <2> QED BY <2>1, <2>2, <2>3, <2>4, EmptySeq
<1>2. \A i \in 1 .. Len(p) : p[i] # ":"
  OBVIOUS
<1>3. \A i \in 1 .. Len(a) : a[i] # "@"
  OBVIOUS
<1>4. /\ <<f>> # <<>> /\ UmmNumeric(<<f>>) /\ Hz(<<f>>) = ValueOf(f) /\ ValueOf(f) > 0
      /\ UmmNumeric(<<>>)
  BY DigitValues DEF UmmNumeric, Hz
<1>5. WildSubscription(p \o <<":">> \o a \o <<"@", f>>) =
          [var |-> p, app |-> a, period |-> UmmSecond \div ValueOf(f)]
  <2> DEFINE q == a \o <<"@">> \o <<f>>
  <2>1. p \o <<":">> \o a \o <<"@", f>> = p \o <<":">> \o q
    <3>1. /\ p \o <<":">> \in Seq(Letters) /\ <<"@">> \in Seq(Letters) /\ <<f>> \in Seq(Letters)
          /\ <<"@", f>> \in Seq(Letters)
      BY <1>1
    <3>2. (a \o <<"@">>) \o <<f>> = a \o (<<"@">> \o <<f>>)
      BY <1>1, <3>1, ConcatAssociative
    <3>3. <<"@">> \o <<f>> = <<"@", f>>
      BY <1>1, ShortSequences
    <3>4. (p \o <<":">>) \o (a \o <<"@", f>>) = ((p \o <<":">>) \o a) \o <<"@", f>>
      BY <1>1, <3>1, ConcatAssociative
    <3> QED BY <3>2, <3>3, <3>4
  <2>2. q \in Seq(Letters)
    BY <1>1
  <2>3. MOOSChomp(q, <<"@">>) = [head |-> a, rest |-> <<f>>]
    BY <1>1, <1>3, ChompSplits
  <2> HIDE DEF q
  <2>4. MOOSChomp(p \o <<":">> \o q, <<":">>) = [head |-> p, rest |-> q]
    BY <1>1, <1>2, <2>2, ChompSplits
  <2>5. AppPattern(a, <<f>>) = a
    BY <1>4 DEF AppPattern
  <2>6. WildSubscription(p \o <<":">> \o q) =
            [var |-> p, app |-> a, period |-> UmmSecond \div ValueOf(f)]
    BY <1>1, <1>4, <2>3, <2>4, <2>5 DEF WildSubscription
  <2> QED BY <2>1, <2>6
<1>6. WildSubscription(p \o <<":">> \o a) = [var |-> p, app |-> a, period |-> 0]
  <2>1. MOOSChomp(p \o <<":">> \o a, <<":">>) = [head |-> p, rest |-> a]
    BY <1>1, <1>2, ChompSplits
  <2>2. MOOSChomp(a, <<"@">>) = [head |-> a, rest |-> <<>>]
    BY <1>1, <1>3, ChompWhole
  <2>3. AppPattern(a, <<>>) = a
    BY <1>1 DEF AppPattern
  <2> QED BY <1>1, <1>4, <2>1, <2>2, <2>3 DEF WildSubscription
<1>7. WildSubscription(p) = [var |-> p, app |-> <<"*">>, period |-> 0]
  <2>1. MOOSChomp(p, <<":">>) = [head |-> p, rest |-> <<>>]
    BY <1>1, <1>2, ChompWhole
  <2>2. MOOSChomp(<<>>, <<"@">>) = [head |-> <<>>, rest |-> <<>>]
    <3>1. \A i \in 1 .. Len(<<>>) : <<>>[i] # "@"
      OBVIOUS
    <3> QED BY <1>1, <3>1, ChompWhole
  <2>3. AppPattern(<<>>, <<>>) = <<"*">>
    BY DEF AppPattern
  <2> QED BY <1>1, <1>4, <2>1, <2>2, <2>3 DEF WildSubscription
<1> QED BY <1>5, <1>6, <1>7

\* A job is due one period behind what it has been given, or it is being published.
JobInStep(n) ==
    /\ umJobs[n] \in [at : Int, count : Nat] /\ umSlack[n] \in Int
    /\ EarlyBySkew(umSlack[n])
    /\ umActive = n => umSlack[n] + umJobs[n].at = 0
    /\ umActive # n => umSlack[n] + umJobs[n].at = JobPeriod(n)

\* The inductive invariant.
UMInv ==
    /\ DOMAIN umJobs = Names /\ DOMAIN umSlack = Names
    /\ umActive # <<>> => umActive \in Names
    /\ \A n \in Names : JobInStep(n)
    /\ umSkew = 0 \/ umSkew \in UmmSkews

LEMMA UMStart == UMInit => UMInv
<1> SUFFICES ASSUME UMInit PROVE UMInv
  OBVIOUS
<1>1. /\ umJobs = [n \in Names |-> [at |-> JobPeriod(n), count |-> 0]] /\ umSlack = [n \in Names |-> 0]
      /\ umActive = <<>> /\ umSkew = 0
  BY DEF UMInit
<1>2. ASSUME NEW n \in Names PROVE JobInStep(n)
  BY <1>1, JobPeriods DEF JobInStep, EarlyBySkew
<1> QED BY <1>1, <1>2 DEF UMInv

\* Time does not make a job early; what is published before it is due is so by less than the skew.
LEMMA EarlyFacts ==
    /\ EarlyBySkew(0)
    /\ \A x \in Int : EarlyBySkew(x) => EarlyBySkew(x + 1)
    /\ \A x, s \in Int : (s = 0 \/ s \in UmmSkews) /\ 0 - x < s => EarlyBySkew(x)
<1>1. UmmSkews \subseteq Int
  BY UmmAssumption
<1> QED BY <1>1 DEF EarlyBySkew

LEMMA UMStep == UMInv /\ [UMNext]_umVars => UMInv'
<1> SUFFICES ASSUME UMInv, [UMNext]_umVars PROVE UMInv'
  OBVIOUS
<1>1. /\ DOMAIN umJobs = Names /\ DOMAIN umSlack = Names /\ (umActive # <<>> => umActive \in Names)
      /\ \A n \in Names : JobInStep(n)
      /\ umSkew = 0 \/ umSkew \in UmmSkews
  BY DEF UMInv
<1>2. \A n \in Names : JobPeriod(n) \in Int
  BY JobPeriods
<1> HIDE DEF JobPeriod, Names
<1>3. CASE UMTick
  <2>1. /\ umJobs' = [n \in Names |-> [umJobs[n] EXCEPT !.at = @ - 1]]
        /\ umSlack' = [n \in Names |-> umSlack[n] + 1]
        /\ UNCHANGED <<umActive, umSkew>>
    BY <1>3 DEF UMTick
  <2>2. ASSUME NEW n \in Names PROVE JobInStep(n)'
    <3>1. umJobs'[n] = [umJobs[n] EXCEPT !.at = @ - 1]
      BY <2>1
    <3>2. umJobs[n] \in [at : Int, count : Nat]
      BY <1>1 DEF JobInStep
    <3>3. umJobs'[n] \in [at : Int, count : Nat] /\ umJobs'[n].at = umJobs[n].at - 1
      BY <3>1, <3>2
    <3>4. umSlack'[n] = umSlack[n] + 1 /\ umActive' = umActive
      BY <2>1
    <3>5. /\ umSlack[n] \in Int /\ EarlyBySkew(umSlack[n])
          /\ umActive = n => umSlack[n] + umJobs[n].at = 0
          /\ umActive # n => umSlack[n] + umJobs[n].at = JobPeriod(n)
      BY <1>1 DEF JobInStep
    <3>6. EarlyBySkew(umSlack[n] + 1)
      BY <3>5, EarlyFacts
    <3>7. umJobs[n].at \in Int
      BY <3>2
    <3> QED BY <1>2, <3>3, <3>4, <3>5, <3>6, <3>7 DEF JobInStep
  <2> QED BY <1>1, <2>1, <2>2 DEF UMInv
<1>4. ASSUME NEW m \in Names, Publish(m) PROVE UMInv'
  <2>1. /\ umActive = <<>> /\ umJobs[m].at < umSkew /\ umActive' = m
        /\ umSlack' = [umSlack EXCEPT ![m] = @ - JobPeriod(m)]
        /\ UNCHANGED <<umJobs, umSkew>>
    BY <1>4 DEF Publish, IsActive, umApp
  <2>2. ASSUME NEW n \in Names PROVE JobInStep(n)'
    <3>1. umActive # n
      BY <2>1, JobPeriods
    <3>2. umSlack'[n] = IF n = m THEN umSlack[n] - JobPeriod(n) ELSE umSlack[n]
      BY <1>1, <2>1
    <3>3. umJobs' = umJobs /\ umActive' = m
      BY <2>1
    <3>4. /\ umJobs[n] \in [at : Int, count : Nat] /\ umSlack[n] \in Int /\ EarlyBySkew(umSlack[n])
          /\ umSlack[n] + umJobs[n].at = JobPeriod(n)
      BY <1>1, <3>1 DEF JobInStep
    <3>5. CASE n = m
      <4>1. umSlack'[n] = 0 - umJobs[n].at /\ umJobs[n].at \in Int /\ umSlack'[n] \in Int
        BY <1>2, <3>2, <3>4, <3>5
      <4>2. umSkew \in Int
        BY <1>1, UmmAssumption
      <4>3. 0 - umSlack'[n] < umSkew
        BY <2>1, <3>5, <4>1, <4>2
      <4>4. EarlyBySkew(umSlack'[n])
        BY <1>1, <4>1, <4>2, <4>3, EarlyFacts
      <4> QED BY <3>3, <3>4, <3>5, <4>1, <4>4 DEF JobInStep
    <3>6. CASE n # m
      BY <3>2, <3>3, <3>4, <3>6 DEF JobInStep
    <3> QED BY <3>5, <3>6
  <2>3. DOMAIN umSlack' = Names
    BY <1>1, <2>1
  <2> QED BY <1>1, <2>1, <2>2, <2>3 DEF UMInv
<1>5. CASE Reschedule
  <2> DEFINE m == umActive
             count == (umJobs[m].count + 1) % CorrectEvery
             job == [at |-> Rescheduled(m, 0 - umJobs[m].at, count), count |-> count]
  <2>1. /\ umActive # <<>> /\ umActive' = <<>> /\ umJobs' = [umJobs EXCEPT ![m] = job]
        /\ umSlack' = IF count = 0 THEN [umSlack EXCEPT ![m] = 0] ELSE umSlack
        /\ umSkew' = umSkew
    BY <1>5 DEF Reschedule, umApp
  <2>2. m \in Names
    BY <1>1, <2>1
  <2>3. job.at = JobPeriod(m) - IF count # 0 THEN 0 - umJobs[m].at ELSE 0
    BY DEF Rescheduled
  <2>4. count \in Nat
    <3>1. umJobs[m].count + 1 \in Nat
      BY <1>1, <2>2 DEF JobInStep
    <3> QED BY <3>1, UmmAssumption
  <2>5. job \in [at : {job.at}, count : Nat]
    BY <2>4
  <2> HIDE DEF count, job
  <2>6. ASSUME NEW n \in Names PROVE JobInStep(n)'
    <3>1. umActive' # n
      BY <2>1, JobPeriods
    <3>2. CASE n = m
      <4>1. umJobs'[n] = job
        BY <1>1, <2>1, <3>2
      <4>2. umSlack'[n] = IF count = 0 THEN 0 ELSE umSlack[n]
        BY <1>1, <2>1, <3>2
      <4>3. umJobs[n].at \in Int /\ umSlack[n] \in Int /\ umSlack[n] + umJobs[n].at = 0
            /\ EarlyBySkew(umSlack[n])
        BY <1>1, <3>2 DEF JobInStep
      <4>4. umJobs'[n].at = JobPeriod(n) - IF count # 0 THEN 0 - umJobs[n].at ELSE 0
        BY <2>3, <3>2, <4>1
      <4>5. umJobs'[n].at \in Int
        BY <1>2, <4>3, <4>4
      <4>6. umJobs'[n] \in [at : Int, count : Nat]
        BY <2>5, <4>1, <4>5
      <4>7. EarlyBySkew(umSlack'[n])
        BY <4>2, <4>3, EarlyFacts
      <4> QED BY <1>2, <3>1, <4>2, <4>3, <4>4, <4>6, <4>7 DEF JobInStep
    <3>3. CASE n # m
      <4>1. umJobs'[n] = umJobs[n] /\ umSlack'[n] = umSlack[n]
        BY <1>1, <2>1, <3>3
      <4> QED BY <1>1, <3>1, <3>3, <4>1 DEF JobInStep
    <3> QED BY <3>2, <3>3
  <2>7. DOMAIN umJobs' = Names /\ DOMAIN umSlack' = Names
    BY <1>1, <2>1
  <2> QED BY <1>1, <2>1, <2>6, <2>7 DEF UMInv
<1>6. ASSUME UNCHANGED <<umJobs, umSlack, umActive>>, umSkew' = umSkew \/ umSkew' \in UmmSkews PROVE UMInv'
  <2>1. ASSUME NEW n \in Names PROVE JobInStep(n)'
    BY <1>1, <1>6 DEF JobInStep
  <2> QED BY <1>1, <1>6, <2>1 DEF UMInv
<1>7. CASE SetMOOSSkew
  BY <1>6, <1>7 DEF SetMOOSSkew
<1>8. CASE Delivered
  BY <1>6, <1>8 DEF Delivered, umSched
<1>9. CASE OnNewMail
  BY <1>6, <1>9 DEF OnNewMail, umSched
<1>10. CASE UmmIterate
  BY <1>6, <1>10 DEF UmmIterate, umSched
<1>11. CASE UNCHANGED umVars
  BY <1>6, <1>11 DEF umVars
<1> QED BY <1>3, <1>4, <1>5, <1>7, <1>8, <1>9, <1>10, <1>11 DEF UMNext, Scheduler

\* umm does what its directives ask for: no job is further ahead of its frequency than MOOSTime may
\* have been of the local clock, however late the loop is, however the skew moves and whichever
\* publications go uncorrected (Publish, Reschedule); a wildcard directive asks for what it names.
THEOREM UmmFollowsItsDirectives == UMSpec => []UmmDoesAsDirected
<1>1. UMInv => UmmDoesAsDirected
  BY Directives DEF UMInv, JobInStep, UmmDoesAsDirected, NeverTooOften
<1> QED BY <1>1, UMStart, UMStep, PTL DEF UMSpec

-----------------------------------------------------------------------------
(* The life of the database process                                        *)

\* The first entry of a list that matches a name decides its delay.
FirstMatch(q, name) ==
    LET hits == {i \in 1 .. Len(q) : MOOSWildCmp(q[i].client, name)} IN
    IF hits = {} THEN 0 ELSE q[FirstOf(hits)].ms
Matches(q, name) == {i \in 1 .. Len(q) : MOOSWildCmp(q[i].client, name)}

\* What the first k entries of --response ask for.
Hits(es, k, name) == {i \in 1 .. k : es[i].ok /\ MOOSWildCmp(es[i].client, name)}
Wilds(es, k, name) == {i \in Hits(es, k, name) : HasWild(es[i].client)}
Asked(es, k, name) ==
    IF Wilds(es, k, name) # {} THEN es[LastOf(Wilds(es, k, name))].ms
    ELSE IF Hits(es, k, name) # {} THEN es[FirstOf(Hits(es, k, name))].ms ELSE 0

LEMMA FirstMatchIs ==
    ASSUME NEW q, NEW name
    PROVE  FirstMatch(q, name) = IF Matches(q, name) = {} THEN 0 ELSE q[FirstOf(Matches(q, name))].ms
BY DEF FirstMatch, Matches

\* An entry that matches decides when it is put to the front, and one that does not match changes
\* nothing.
LEMMA PutToFront ==
    ASSUME NEW E, NEW q \in Seq(E), NEW e \in E, NEW name
    PROVE  /\ Matches(<<e>> \o q, name) # {} <=> (MOOSWildCmp(e.client, name) \/ Matches(q, name) # {})
           /\ FirstMatch(<<e>> \o q, name) =
                  IF MOOSWildCmp(e.client, name) THEN e.ms ELSE FirstMatch(q, name)
<1> DEFINE p == <<e>> \o q
           A == Matches(q, name)
           B == Matches(p, name)
<1>1. /\ p \in Seq(E) /\ Len(p) = Len(q) + 1 /\ Len(q) \in Nat /\ p[1] = e
      /\ \A i \in 1 .. Len(q) : p[i + 1] = q[i]
  OBVIOUS
<1>2. A \in SUBSET Nat /\ B \in SUBSET Nat
  BY <1>1 DEF Matches
<1> HIDE DEF p
<1>3. \A i \in 1 .. Len(q) : i \in A <=> i + 1 \in B
  BY <1>1 DEF Matches
<1>4. 1 \in B <=> MOOSWildCmp(e.client, name)
  BY <1>1 DEF Matches
<1>5. (\A i \in A : i \in 1 .. Len(q)) /\ (\A i \in B : i \in 1 .. Len(q) + 1)
  BY <1>1 DEF Matches
<1>6. B # {} <=> (MOOSWildCmp(e.client, name) \/ A # {})
  <2> HIDE DEF A, B
  <2>1. ASSUME NEW i \in B, i # 1 PROVE i - 1 \in A
    <3>1. i - 1 \in 1 .. Len(q) /\ (i - 1) + 1 = i
      BY <1>1, <1>5, <2>1
    <3> QED BY <1>3, <2>1, <3>1
  <2> QED BY <1>3, <1>4, <1>5, <2>1
<1>7. FirstMatch(p, name) = IF MOOSWildCmp(e.client, name) THEN e.ms ELSE FirstMatch(q, name)
  <2> HIDE DEF A, B
  <2>1. CASE 1 \in B
    <3>1. \A j \in B : 1 <= j
      BY <1>5
    <3>2. FirstOf(B) = 1
      BY <1>2, <2>1, <3>1, FirstPosition
    <3> QED BY <1>1, <1>4, <2>1, <3>2, FirstMatchIs DEF B
  <2>2. CASE 1 \notin B /\ A # {}
    <3> DEFINE k == FirstOf(A)
    <3>1. k \in A /\ \A j \in A : k <= j
      BY <1>2, <2>2, FirstOfIs
    <3> HIDE DEF k
    <3>2. k \in 1 .. Len(q) /\ k + 1 \in B
      BY <1>3, <1>5, <3>1
    <3>3. \A j \in B : k + 1 <= j
      <4> SUFFICES ASSUME NEW j \in B PROVE k + 1 <= j
        OBVIOUS
      <4>1. j \in 1 .. Len(q) + 1 /\ j # 1
        BY <1>5, <2>2
      <4>2. j - 1 \in 1 .. Len(q) /\ (j - 1) + 1 = j
        BY <1>1, <4>1
      <4>3. j - 1 \in A
        BY <1>3, <4>2
      <4>4. k <= j - 1
        BY <3>1, <4>3
      <4> QED BY <3>2, <4>1, <4>4
    <3>4. FirstOf(B) = k + 1
      BY <1>2, <3>2, <3>3, FirstPosition
    <3>5. p[k + 1] = q[k]
      BY <1>1, <3>2
    <3>6. FirstMatch(p, name) = p[k + 1].ms
      BY <3>2, <3>4, FirstMatchIs DEF B
    <3>7. FirstMatch(q, name) = q[k].ms
      BY <2>2, FirstMatchIs DEF A, k
    <3> QED BY <1>4, <2>2, <3>5, <3>6, <3>7
  <2>3. CASE 1 \notin B /\ A = {}
    <3>1. B = {}
      BY <1>4, <1>6, <2>3
    <3> QED BY <1>4, <2>3, <3>1, FirstMatchIs DEF A, B
  <2> QED BY <2>1, <2>2, <2>3
<1> QED BY <1>6, <1>7 DEF p

\* An entry that is put to the back decides when no other matches.
LEMMA PutToBack ==
    ASSUME NEW E, NEW q \in Seq(E), NEW e \in E, NEW name
    PROVE  /\ Matches(Append(q, e), name) # {} <=> (MOOSWildCmp(e.client, name) \/ Matches(q, name) # {})
           /\ FirstMatch(Append(q, e), name) =
                  IF Matches(q, name) # {} THEN FirstMatch(q, name)
                  ELSE IF MOOSWildCmp(e.client, name) THEN e.ms ELSE 0
<1> DEFINE p == Append(q, e)
           A == Matches(q, name)
           B == Matches(p, name)
           n == Len(q)
<1>1. /\ p \in Seq(E) /\ Len(p) = n + 1 /\ n \in Nat /\ p[n + 1] = e
      /\ \A i \in 1 .. n : p[i] = q[i]
  OBVIOUS
<1>2. A \in SUBSET Nat /\ B \in SUBSET Nat
  BY <1>1 DEF Matches
<1> HIDE DEF p
<1>3. \A i \in 1 .. n : i \in A <=> i \in B
  BY <1>1 DEF Matches
<1>4. n + 1 \in B <=> MOOSWildCmp(e.client, name)
  BY <1>1 DEF Matches
<1>5. (\A i \in A : i \in 1 .. n) /\ (\A i \in B : i \in 1 .. n \/ i = n + 1)
  BY <1>1 DEF Matches
<1> HIDE DEF A, B, n
<1>6. B # {} <=> (MOOSWildCmp(e.client, name) \/ A # {})
  BY <1>3, <1>4, <1>5
<1>7. CASE A # {}
  <2> DEFINE k == FirstOf(A)
  <2>1. k \in A /\ \A j \in A : k <= j
    BY <1>2, <1>7, FirstOfIs
  <2> HIDE DEF k
  <2>2. k \in 1 .. n /\ k \in B
    BY <1>3, <1>5, <2>1
  <2>3. \A j \in B : k <= j
    BY <1>1, <1>3, <1>5, <2>1, <2>2
  <2>4. FirstOf(B) = k
    BY <1>2, <2>2, <2>3, FirstPosition
  <2>5. FirstMatch(p, name) = p[k].ms
    BY <2>2, <2>4, FirstMatchIs DEF B
  <2>6. FirstMatch(q, name) = q[k].ms
    BY <1>7, FirstMatchIs DEF A, k
  <2>7. p[k] = q[k]
    BY <1>1, <2>2
  <2> QED BY <1>6, <1>7, <2>5, <2>6, <2>7 DEF p, A, B
<1>8. CASE A = {} /\ n + 1 \in B
  <2>1. \A j \in B : n + 1 <= j
    BY <1>1, <1>3, <1>5, <1>8
  <2>2. FirstOf(B) = n + 1
    BY <1>2, <1>8, <2>1, FirstPosition
  <2>3. FirstMatch(p, name) = p[n + 1].ms
    BY <1>8, <2>2, FirstMatchIs DEF B
  <2> QED BY <1>1, <1>4, <1>6, <1>8, <2>3 DEF p, A, B
<1>9. CASE A = {} /\ n + 1 \notin B
  <2>1. B = {}
    BY <1>3, <1>5, <1>9
  <2>2. FirstMatch(p, name) = 0
    BY <2>1, FirstMatchIs DEF B
  <2> QED BY <1>4, <1>6, <1>9, <2>2 DEF p, A, B
<1> QED BY <1>7, <1>8, <1>9

\* One entry more: what is asked for.
LEMMA AskedNext ==
    ASSUME NEW es, NEW k \in Nat, NEW name
    PROVE  LET e == es[k + 1]
               match == e.ok /\ MOOSWildCmp(e.client, name) IN
           /\ Hits(es, k + 1, name) # {} <=> (match \/ Hits(es, k, name) # {})
           /\ Asked(es, k + 1, name) =
                  IF match /\ HasWild(e.client) THEN e.ms
                  ELSE IF Hits(es, k, name) # {} THEN Asked(es, k, name)
                  ELSE IF match THEN e.ms ELSE 0
<1> DEFINE e == es[k + 1]
           match == e.ok /\ MOOSWildCmp(e.client, name)
           H == Hits(es, k, name)
           J == Hits(es, k + 1, name)
           W == Wilds(es, k, name)
           V == Wilds(es, k + 1, name)
<1>1. J = IF match THEN H \cup {k + 1} ELSE H
  <2>1. 1 .. k + 1 = (1 .. k) \cup {k + 1} /\ k + 1 \notin 1 .. k
    OBVIOUS
  <2> QED BY <2>1 DEF Hits
<1>2. V = IF match /\ HasWild(e.client) THEN W \cup {k + 1} ELSE W
  BY <1>1 DEF Wilds
<1>3. /\ H \subseteq 1 .. k /\ W \subseteq H /\ H \in SUBSET Nat /\ J \in SUBSET Nat
      /\ V \in SUBSET Nat /\ k + 1 \in Nat
  BY DEF Hits, Wilds
<1>4. Asked(es, k, name) = IF W # {} THEN es[LastOf(W)].ms ELSE IF H # {} THEN es[FirstOf(H)].ms ELSE 0
  BY DEF Asked
<1>5. Asked(es, k + 1, name) = IF V # {} THEN es[LastOf(V)].ms ELSE IF J # {} THEN es[FirstOf(J)].ms ELSE 0
  BY DEF Asked
<1>6. e = es[k + 1]
  OBVIOUS
<1> HIDE DEF e, H, J, W, V
<1>7. CASE match /\ HasWild(e.client)
  <2>1. k + 1 \in V /\ \A j \in V : k + 1 >= j
    BY <1>2, <1>3, <1>7
  <2>2. LastOf(V) = k + 1
    BY <1>3, <2>1, LastPosition
  <2> QED BY <1>1, <1>5, <1>6, <1>7, <2>1, <2>2 DEF H, J, e
<1>8. CASE ~(match /\ HasWild(e.client)) /\ H # {}
  <2>1. V = W
    BY <1>2, <1>8
  <2>2. J # {} /\ FirstOf(J) = FirstOf(H)
    <3> DEFINE m == FirstOf(H)
    <3>1. m \in H /\ \A j \in H : m <= j
      BY <1>3, <1>8, FirstOfIs
    <3> HIDE DEF m
    <3>2. m \in J /\ \A j \in J : m <= j
      BY <1>1, <1>3, <3>1
    <3>3. FirstOf(J) = m
      BY <1>3, <3>2, FirstPosition
    <3> QED BY <3>2, <3>3 DEF m
  <2>3. Asked(es, k + 1, name) = Asked(es, k, name)
    BY <1>4, <1>5, <1>8, <2>1, <2>2
  <2> HIDE DEF match
  <2> QED BY <1>8, <2>2, <2>3 DEF H, J, e, match
<1>9. CASE ~(match /\ HasWild(e.client)) /\ H = {} /\ match
  <2>1. V = {} /\ J = {k + 1}
    BY <1>1, <1>2, <1>3, <1>9
  <2>2. FirstOf(J) = k + 1
    BY <1>3, <2>1, FirstPosition
  <2> QED BY <1>5, <1>6, <1>9, <2>1, <2>2 DEF H, J, e
<1>10. CASE ~(match /\ HasWild(e.client)) /\ H = {} /\ ~match
  <2>1. V = {} /\ J = {}
    BY <1>1, <1>2, <1>3, <1>10
  <2> QED BY <1>5, <1>10, <2>1 DEF H, J, e
<1> QED BY <1>7, <1>8, <1>9, <1>10

\* The loop of CMOOSCommServer::Run over the entries, entry by entry.
TakenIn(q, e) == IF e.ok THEN PushEntry(q, e) ELSE q
Pushes(f, es, n) == f = [k \in 0 .. n |-> IF k = 0 THEN <<>> ELSE TakenIn(f[k - 1], es[k])]

LEMMA PushesExist ==
    ASSUME NEW es, NEW n \in Nat
    PROVE  \E f : Pushes(f, es, n)
<1> DEFINE S == {j \in Nat : \E f : Pushes(f, es, j)}
<1>1. 0 \in S
  <2>1. Pushes([k \in 0 .. 0 |-> <<>>], es, 0)
    BY DEF Pushes
  <2> QED BY <2>1
<1>2. ASSUME NEW j \in Nat, j \in S PROVE j + 1 \in S
  <2>1. PICK f : Pushes(f, es, j)
    BY <1>2
  <2> DEFINE h == [k \in 0 .. (j + 1) |-> IF k = j + 1 THEN TakenIn(f[j], es[j + 1]) ELSE f[k]]
  <2>2. \A k \in 0 .. j : f[k] = IF k = 0 THEN <<>> ELSE TakenIn(f[k - 1], es[k])
    BY <2>1 DEF Pushes
  <2>3. ASSUME NEW k \in 0 .. (j + 1)
        PROVE  h[k] = IF k = 0 THEN <<>> ELSE TakenIn(h[k - 1], es[k])
    <3>1. \A i \in 0 .. j : h[i] = f[i]
      OBVIOUS
    <3>2. h[j + 1] = TakenIn(f[j], es[j + 1])
      OBVIOUS
    <3> HIDE DEF h
    <3>3. CASE k \in 0 .. j
      <4>1. k # 0 => k - 1 \in 0 .. j
        BY <3>3
      <4> QED BY <2>2, <3>1, <3>3, <4>1
    <3>4. CASE k = j + 1
      <4>1. k # 0 /\ k - 1 = j /\ j \in 0 .. j
        BY <3>4
      <4> QED BY <3>1, <3>2, <3>4, <4>1
    <3> QED BY <3>3, <3>4
  <2>4. h = [k \in 0 .. (j + 1) |-> h[k]]
    OBVIOUS
  <2>5. Pushes(h, es, j + 1)
    <3> HIDE DEF h
    <3> QED BY <2>3, <2>4 DEF Pushes
  <2> QED BY <2>5
<1> HIDE DEF S
<1>3. Nat \subseteq S
  BY <1>1, <1>2, NatSetInduction
<1> QED BY <1>3 DEF S

\* The first match in the list that is made of the entries is what they ask for.
LEMMA TimingIsAsked ==
    ASSUME NEW E, NEW es \in Seq(E), NEW name
    PROVE  FirstMatch(TimingVector(es), name) = Asked(es, Len(es), name)
<1> DEFINE n == Len(es)
           P(f) == Pushes(f, es, n)
           F == CHOOSE f : P(f)
           OK(k) == /\ F[k] \in Seq(E)
                    /\ Matches(F[k], name) # {} <=> Hits(es, k, name) # {}
                    /\ FirstMatch(F[k], name) = Asked(es, k, name)
           S == {k \in Nat : k <= n => OK(k)}
<1>1. n \in Nat
  OBVIOUS
<1>2. TimingVector(es) = F[n]
  BY DEF TimingVector, Pushes, TakenIn
<1>3. \E f : P(f)
  BY <1>1, PushesExist
<1> HIDE DEF P, F
<1>4. P(F)
  BY <1>3 DEF F
<1>5. \A k \in 0 .. n : F[k] = IF k = 0 THEN <<>> ELSE TakenIn(F[k - 1], es[k])
  BY <1>4 DEF P, Pushes
<1>6. \A k \in 1 .. n : es[k] \in E
  OBVIOUS
<1> HIDE DEF n
<1>7. 0 \in S
  <2>1. F[0] = <<>>
    <3>1. 0 \in 0 .. n
      BY <1>1
    <3> QED BY <1>5, <3>1
  <2>2. Matches(<<>>, name) = {}
    BY DEF Matches
  <2>3. Hits(es, 0, name) = {} /\ Wilds(es, 0, name) = {}
    BY DEF Hits, Wilds
  <2>4. FirstMatch(<<>>, name) = 0 /\ Asked(es, 0, name) = 0
    BY <2>2, <2>3, FirstMatchIs DEF Asked
  <2>5. OK(0)
    BY <2>1, <2>2, <2>3, <2>4, EmptySeq
  <2> HIDE DEF OK
  <2> QED BY <2>5
<1>8. ASSUME NEW k \in Nat, k \in S PROVE k + 1 \in S
  <2> SUFFICES ASSUME k + 1 <= n PROVE OK(k + 1)
    OBVIOUS
  <2>1. OK(k)
    BY <1>1, <1>8
  <2> DEFINE e == es[k + 1]
             q == F[k]
             M == MOOSWildCmp(e.client, name)
  <2>2. k + 1 \in 1 .. n /\ k + 1 \in 0 .. n /\ (k + 1) - 1 = k /\ k + 1 # 0
    BY <1>1
  <2>3. F[k + 1] = TakenIn(q, e) /\ e \in E
    BY <1>5, <1>6, <2>2
  <2>4. /\ Hits(es, k + 1, name) # {} <=> ((e.ok /\ M) \/ Hits(es, k, name) # {})
        /\ Asked(es, k + 1, name) = IF e.ok /\ M /\ HasWild(e.client) THEN e.ms
                                    ELSE IF Hits(es, k, name) # {} THEN Asked(es, k, name)
                                    ELSE IF e.ok /\ M THEN e.ms ELSE 0
    BY AskedNext
  <2>5. /\ q \in Seq(E)
        /\ Matches(q, name) # {} <=> Hits(es, k, name) # {}
        /\ FirstMatch(q, name) = Asked(es, k, name)
    BY <2>1
  <2>6. Hits(es, k, name) = {} => Asked(es, k, name) = 0
    BY DEF Asked, Wilds
  <2> HIDE DEF e, q
  <2>7. CASE ~e.ok
    <3>1. F[k + 1] = q
      BY <2>3, <2>7 DEF TakenIn
    <3> QED BY <2>4, <2>5, <2>6, <2>7, <3>1
  <2>8. CASE e.ok /\ HasWild(e.client)
    <3>1. F[k + 1] = <<e>> \o q
      BY <2>3, <2>8 DEF TakenIn, PushEntry
    <3>2. <<e>> \o q \in Seq(E)
      BY <2>3, <2>5
    <3>3. /\ Matches(<<e>> \o q, name) # {} <=> (M \/ Matches(q, name) # {})
          /\ FirstMatch(<<e>> \o q, name) = IF M THEN e.ms ELSE FirstMatch(q, name)
      BY <2>3, <2>5, PutToFront
    <3> QED BY <2>4, <2>5, <2>6, <2>8, <3>1, <3>2, <3>3
  <2>9. CASE e.ok /\ ~HasWild(e.client)
    <3>1. F[k + 1] = Append(q, e)
      BY <2>3, <2>9 DEF TakenIn, PushEntry
    <3>2. Append(q, e) \in Seq(E)
      BY <2>3, <2>5
    <3>3. /\ Matches(Append(q, e), name) # {} <=> (M \/ Matches(q, name) # {})
          /\ FirstMatch(Append(q, e), name) = IF Matches(q, name) # {} THEN FirstMatch(q, name)
                                              ELSE IF M THEN e.ms ELSE 0
      BY <2>3, <2>5, PutToBack
    <3> QED BY <2>4, <2>5, <2>6, <2>9, <3>1, <3>2, <3>3
  <2> QED BY <2>7, <2>8, <2>9
<1>9. Nat \subseteq S
  <2> HIDE DEF S
  <2> QED BY <1>7, <1>8, NatSetInduction
<1>10. OK(n)
  <2> HIDE DEF OK
  <2> QED BY <1>1, <1>9
<1> QED BY <1>2, <1>10 DEF n

\* What the mission file and the command line can say.
Fields == [warp : Int, timeout : Int, web : Int]

\* What is said does not change, and is in force once it has been read.
SettingsOK ==
    /\ given \in [file : Fields, cmd : Fields, response : Seq(STRING)]
    /\ dbOwner \in {"configure", "start", "run", "listen", "server", "clients", "base", "stopped"}
    /\ dbOwner = "configure" => warp = DefaultWarp /\ timeout = DefaultTimeout
    /\ SettingsInForce

\* The listen thread is born with the server, and has ended when the owner has joined it.
ListenerOK ==
    /\ running \in [Threads -> BOOLEAN]
    /\ dbOwner \in {"configure", "start"} => listener = "unborn"
    /\ dbOwner \notin {"configure", "start"} /\ ~running["listen"] => listener = "ended"
    /\ dbOwner \in {"server", "clients", "base", "stopped"} => listener = "ended"

\* The list of delays stands while clients can come in, and each has had its delay from it.
ResponseList == Entries[given.response]
DelaysOK ==
    /\ dbOwner \in {"configure", "start"} => clients = <<>>
    /\ dbOwner \in {"run", "listen", "server", "clients", "base"} => timing = TimingVector(ResponseList)
    /\ \A n \in DOMAIN clients : clients[n] = Asked(ResponseList, Len(ResponseList), n)

\* Every client has its reading thread and its socket until all are closed, the threads first.
ClientsOK ==
    /\ readers = DOMAIN clients /\ readers \subseteq sockets
    /\ dbOwner \in {"base", "stopped"} => clients = <<>>
    /\ dbOwner = "stopped" => sockets = {}

\* The inductive invariant.
DBInv == SettingsOK /\ ListenerOK /\ DelaysOK /\ ClientsOK

LEMMA NothingInNothing == DOMAIN <<>> = {}
OBVIOUS

LEMMA GivenType == DBInit => given \in [file : Fields, cmd : Fields, response : Seq(STRING)]
<1> SUFFICES ASSUME DBInit PROVE given \in [file : Fields, cmd : Fields, response : Seq(STRING)]
  OBVIOUS
<1>1. {DefaultResponse} \subseteq Seq(STRING) /\ Responses \subseteq Seq(STRING)
  BY DBAssumption
<1>2. Nothing \in Fields /\ Warps \subseteq Int /\ Absent \in Int
  BY DBAssumption DEF Nothing, Fields, Warps, Absent
<1>3. \A w \in Warps : [Nothing EXCEPT !.warp = w] \in Fields
  BY <1>2 DEF Fields
<1>4. [warp |-> Absent, timeout |-> 3, web |-> 80] \in Fields
  BY <1>2 DEF Fields
<1>5. [warp : {Absent}, timeout : {Absent, -1}, web : {Absent, 0}] \subseteq Fields
  BY <1>2 DEF Fields
<1>6. {[Nothing EXCEPT !.warp = w] : w \in Warps} \subseteq Fields
  BY <1>3
<1>7. \/ given \in [file : {[Nothing EXCEPT !.warp = w] : w \in Warps},
                    cmd : {[Nothing EXCEPT !.warp = w] : w \in Warps}, response : {DefaultResponse}]
      \/ given \in [file : {[warp |-> Absent, timeout |-> 3, web |-> 80]},
                    cmd : [warp : {Absent}, timeout : {Absent, -1}, web : {Absent, 0}],
                    response : {DefaultResponse}]
      \/ given \in [file : {Nothing}, cmd : {Nothing}, response : Responses]
  BY DEF DBInit
<1> DEFINE F1 == {[Nothing EXCEPT !.warp = w] : w \in Warps}
           F2 == {[warp |-> Absent, timeout |-> 3, web |-> 80]}
           F3 == [warp : {Absent}, timeout : {Absent, -1}, web : {Absent, 0}]
           R0 == {DefaultResponse}
<1>8. F1 \subseteq Fields /\ F2 \subseteq Fields /\ F3 \subseteq Fields /\ R0 \subseteq Seq(STRING)
  BY <1>1, <1>4, <1>5, <1>6
<1> HIDE DEF F1, F2, F3, R0
<1>9. \/ given \in [file : F1, cmd : F1, response : R0]
      \/ given \in [file : F2, cmd : F3, response : R0]
      \/ given \in [file : {Nothing}, cmd : {Nothing}, response : Responses]
  BY <1>7 DEF F1, F2, F3, R0
<1> QED BY <1>1, <1>2, <1>8, <1>9

LEMMA DBStart == DBInit => DBInv
<1> SUFFICES ASSUME DBInit PROVE DBInv
  OBVIOUS
<1>1. /\ warp = DefaultWarp /\ timeout = DefaultTimeout /\ dbOwner = "configure"
      /\ running = [t \in Threads |-> FALSE] /\ listener = "unborn"
      /\ clients = <<>> /\ readers = {} /\ sockets = {}
  BY DEF DBInit
<1>2. SettingsOK
  BY <1>1, GivenType DEF SettingsOK, SettingsInForce
<1>3. ListenerOK
  BY <1>1 DEF ListenerOK
<1>4. DelaysOK
  BY <1>1, NothingInNothing DEF DelaysOK
<1>5. ClientsOK
  BY <1>1, NothingInNothing DEF ClientsOK
<1> QED BY <1>2, <1>3, <1>4, <1>5 DEF DBInv

\* Run: of the mission file and the command line, what is in range is in force.
LEMMA SettingsAreRead == SettingsOK /\ ReadSettings => SettingsOK'
<1> SUFFICES ASSUME SettingsOK, ReadSettings PROVE SettingsOK'
  OBVIOUS
<1> DEFINE f == given.file.warp
           c == given.cmd.warp
<1>1. /\ dbOwner = "configure" /\ dbOwner' = "start" /\ given' = given
      /\ warp' = OverrideWarp(Else(c, Else(f, DefaultWarp)), SetMOOSTimeWarp(Else(f, DefaultWarp), warp))
      /\ timeout' = SetClientTimeout(Chosen("timeout", DefaultTimeout), timeout)
      /\ warp = 1 /\ timeout = 5 /\ DefaultWarp = 1
  BY DEF ReadSettings, SettingsOK, Chosen, DefaultWarp, DefaultTimeout
<1>2. f \in Int /\ c \in Int /\ given.file.timeout \in Int /\ given.cmd.timeout \in Int
  BY DEF SettingsOK, Fields
<1>3. WarpLimit \in Nat
  BY DBAssumption
<1>4. timeout' >= 0
  <2>1. Chosen("timeout", DefaultTimeout) \in Int
    BY <1>2 DEF Chosen, Else, DefaultTimeout
  <2> QED BY <1>1, <2>1 DEF SetClientTimeout
<1>5. warp' = IF Ranged(c, 1, WarpLimit) THEN c ELSE IF Ranged(f, 1, WarpLimit) THEN f ELSE 1
  <2> HIDE DEF f, c
  <2>1. SetMOOSTimeWarp(Else(f, 1), 1) = IF Ranged(f, 1, WarpLimit) THEN f ELSE 1
    BY <1>2, <1>3 DEF SetMOOSTimeWarp, Else, Ranged, Absent
  <2>2. warp' = OverrideWarp(Else(c, Else(f, 1)), SetMOOSTimeWarp(Else(f, 1), 1))
    BY <1>1
  <2> QED BY <1>2, <1>3, <2>1, <2>2 DEF OverrideWarp, SetMOOSTimeWarp, Else, Ranged, Absent
<1>6. SettingsInForce'
  BY <1>1, <1>4, <1>5 DEF SettingsInForce, DefaultWarp
<1> QED BY <1>1, <1>6 DEF SettingsOK

\* A step that leaves the settings alone.
LEMMA SettingsStay ==
    ASSUME SettingsOK, UNCHANGED <<given, warp, timeout>>,
           (dbOwner # "configure" /\ dbOwner' # "configure") \/ dbOwner' = dbOwner,
           dbOwner' \in {"configure", "start", "run", "listen", "server", "clients", "base", "stopped"}
    PROVE  SettingsOK'
BY DEF SettingsOK, SettingsInForce

\* The delay a client is given is the one asked for.
LEMMA DelayIsAsked ==
    ASSUME SettingsOK, timing = TimingVector(ResponseList), NEW n
    PROVE  ConsolidationTime(n) = Asked(ResponseList, Len(ResponseList), n)
<1> DEFINE r == given.response
           words == StringListToVector(r, <<",">>)
           E == {Entry(words[i]) : i \in 1 .. Len(words)}
<1>1. r \in Seq(STRING)
  BY DEF SettingsOK
<1>2. words \in Seq(Seq(STRING))
  <2> HIDE DEF r
  <2> QED BY <1>1, SplitIsAList
<1>3. ResponseList = [i \in 1 .. Len(words) |-> Entry(words[i])]
  BY <1>1 DEF ResponseList, Entries
<1>4. Len(words) \in Nat
  <2> HIDE DEF words
  <2> QED BY <1>2, LenProperties
<1>5. ResponseList \in Seq(E)
  <2> HIDE DEF words
  <2>1. ResponseList \in [1 .. Len(words) -> E]
    BY <1>3
  <2> HIDE DEF E
  <2> QED BY <1>4, <2>1
<1>6. FirstMatch(TimingVector(ResponseList), n) = Asked(ResponseList, Len(ResponseList), n)
  BY <1>5, TimingIsAsked
<1> QED BY <1>6 DEF ConsolidationTime, FirstMatch

\* The listen thread makes a client: it has its delay, its reader and its socket.
LEMMA NewClient == DBInv /\ OnNewClient => DBInv'
<1> SUFFICES ASSUME DBInv, OnNewClient PROVE DBInv'
  OBVIOUS
<1>1. /\ listener = "accept" /\ AfterClient
      /\ UNCHANGED <<given, warp, timeout, web, timing, dbOwner>>
  BY DEF OnNewClient, settings
<1>2. dbOwner \in {"run", "listen"} /\ running["listen"]
  BY <1>1 DEF DBInv, SettingsOK, ListenerOK
<1>3. SettingsOK'
  BY <1>1 DEF DBInv, SettingsOK, SettingsInForce
<1>4. ListenerOK'
  <2>1. /\ running' \in [Threads -> BOOLEAN]
        /\ listener' = "ended" \/ running' = running
    BY <1>1 DEF AfterClient, ListenEnds, DBInv, ListenerOK, Threads
  <2> QED BY <1>1, <1>2, <2>1 DEF ListenerOK
<1>5. PICK n \in calling :
        IF n \in sockets THEN UNCHANGED <<clients, readers, sockets>>
        ELSE /\ clients' = [m \in DOMAIN clients \cup {n} |-> IF m = n THEN ConsolidationTime(n) ELSE clients[m]]
             /\ readers' = readers \cup {n} /\ sockets' = sockets \cup {n}
  BY DEF OnNewClient
<1>6. ResponseList' = ResponseList
  BY <1>1 DEF ResponseList
<1>7. CASE n \in sockets
  BY <1>1, <1>3, <1>4, <1>5, <1>6, <1>7 DEF DBInv, DelaysOK, ClientsOK
<1>8. CASE n \notin sockets
  <2>1. ConsolidationTime(n) = Asked(ResponseList, Len(ResponseList), n)
    BY <1>2, DelayIsAsked DEF DBInv, DelaysOK
  <2>2. clients' = [m \in DOMAIN clients \cup {n} |-> IF m = n THEN ConsolidationTime(n) ELSE clients[m]]
    BY <1>5, <1>8
  <2>3. DOMAIN clients' = DOMAIN clients \cup {n}
    BY <2>2
  <2>4. \A m \in DOMAIN clients' : clients'[m] = Asked(ResponseList, Len(ResponseList), m)
    BY <2>1, <2>2, <2>3 DEF DBInv, DelaysOK
  <2>5. DelaysOK'
    BY <1>1, <1>2, <1>6, <2>4 DEF DBInv, DelaysOK
  <2>6. ClientsOK'
    BY <1>1, <1>2, <1>5, <1>8, <2>3 DEF DBInv, ClientsOK
  <2> QED BY <1>3, <1>4, <2>5, <2>6 DEF DBInv
<1> QED BY <1>7, <1>8

\* A client leaves, or all are cut off.
LEMMA FewerClients ==
    ASSUME DBInv, UNCHANGED <<given, warp, timeout, timing>>,
           NEW D, D \subseteq DOMAIN clients, clients' = [m \in D |-> clients[m]],
           readers' = D, readers' \subseteq sockets', ListenerOK', SettingsOK',
           \/ dbOwner' = dbOwner /\ dbOwner # "stopped"
           \/ dbOwner = "clients" /\ dbOwner' = "base" /\ D = {}
           \/ dbOwner' = dbOwner /\ sockets' \subseteq sockets
    PROVE  DBInv'
<1>1. DOMAIN clients' = D /\ \A m \in D : clients'[m] = clients[m]
  OBVIOUS
<1>2. D = {} => clients' = <<>>
  OBVIOUS
<1>3. ResponseList' = ResponseList
  BY DEF ResponseList
<1>4. clients = <<>> => clients' = <<>>
  BY <1>2, NothingInNothing
<1>5. DelaysOK'
  BY <1>1, <1>3, <1>4 DEF DBInv, DelaysOK
<1>6. ClientsOK'
  BY <1>1, <1>2, <1>4 DEF DBInv, ClientsOK
<1> QED BY <1>5, <1>6 DEF DBInv

\* A step that leaves the clients alone.
LEMMA ClientsStay ==
    ASSUME DBInv, UNCHANGED <<given, timing, clients, readers, sockets>>, SettingsOK', ListenerOK',
           dbOwner' \in {"start", "run", "configure"} => dbOwner' = dbOwner,
           dbOwner' \in {"run", "listen", "server", "clients", "base"}
               => dbOwner \notin {"configure", "start", "stopped"},
           dbOwner' \in {"base", "stopped"} => dbOwner' = dbOwner
    PROVE  DBInv'
<1>1. ResponseList' = ResponseList
  BY DEF ResponseList
<1>2. \/ dbOwner \in {"run", "listen", "server", "clients", "base"}
      \/ dbOwner' = dbOwner
      \/ dbOwner' \notin {"run", "listen", "server", "clients", "base"}
  BY DEF DBInv, SettingsOK
<1>3. DelaysOK'
  BY <1>1, <1>2 DEF DBInv, DelaysOK, SettingsOK
<1>4. ClientsOK'
  BY DEF DBInv, ClientsOK
<1> QED BY <1>3, <1>4 DEF DBInv

LEMMA DBStep == DBInv /\ [DBNext]_dbVars => DBInv'
<1> SUFFICES ASSUME DBInv, [DBNext]_dbVars PROVE DBInv'
  OBVIOUS
<1>1. SettingsOK /\ ListenerOK /\ DelaysOK /\ ClientsOK
  BY DEF DBInv
<1>2. CASE ReadSettings
  <2>1. /\ dbOwner = "configure" /\ dbOwner' = "start" /\ given' = given
        /\ UNCHANGED <<running, listener, clients, readers, sockets>>
    BY <1>2 DEF ReadSettings
  <2>2. SettingsOK'
    BY <1>1, <1>2, SettingsAreRead
  <2>3. ListenerOK'
    BY <1>1, <2>1 DEF ListenerOK
  <2>4. DelaysOK'
    BY <1>1, <2>1 DEF DelaysOK, ResponseList
  <2>5. ClientsOK'
    BY <1>1, <2>1 DEF ClientsOK
  <2> QED BY <2>2, <2>3, <2>4, <2>5 DEF DBInv
<1>3. CASE RunServer
  <2>1. /\ dbOwner = "start" /\ dbOwner' = "run" /\ timing' = TimingVector(ResponseList)
        /\ running' = [t \in Threads |-> TRUE] /\ listener' = "bind"
        /\ UNCHANGED <<given, warp, timeout, clients, readers, sockets>>
    BY <1>3 DEF RunServer, ResponseList
  <2>2. SettingsOK'
    BY <1>1, <2>1 DEF SettingsOK, SettingsInForce
  <2>3. ListenerOK'
    BY <2>1 DEF ListenerOK, Threads
  <2>4. DelaysOK'
    BY <1>1, <2>1 DEF DelaysOK, ResponseList
  <2>5. ClientsOK'
    BY <1>1, <2>1 DEF ClientsOK
  <2> QED BY <2>2, <2>3, <2>4, <2>5 DEF DBInv
<1>4. CASE Leave
  <2>1. /\ dbOwner = "run" /\ dbOwner' = "listen"
        /\ UNCHANGED <<given, warp, timeout, timing, running, listener, clients, readers, sockets>>
    BY <1>4 DEF Leave, AfterStage, settings, threads
  <2>2. SettingsOK'
    BY <1>1, <2>1, SettingsStay
  <2>3. ListenerOK'
    BY <1>1, <2>1 DEF ListenerOK
  <2> QED BY <2>1, <2>2, <2>3, ClientsStay
<1>5. ASSUME NEW t \in {"listen", "server"}, ThreadJoined(t) PROVE DBInv'
  <2>1. /\ dbOwner = t /\ ~running[t] /\ dbOwner' = IF t = "listen" THEN "server" ELSE "clients"
        /\ UNCHANGED <<given, warp, timeout, timing, running, listener, clients, readers, sockets>>
    BY <1>5 DEF ThreadJoined, AfterStage, settings, threads
  <2>2. SettingsOK'
    BY <1>1, <2>1, SettingsStay
  <2>3. ListenerOK'
    BY <1>1, <2>1 DEF ListenerOK
  <2> QED BY <2>1, <2>2, <2>3, ClientsStay
<1>6. ASSUME UNCHANGED <<given, warp, timeout, timing, dbOwner, clients, readers, sockets>>, ListenerOK'
      PROVE  DBInv'
  <2>1. SettingsOK'
    BY <1>1, <1>6 DEF SettingsOK, SettingsInForce
  <2>2. DelaysOK' /\ ClientsOK'
    BY <1>1, <1>6 DEF DelaysOK, ClientsOK, ResponseList
  <2> QED BY <1>6, <2>1, <2>2 DEF DBInv
<1>7. ASSUME UNCHANGED <<dbOwner, running, listener>> PROVE ListenerOK'
  BY <1>1, <1>7 DEF ListenerOK
<1>8. ASSUME NEW t \in Threads, QuitThread(t) PROVE DBInv'
  <2>1. UNCHANGED <<given, warp, timeout, timing, dbOwner, running, listener, clients, readers, sockets>>
    BY <1>8 DEF QuitThread, settings
  <2> QED BY <1>6, <1>7, <2>1
<1>9. CASE RequestTimerQuit
  <2>1. UNCHANGED <<given, warp, timeout, timing, dbOwner, running, listener, clients, readers, sockets>>
    BY <1>9 DEF RequestTimerQuit, settings
  <2> QED BY <1>6, <1>7, <2>1
<1>10. CASE ClearClients
  <2>1. /\ dbOwner = "clients" /\ dbOwner' = "base" /\ clients' = <<>> /\ readers' = readers \ DOMAIN clients
        /\ UNCHANGED <<given, warp, timeout, timing, running, listener, sockets>>
    BY <1>10 DEF ClearClients, AfterStage, settings, threads
  <2>2. SettingsOK'
    BY <1>1, <2>1, SettingsStay
  <2>3. ListenerOK'
    BY <1>1, <2>1 DEF ListenerOK
  <2>4. readers' = {}
    BY <1>1, <2>1 DEF ClientsOK
  <2>5. clients' = [m \in {} |-> clients[m]]
    BY <2>1
  <2> QED BY <2>1, <2>2, <2>3, <2>4, <2>5, FewerClients
<1>11. CASE BaseStop
  <2>1. /\ dbOwner = "base" /\ dbOwner' = "stopped" /\ sockets' = {}
        /\ UNCHANGED <<given, warp, timeout, running, listener, clients, readers>>
    BY <1>11 DEF BaseStop, AfterStage, threads
  <2>2. SettingsOK'
    BY <1>1, <2>1, SettingsStay
  <2>3. ListenerOK'
    BY <1>1, <2>1 DEF ListenerOK
  <2>4. clients = <<>> /\ readers = {}
    BY <1>1, <2>1, NothingInNothing DEF ClientsOK
  <2>5. DelaysOK' /\ ClientsOK'
    BY <2>1, <2>4, NothingInNothing DEF DelaysOK, ClientsOK
  <2> QED BY <2>2, <2>3, <2>5 DEF DBInv
<1>12. CASE BindListener
  <2>1. /\ listener = "bind" /\ UNCHANGED <<given, warp, timeout, timing, dbOwner, clients, readers, sockets>>
        /\ \/ listener' = "select" /\ running' = running
           \/ listener' = "ended" /\ running' = [running EXCEPT !["listen"] = FALSE]
    BY <1>12 DEF BindListener, ListenEnds, settings
  <2>2. ListenerOK'
    BY <1>1, <2>1 DEF ListenerOK, Threads
  <2> QED BY <1>6, <2>1, <2>2
<1>13. CASE Select
  <2>1. /\ listener = "select" /\ UNCHANGED <<given, warp, timeout, timing, dbOwner, clients, readers, sockets>>
        /\ \/ listener' = "accept" /\ running' = running
           \/ listener' = "ended" /\ running' = [running EXCEPT !["listen"] = FALSE]
    BY <1>13 DEF Select, ListenEnds, settings
  <2>2. ListenerOK'
    BY <1>1, <2>1 DEF ListenerOK, Threads
  <2> QED BY <1>6, <2>1, <2>2
<1>14. CASE OnNewClient
  BY <1>14, NewClient
<1>15. ASSUME NEW t \in Threads, LoopEnds(t) PROVE DBInv'
  <2>1. /\ t # "listen" /\ running' = [running EXCEPT ![t] = FALSE]
        /\ UNCHANGED <<given, warp, timeout, timing, dbOwner, listener, clients, readers, sockets>>
    BY <1>15 DEF LoopEnds, settings
  <2>2. ListenerOK'
    BY <1>1, <2>1 DEF ListenerOK, Threads
  <2> QED BY <1>6, <2>1, <2>2
<1>16. ASSUME NEW n, Call(n) PROVE DBInv'
  <2>1. UNCHANGED <<given, warp, timeout, timing, dbOwner, running, listener, clients, readers, sockets>>
    BY <1>16 DEF Call, settings, threads
  <2> QED BY <1>6, <1>7, <2>1
<1>17. ASSUME NEW n, ClientLeaves(n) PROVE DBInv'
  <2>1. /\ n \in DOMAIN clients /\ clients' = [m \in DOMAIN clients \ {n} |-> clients[m]]
        /\ readers' = readers \ {n} /\ sockets' = sockets \ {n}
        /\ UNCHANGED <<given, warp, timeout, timing, dbOwner, running, listener>>
    BY <1>17 DEF ClientLeaves, settings, threads
  <2>2. SettingsOK' /\ ListenerOK'
    BY <1>1, <1>7, <2>1 DEF SettingsOK, SettingsInForce
  <2>3. readers' = DOMAIN clients \ {n} /\ readers' \subseteq sockets' /\ sockets' \subseteq sockets
    BY <1>1, <2>1 DEF ClientsOK
  <2> QED BY <2>1, <2>2, <2>3, FewerClients
<1>18. CASE UNCHANGED dbVars
  BY <1>6, <1>7, <1>18 DEF dbVars
<1> QED BY <1>2, <1>3, <1>4, <1>5, <1>8, <1>9, <1>10, <1>11, <1>12, <1>13, <1>14, <1>15, <1>16, <1>17, <1>18
        DEF DBNext, Owner, ListenLoop, Threads

\* The database comes and goes as it should, whatever its settings, whoever calls while it stops and
\* whatever --response says: the settings in force are in range (Run), each client has the delay that
\* was asked for (OnNewClient), and when Stop has returned nobody is left (Stop).
THEOREM TheDatabaseComesAndGoes == DBSpec => []DatabaseComesAndGoes
<1>1. DBInv => DatabaseComesAndGoes
  <2> SUFFICES ASSUME DBInv PROVE DatabaseComesAndGoes
    OBVIOUS
  <2>1. SettingsInForce
    BY DEF DBInv, SettingsOK
  <2>2. ResponseIsAsked
    <3>1. ASSUME NEW n \in DOMAIN clients
          PROVE  clients[n] = Asked(ResponseList, Len(ResponseList), n)
      BY DEF DBInv, DelaysOK
    <3> QED BY <3>1 DEF ResponseIsAsked, Asked, Hits, Wilds, ResponseList
  <2>3. dbOwner = "stopped" => clients = <<>> /\ sockets = {}
    BY DEF DBInv, ClientsOK
  <2> QED BY <2>1, <2>2, <2>3 DEF DBInv, ClientsOK, DatabaseComesAndGoes, StopLeavesNobody
<1> QED BY <1>1, DBStart, DBStep, PTL DEF DBSpec

-----------------------------------------------------------------------------
(* The command line                                                        *)

\* What SectionOf computes with: the sections up to the n-th argument.
Sections(f, line, n) ==
    f = [j \in 0 .. n |-> IF j = 0 THEN <<>>
                          ELSE IF line[j].kind = "label" THEN ProcessSectionLabel(line[j], f[j - 1]) ELSE f[j - 1]]

\* The sections up to an argument are determined, and those before it by the arguments before it.
LEMMA SectionsAgree ==
    ASSUME NEW s, NEW t, NEW f, NEW g, NEW n \in Nat, NEW m \in Nat, NEW k \in Nat, k <= n, k <= m,
           Sections(f, s, n), Sections(g, t, m), \A j \in 1 .. k : s[j] = t[j]
    PROVE  f[k] = g[k]
<1> DEFINE S == {i \in Nat : i <= k => f[i] = g[i]}
<1>1. 0 \in S
  BY DEF Sections
<1>2. ASSUME NEW i \in Nat, i \in S PROVE i + 1 \in S
  <2>1. SUFFICES ASSUME i + 1 <= k PROVE f[i + 1] = g[i + 1]
    OBVIOUS
  <2>2. f[i] = g[i] /\ s[i + 1] = t[i + 1]
    BY <1>2, <2>1
  <2>3. i + 1 \in 0 .. n /\ i + 1 \in 0 .. m /\ i + 1 # 0 /\ (i + 1) - 1 = i
    BY <2>1
  <2>4. f[i + 1] = IF s[i + 1].kind = "label" THEN ProcessSectionLabel(s[i + 1], f[i]) ELSE f[i]
    BY <2>3 DEF Sections
  <2>5. g[i + 1] = IF t[i + 1].kind = "label" THEN ProcessSectionLabel(t[i + 1], g[i]) ELSE g[i]
    BY <2>3 DEF Sections
  <2> QED BY <2>2, <2>4, <2>5
<1> HIDE DEF S
<1>3. Nat \subseteq S
  BY <1>1, <1>2, NatSetInduction
<1> QED BY <1>3 DEF S

LEMMA SectionsExist ==
    ASSUME NEW line, NEW n \in Nat
    PROVE  \E f : Sections(f, line, n)
<1> DEFINE S == {i \in Nat : \E f : Sections(f, line, i)}
<1>1. 0 \in S
  <2>1. Sections([j \in 0 .. 0 |-> <<>>], line, 0)
    BY DEF Sections
  <2> QED BY <2>1
<1>2. ASSUME NEW i \in Nat, i \in S PROVE i + 1 \in S
  <2>1. PICK f : Sections(f, line, i)
    BY <1>2
  <2> DEFINE next == IF line[i + 1].kind = "label" THEN ProcessSectionLabel(line[i + 1], f[i]) ELSE f[i]
             g == [j \in 0 .. i + 1 |-> IF j = i + 1 THEN next ELSE f[j]]
             h == [j \in 0 .. i + 1 |-> IF j = 0 THEN <<>>
                          ELSE IF line[j].kind = "label" THEN ProcessSectionLabel(line[j], g[j - 1]) ELSE g[j - 1]]
  <2>2. ASSUME NEW j \in 0 .. i + 1 PROVE g[j] = h[j]
    <3>1. CASE j = 0
      BY <2>1, <3>1 DEF Sections
    <3>2. CASE j = i + 1
      <4>1. j # 0 /\ j - 1 = i /\ i \in 0 .. i + 1 /\ i # i + 1
        BY <3>2
      <4>2. g[i] = f[i] /\ g[j] = next
        BY <3>2, <4>1
      <4> QED BY <3>2, <4>1, <4>2
    <3>3. CASE j # 0 /\ j # i + 1
      <4>1. j \in 0 .. i /\ j - 1 \in 0 .. i + 1 /\ j - 1 # i + 1
        BY <3>3
      <4>2. g[j] = f[j] /\ g[j - 1] = f[j - 1]
        BY <3>3, <4>1
      <4>3. f[j] = IF line[j].kind = "label" THEN ProcessSectionLabel(line[j], f[j - 1]) ELSE f[j - 1]
        BY <2>1, <3>3, <4>1 DEF Sections
      <4>4. h[j] = IF line[j].kind = "label" THEN ProcessSectionLabel(line[j], g[j - 1]) ELSE g[j - 1]
        BY <3>3
      <4> QED BY <4>2, <4>3, <4>4
    <3> QED BY <3>1, <3>2, <3>3
  <2>3. g = h
    BY <2>2
  <2>4. Sections(g, line, i + 1)
    BY <2>3 DEF Sections
  <2> HIDE DEF g
  <2> QED BY <2>4
<1> HIDE DEF S
<1>3. Nat \subseteq S
  BY <1>1, <1>2, NatSetInduction
<1> QED BY <1>3 DEF S

LEMMA SectionIsAny ==
    ASSUME NEW line, NEW n \in Nat, NEW f, Sections(f, line, n)
    PROVE  SectionOf(line, n) = f[n]
<1> DEFINE P(h) == h = [j \in 0 .. n |-> IF j = 0 THEN <<>>
                          ELSE IF line[j].kind = "label" THEN ProcessSectionLabel(line[j], h[j - 1]) ELSE h[j - 1]]
           q == CHOOSE h : P(h)
<1>1. SectionOf(line, n) = q[n]
  BY DEF SectionOf
<1>2. \A h : P(h) <=> Sections(h, line, n)
  BY DEF Sections
<1> HIDE DEF P
<1>3. P(q)
  BY <1>2
<1> HIDE DEF q
<1>4. Sections(q, line, n)
  BY <1>2, <1>3
<1>5. q[n] = f[n]
  BY <1>4, SectionsAgree
<1> QED BY <1>1, <1>5

\* The section of an argument, from that of the argument before it.
LEMMA SectionSteps ==
    ASSUME NEW line
    PROVE  /\ SectionOf(line, 0) = <<>>
           /\ \A n \in Nat : SectionOf(line, n + 1) =
                 IF line[n + 1].kind = "label" THEN ProcessSectionLabel(line[n + 1], SectionOf(line, n))
                 ELSE SectionOf(line, n)
<1>1. SectionOf(line, 0) = <<>>
  <2>1. PICK f : Sections(f, line, 0)
    BY SectionsExist
  <2>2. f[0] = <<>>
    BY <2>1 DEF Sections
  <2> QED BY <2>1, <2>2, SectionIsAny
<1>2. ASSUME NEW n \in Nat
      PROVE  SectionOf(line, n + 1) =
                 IF line[n + 1].kind = "label" THEN ProcessSectionLabel(line[n + 1], SectionOf(line, n))
                 ELSE SectionOf(line, n)
  <2>1. n + 1 \in Nat /\ n <= n + 1 /\ n <= n
    OBVIOUS
  <2>2. PICK f : Sections(f, line, n + 1)
    BY <2>1, SectionsExist
  <2>3. PICK g : Sections(g, line, n)
    BY SectionsExist
  <2>4. g[n] = f[n]
    BY <2>1, <2>2, <2>3, SectionsAgree
  <2>5. SectionOf(line, n) = f[n] /\ SectionOf(line, n + 1) = f[n + 1]
    BY <2>1, <2>2, <2>3, <2>4, SectionIsAny
  <2>6. n + 1 \in 0 .. n + 1 /\ n + 1 # 0 /\ (n + 1) - 1 = n
    OBVIOUS
  <2>7. f[n + 1] = IF line[n + 1].kind = "label" THEN ProcessSectionLabel(line[n + 1], f[n]) ELSE f[n]
    BY <2>2, <2>6 DEF Sections
  <2> QED BY <2>5, <2>7
<1> QED BY <1>1, <1>2

\* The section of an argument does not depend on what stands behind it.
LEMMA SectionStays ==
    ASSUME NEW s, NEW t, NEW n \in Nat, \A j \in 1 .. n : s[j] = t[j]
    PROVE  SectionOf(s, n) = SectionOf(t, n)
<1>1. PICK f : Sections(f, s, n)
  BY SectionsExist
<1>2. PICK g : Sections(g, t, n)
  BY SectionsExist
<1>3. f[n] = g[n]
  BY <1>1, <1>2, SectionsAgree
<1> QED BY <1>1, <1>2, <1>3, SectionIsAny

-----------------------------------------------------------------------------
\* What can stand in a command line without empty arguments, and what the parser makes of it.
ArgNames == {"p", "-f", "-o", "w", "1", "x", "s", "t", ""}
ArgValues == {"", "1", "-1", "./", "../"}
ArgKinds == {"word", "flag", "var", "label"}
SectionNames == {"s", "t"}
LabelNames == {"s", "t", ""}
Sects == Seq(SectionNames)
LineArgs == Arguments \cup {Program}
Texts == [kind : ArgKinds, name : ArgNames, value : ArgValues, sec : Sects]
VarRecs == [name : Sects \X ArgNames, original : ArgValues]

IsText(a) ==
    /\ a \in Texts /\ a.sec = <<>>
    /\ a.kind = "flag" => a.value = "" /\ a.name \in Flags
    /\ a.kind = "label" => a.name \in LabelNames

LEMMA ArgumentsAreTexts ==
    ASSUME ~EmptyArgs, NEW a \in LineArgs
    PROVE  IsText(a)
<1>1. <<>> \in Sects
  BY EmptySeq DEF Sects
<1>2. ASSUME NEW k \in ArgKinds, NEW n \in ArgNames, NEW v \in ArgValues,
             k = "flag" => v = "" /\ n \in Flags, k = "label" => n \in LabelNames
      PROVE  IsText(Arg(k, n, v))
  BY <1>1, <1>2 DEF Arg, IsText, Texts
<1>3. CASE a = Program
  <2>1. IsText(Arg("word", "p", ""))
    BY <1>2 DEF ArgKinds, ArgNames, ArgValues
  <2> QED BY <1>3, <2>1 DEF Program
<1>4. CASE a \in FlagArgs
  <2>1. PICK n \in Flags : a = Arg("flag", n, "")
    BY <1>4 DEF FlagArgs
  <2>2. IsText(Arg("flag", n, ""))
    BY <1>2, <2>1 DEF ArgKinds, ArgNames, ArgValues, Flags
  <2> QED BY <2>1, <2>2
<1>5. CASE a \in WordArgs
  <2>1. IsText(Arg("word", "w", "")) /\ IsText(Arg("word", "1", ""))
    BY <1>2 DEF ArgKinds, ArgNames, ArgValues
  <2> QED BY <1>5, <2>1 DEF WordArgs
<1>6. CASE a \in VarArgs
  <2>1. PICK n \in {"x", "-o"}, v \in {"1", "-1"} : a = Arg("var", n, v)
    BY <1>6 DEF VarArgs
  <2>2. IsText(Arg("var", n, v))
    BY <1>2, <2>1 DEF ArgKinds, ArgNames, ArgValues
  <2> QED BY <2>1, <2>2
<1>7. CASE a \in Labels
  <2>1. /\ IsText(Arg("label", "s", "")) /\ IsText(Arg("label", "t", "./"))
        /\ IsText(Arg("label", "", "../")) /\ IsText(Arg("label", "", ""))
    BY <1>2 DEF ArgKinds, ArgNames, ArgValues, LabelNames
  <2> QED BY <1>7, <2>1 DEF Labels
<1>8. Empties = {}
  BY DEF Empties
<1> QED BY <1>3, <1>4, <1>5, <1>6, <1>7, <1>8 DEF LineArgs, Arguments

LEMMA FrontIsASequence ==
    ASSUME NEW T, NEW s \in Seq(T), s # <<>>
    PROVE  SubSeq(s, 1, Len(s) - 1) \in Seq(T)
<1>1. Len(s) \in Nat /\ Len(s) > 0
  OBVIOUS
<1> QED BY <1>1

\* A label names a section.
LEMMA LabelNamesSection ==
    ASSUME NEW a, a.name \in LabelNames, NEW stack \in Sects
    PROVE  ProcessSectionLabel(a, stack) \in Sects
<1> DEFINE base == CASE a.value = "./" -> stack
                     [] a.value = "../" -> IF stack = <<>> THEN <<>> ELSE Front(stack)
                     [] OTHER -> <<>>
           tail == IF a.name = "" THEN <<>> ELSE <<a.name>>
<1>1. <<>> \in Sects
  BY EmptySeq DEF Sects
<1>2. stack # <<>> => Front(stack) \in Sects
  <2>1. SUFFICES ASSUME stack # <<>> PROVE SubSeq(stack, 1, Len(stack) - 1) \in Sects
    BY DEF Front
  <2>2. stack \in Seq(SectionNames)
    BY DEF Sects
  <2> QED BY <2>1, <2>2, FrontIsASequence DEF Sects
<1>3. base \in Sects
  BY <1>1, <1>2
<1>4. tail \in Sects
  <2>1. a.name # "" => a.name \in SectionNames
    BY DEF SectionNames, LabelNames
  <2>2. a.name \in SectionNames => <<a.name>> \in Sects
    BY ShortSequences DEF Sects
  <2> QED BY <1>1, <2>1, <2>2
<1>5. ProcessSectionLabel(a, stack) = base \o tail
  BY DEF ProcessSectionLabel
<1> HIDE DEF base, tail
<1> QED BY <1>3, <1>4, <1>5, ConcatProperties DEF Sects

\* What GetPot keeps of an argument is the argument with its section.
KeptAs(line, i) == IF line[i].kind = "label" THEN line[i] ELSE [line[i] EXCEPT !.sec = SectionOf(line, i)]
IsFree(line, i) == ~(SectionOf(line, i) = <<>> /\ line[i].kind \in {"flag", "var"} /\ line[i].name \in Flags)
IsVar(line, i, name) == line[i].kind = "var" /\ name = <<SectionOf(line, i), line[i].name>>

LineKept == args \in Seq(LineArgs) /\ Len(args) >= 1 /\ args[1] = Program
ArgvKept == argv \in Seq(Texts) /\ Len(argv) = Len(args) /\ \A i \in 1 .. Len(args) : argv[i] = KeptAs(args, i)
SectionKept == section \in Sects /\ section = SectionOf(args, Len(args))
CursorKept == cursor \in 1 .. Len(argv) + 1

\* The indices without a minus are those of the free parameters, in order.
NominusKept ==
    /\ idx_nominus \in Seq(Nat)
    /\ \A k \in 1 .. Len(idx_nominus) : idx_nominus[k] \in 2 .. Len(args) /\ IsFree(args, idx_nominus[k])
    /\ \A i \in 2 .. Len(args) : IsFree(args, i) => \E k \in 1 .. Len(idx_nominus) : idx_nominus[k] = i
    /\ \A j, k \in 1 .. Len(idx_nominus) : j < k => idx_nominus[j] < idx_nominus[k]

\* A variable is in the list once, with the value that was given last.
VariablesAreOf(line, vs) ==
    /\ vs \in Seq(VarRecs)
    /\ \A j, k \in 1 .. Len(vs) : vs[j].name = vs[k].name => j = k
    /\ \A k \in 1 .. Len(vs) :
          \E i \in 2 .. Len(line) :
             /\ IsVar(line, i, vs[k].name) /\ vs[k].original = line[i].value
             /\ \A j \in 2 .. Len(line) : IsVar(line, j, vs[k].name) => j <= i
    /\ \A i \in 2 .. Len(line) : line[i].kind = "var" => \E k \in 1 .. Len(vs) : IsVar(line, i, vs[k].name)

VariablesKept == VariablesAreOf(args, variables)

\* The inductive invariant.
CLInv == LineKept /\ ArgvKept /\ SectionKept /\ CursorKept /\ NominusKept /\ VariablesKept /\ AnswersAreGiven

\* What GetPot keeps of an argument has its kind, name and value.
LEMMA KeptFields ==
    ASSUME ~EmptyArgs, NEW line, NEW i, line[i] \in LineArgs, NEW kept, kept = KeptAs(line, i)
    PROVE  /\ kept.kind = line[i].kind /\ kept.name = line[i].name /\ kept.value = line[i].value
           /\ line[i].kind # "label" => kept.sec = SectionOf(line, i)
<1> DEFINE a == line[i]
           s == SectionOf(line, i)
<1>1. a \in Texts /\ a.sec = <<>>
  BY ArgumentsAreTexts DEF IsText
<1>2. kept = IF a.kind = "label" THEN a ELSE [a EXCEPT !.sec = s]
  BY DEF KeptAs
<1> HIDE DEF a, s
<1>3. /\ [a EXCEPT !.sec = s].kind = a.kind /\ [a EXCEPT !.sec = s].name = a.name
      /\ [a EXCEPT !.sec = s].value = a.value /\ [a EXCEPT !.sec = s].sec = s
  BY <1>1 DEF Texts
<1>4. /\ kept.kind = a.kind /\ kept.name = a.name /\ kept.value = a.value
      /\ a.kind # "label" => kept.sec = s
  BY <1>2, <1>3
<1> QED BY <1>4 DEF a, s

\* Without its section it is the argument again.
LEMMA KeptIsGiven ==
    ASSUME ~EmptyArgs, NEW line, NEW i, line[i] \in LineArgs, NEW kept, kept = KeptAs(line, i)
    PROVE  Bare(kept) = line[i]
<1> DEFINE a == line[i]
           s == SectionOf(line, i)
<1>1. a \in Texts /\ a.sec = <<>>
  BY ArgumentsAreTexts DEF IsText
<1>2. kept = IF a.kind = "label" THEN a ELSE [a EXCEPT !.sec = s]
  BY DEF KeptAs
<1> HIDE DEF a, s
<1>3. [a EXCEPT !.sec = <<>>] = a
  BY <1>1 DEF Texts
<1>4. [[a EXCEPT !.sec = s] EXCEPT !.sec = <<>>] = [a EXCEPT !.sec = <<>>]
  BY <1>1 DEF Texts
<1>5. [kept EXCEPT !.sec = <<>>] = a
  BY <1>2, <1>3, <1>4
<1> QED BY <1>5 DEF a, Bare

Behind(a, sec) == IF a.kind = "label" THEN ProcessSectionLabel(a, sec) ELSE sec
KeptArg(a, sec) == IF a.kind = "label" THEN a ELSE [a EXCEPT !.sec = sec]

\* The arguments that are there stay what they are.
SameUpTo(s, t, n) ==
    \A i \in 1 .. n :
        /\ t[i] = s[i]
        /\ SectionOf(t, i) = SectionOf(s, i) /\ KeptAs(t, i) = KeptAs(s, i)
        /\ IsFree(t, i) <=> IsFree(s, i)
        /\ \A name : IsVar(t, i, name) <=> IsVar(s, i, name)

\* What the new argument is.
NewOne(t, i, a, sec) ==
    /\ t[i] = a /\ SectionOf(t, i) = Behind(a, sec) /\ KeptAs(t, i) = KeptArg(a, sec)
    /\ IsFree(t, i) <=> ~BeginsWithMinus(KeptArg(a, sec))
    /\ \A name : IsVar(t, i, name) <=> a.kind = "var" /\ name = <<sec, a.name>>

LEMMA LineGrows ==
    ASSUME ~EmptyArgs, NEW s \in Seq(LineArgs), NEW a \in LineArgs
    PROVE  /\ Append(s, a) \in Seq(LineArgs) /\ Len(Append(s, a)) = Len(s) + 1
           /\ SameUpTo(s, Append(s, a), Len(s))
           /\ NewOne(Append(s, a), Len(s) + 1, a, SectionOf(s, Len(s)))
<1> DEFINE t == Append(s, a)
           n == Len(s)
           sec == SectionOf(s, n)
<1>1. n \in Nat /\ t \in Seq(LineArgs) /\ Len(t) = n + 1 /\ t[n + 1] = a /\ \A i \in 1 .. n : t[i] = s[i]
  BY AppendProperties
<1> HIDE DEF t, n
<1>2. \A i \in 0 .. n : SectionOf(t, i) = SectionOf(s, i)
  <2> TAKE i \in 0 .. n
  <2>1. i \in Nat /\ \A j \in 1 .. i : t[j] = s[j]
    BY <1>1
  <2> QED BY <2>1, SectionStays
<1>3. SameUpTo(s, t, n)
  <2>1. SUFFICES ASSUME NEW i \in 1 .. n
                 PROVE  /\ t[i] = s[i]
                        /\ SectionOf(t, i) = SectionOf(s, i) /\ KeptAs(t, i) = KeptAs(s, i)
                        /\ IsFree(t, i) <=> IsFree(s, i)
                        /\ \A name : IsVar(t, i, name) <=> IsVar(s, i, name)
    BY DEF SameUpTo
  <2>2. t[i] = s[i] /\ SectionOf(t, i) = SectionOf(s, i)
    BY <1>1, <1>2
  <2>3. KeptAs(t, i) = KeptAs(s, i)
    BY <2>2 DEF KeptAs
  <2>4. IsFree(t, i) <=> IsFree(s, i)
    BY <2>2 DEF IsFree
  <2>5. \A name : IsVar(t, i, name) <=> IsVar(s, i, name)
    BY <2>2 DEF IsVar
  <2> QED BY <2>2, <2>3, <2>4, <2>5
<1>4. SectionOf(t, n + 1) = Behind(a, sec)
  <2>1. SectionOf(t, n) = sec
    BY <1>1, <1>2
  <2> HIDE DEF sec
  <2>2. SectionOf(t, n + 1) = IF t[n + 1].kind = "label" THEN ProcessSectionLabel(t[n + 1], SectionOf(t, n))
                              ELSE SectionOf(t, n)
    BY <1>1, SectionSteps
  <2> QED BY <1>1, <2>1, <2>2 DEF Behind
<1> HIDE DEF sec
<1>5. a.kind # "label" => SectionOf(t, n + 1) = sec
  BY <1>4 DEF Behind
<1>6. KeptAs(t, n + 1) = KeptArg(a, sec)
  BY <1>1, <1>5 DEF KeptAs, KeptArg
<1>7. IsFree(t, n + 1) <=> ~BeginsWithMinus(KeptArg(a, sec))
  <2>1. a \in Texts
    BY ArgumentsAreTexts DEF IsText
  <2>2. CASE a.kind = "label"
    BY <1>1, <2>2 DEF IsFree, BeginsWithMinus, KeptArg
  <2>3. CASE a.kind # "label"
    <3>1. KeptArg(a, sec) = [a EXCEPT !.sec = sec]
      BY <2>3 DEF KeptArg
    <3>2. KeptArg(a, sec).sec = sec /\ KeptArg(a, sec).kind = a.kind /\ KeptArg(a, sec).name = a.name
      BY <2>1, <3>1 DEF Texts
    <3>3. SectionOf(t, n + 1) = sec
      BY <1>5, <2>3
    <3> QED BY <1>1, <3>2, <3>3 DEF IsFree, BeginsWithMinus
  <2> QED BY <2>2, <2>3
<1>8. \A name : IsVar(t, n + 1, name) <=> a.kind = "var" /\ name = <<sec, a.name>>
  BY <1>1, <1>5 DEF IsVar
<1>9. NewOne(t, n + 1, a, sec)
  BY <1>1, <1>4, <1>6, <1>7, <1>8 DEF NewOne
<1> QED BY <1>1, <1>3, <1>9 DEF t, n, sec

\* FindVariable finds the variable of a name, if there is one.
LEMMA FindVariableIs ==
    ASSUME variables \in Seq(VarRecs), NEW name
    PROVE  /\ FindVariable(name) \in 0 .. Len(variables)
           /\ FindVariable(name) = 0 => \A k \in 1 .. Len(variables) : variables[k].name # name
           /\ FindVariable(name) # 0 => variables[FindVariable(name)].name = name
<1> DEFINE I == {k \in 1 .. Len(variables) : variables[k].name = name}
<1>1. FindVariable(name) = IF I # {} THEN Min(I) ELSE 0
  BY Zenon DEF FindVariable, SelectInSeq
<1>2. Len(variables) \in Nat
  OBVIOUS
<1>3. ASSUME I # {} PROVE Min(I) \in I
  <2>1. I \in SUBSET Nat
    OBVIOUS
  <2> HIDE DEF I
  <2>2. \E k \in I : \A j \in I : k <= j
    BY <1>3, <2>1, LeastExists
  <2> QED BY <2>2 DEF Min
<1>4. CASE I = {}
  BY <1>1, <1>2, <1>4
<1>5. CASE I # {}
  <2>1. FindVariable(name) \in I
    BY <1>1, <1>3, <1>5
  <2> QED BY <1>2, <2>1
<1> QED BY <1>4, <1>5

LEMMA CLInvInit ==
    ASSUME ~EmptyArgs, CLInit
    PROVE  CLInv
<1>1. Program \in LineArgs /\ IsText(Program)
  BY ArgumentsAreTexts DEF LineArgs
<1>2. args \in Seq(LineArgs) /\ Len(args) = 1 /\ args[1] = Program
  BY <1>1, ShortSequences DEF CLInit
<1>3. Program.kind = "word"
  BY DEF Program, Arg
<1>4. SectionOf(args, 1) = <<>>
  <2>1. SectionOf(args, 0 + 1) = SectionOf(args, 0)
    <3>1. args[0 + 1].kind = "word"
      BY <1>2, <1>3
    <3> QED BY <3>1, SectionSteps
  <2> QED BY <2>1, SectionSteps
<1>5. LineKept
  BY <1>2 DEF LineKept
<1>6. ArgvKept
  <2>1. argv \in Seq(Texts) /\ Len(argv) = 1 /\ argv[1] = Program
    BY <1>1, ShortSequences DEF CLInit, IsText
  <2>2. KeptAs(args, 1) = [Program EXCEPT !.sec = <<>>]
    BY <1>2, <1>3, <1>4 DEF KeptAs
  <2>3. [Program EXCEPT !.sec = <<>>] = Program
    BY <1>1 DEF IsText, Texts
  <2> QED BY <1>2, <2>1, <2>2, <2>3 DEF ArgvKept
<1>7. SectionKept
  BY <1>2, <1>4, EmptySeq DEF SectionKept, CLInit, Sects
<1>8. CursorKept
  BY <1>2, <1>6 DEF CursorKept, CLInit, ArgvKept
<1>9. NominusKept
  <2>1. idx_nominus \in Seq(Nat) /\ Len(idx_nominus) = 0
    BY EmptySeq DEF CLInit
  <2> QED BY <1>2, <2>1 DEF NominusKept
<1>10. VariablesKept
  <2>1. variables \in Seq(VarRecs) /\ Len(variables) = 0
    BY EmptySeq DEF CLInit
  <2> QED BY <1>2, <2>1 DEF VariablesKept, VariablesAreOf
<1>11. AnswersAreGiven
  <2>1. answer.ask = "none"
    BY DEF CLInit, NoAnswer
  <2> QED BY <2>1 DEF AnswersAreGiven, FlagsAreGiven, OptionsAreGiven, VariablesAreGiven,
      FreeAreGiven
<1> QED BY <1>5, <1>6, <1>7, <1>8, <1>9, <1>10, <1>11 DEF CLInv

\* A variable that is given is noted with its value: it was noted before, or it comes last.
LEMMA ParseKeepsVariables ==
    ASSUME ~EmptyArgs, LineKept, SectionKept, VariablesKept, NEW a \in Arguments,
           args' = Append(args, a),
           variables' = IF a.kind = "var" THEN SetVariable(<<section, a.name>>, a.value) ELSE variables
    PROVE  VariablesKept'
<1> DEFINE n == Len(args)
           t == Append(args, a)
           name == <<section, a.name>>
           F == FindVariable(name)
           vs == variables
           LastIs(line, m, k, v) == \E i \in 2 .. m : /\ IsVar(line, i, k) /\ v = line[i].value
                                                     /\ \A j \in 2 .. m : IsVar(line, j, k) => j <= i
<1>1. a \in LineArgs /\ args \in Seq(LineArgs) /\ n \in Nat /\ n >= 1
  BY DEF LineKept, LineArgs
<1>2. IsText(a)
  BY <1>1, ArgumentsAreTexts
<1>3. section \in Sects /\ section = SectionOf(args, n)
  BY DEF SectionKept
<1>4. Len(t) = n + 1 /\ SameUpTo(args, t, n) /\ NewOne(t, n + 1, a, section)
  BY <1>1, <1>3, LineGrows
<1>5. /\ vs \in Seq(VarRecs)
      /\ \A j, k \in 1 .. Len(vs) : vs[j].name = vs[k].name => j = k
      /\ \A k \in 1 .. Len(vs) : LastIs(args, n, vs[k].name, vs[k].original)
      /\ \A i \in 2 .. n : args[i].kind = "var" => \E k \in 1 .. Len(vs) : IsVar(args, i, vs[k].name)
  BY DEF VariablesKept, VariablesAreOf
<1> DEFINE Goal(ws) == /\ ws \in Seq(VarRecs)
                       /\ \A j, k \in 1 .. Len(ws) : ws[j].name = ws[k].name => j = k
                       /\ \A k \in 1 .. Len(ws) : LastIs(t, n + 1, ws[k].name, ws[k].original)
                       /\ \A i \in 2 .. n + 1 : t[i].kind = "var" =>
                             \E k \in 1 .. Len(ws) : IsVar(t, i, ws[k].name)
<1>6. ASSUME NEW ws, variables' = ws, Goal(ws) PROVE VariablesKept'
  <2>1. VariablesAreOf(t, ws)
    BY <1>4, <1>6 DEF VariablesAreOf
  <2> QED BY <1>6, <2>1 DEF VariablesKept
<1>7. /\ t[n + 1] = a
      /\ \A i \in 2 .. n : t[i] = args[i] /\ \A k : IsVar(t, i, k) <=> IsVar(args, i, k)
      /\ \A k : IsVar(t, n + 1, k) <=> a.kind = "var" /\ k = name
  BY <1>1, <1>4 DEF SameUpTo, NewOne
<1> HIDE DEF t, n
\* What was last before stays so unless the new argument gives the same variable.
<1>8. ASSUME NEW k, NEW v, LastIs(args, n, k, v), ~(a.kind = "var" /\ k = name)
      PROVE  LastIs(t, n + 1, k, v)
  <2>1. PICK i \in 2 .. n : /\ IsVar(args, i, k) /\ v = args[i].value
                            /\ \A j \in 2 .. n : IsVar(args, j, k) => j <= i
    BY <1>8
  <2>2. i \in 2 .. n + 1 /\ IsVar(t, i, k) /\ v = t[i].value
    BY <1>1, <1>7, <2>1
  <2>3. ASSUME NEW j \in 2 .. n + 1, IsVar(t, j, k) PROVE j <= i
    <3>1. j # n + 1
      BY <1>7, <1>8, <2>3
    <3>2. j \in 2 .. n
      BY <1>1, <3>1
    <3> QED BY <1>7, <2>1, <2>3, <3>2
  <2> QED BY <2>2, <2>3
<1>9. ASSUME a.kind = "var" PROVE LastIs(t, n + 1, name, a.value)
  <2>1. n + 1 \in 2 .. n + 1 /\ IsVar(t, n + 1, name) /\ a.value = t[n + 1].value
    BY <1>1, <1>7, <1>9
  <2>2. \A j \in 2 .. n + 1 : j <= n + 1
    BY <1>1
  <2> QED BY <2>1, <2>2
<1>10. \A i \in 2 .. n + 1 : i \in 2 .. n \/ i = n + 1
  BY <1>1
<1>11. Len(vs) \in Nat /\ \A k \in 1 .. Len(vs) : vs[k] \in VarRecs
  BY <1>5
<1> HIDE DEF LastIs, vs
<1>12. CASE a.kind # "var"
  <2>1. variables' = vs
    BY <1>12 DEF vs
  <2>2. \A k \in 1 .. Len(vs) : LastIs(t, n + 1, vs[k].name, vs[k].original)
    BY <1>5, <1>8, <1>12
  <2>3. ASSUME NEW i \in 2 .. n + 1, t[i].kind = "var" PROVE \E k \in 1 .. Len(vs) : IsVar(t, i, vs[k].name)
    <3>1. i \in 2 .. n
      BY <1>7, <1>10, <1>12, <2>3
    <3> QED BY <1>5, <1>7, <2>3, <3>1
  <2>4. Goal(vs)
    BY <1>5, <2>2, <2>3
  <2> HIDE DEF Goal
  <2> QED BY <1>6, <2>1, <2>4
<1>13. CASE a.kind = "var" /\ F # 0
  <2>1. F \in 1 .. Len(vs) /\ vs[F].name = name
    <3>1. F \in 0 .. Len(vs) /\ (F # 0 => vs[F].name = name)
      BY <1>5, FindVariableIs DEF vs
    <3> HIDE DEF F
    <3> QED BY <1>11, <1>13, <3>1
  <2>2. a.value \in ArgValues
    BY <1>2 DEF IsText, Texts
  <2> DEFINE r == [vs[F] EXCEPT !.original = a.value]
             ws == [vs EXCEPT ![F] = r]
  <2>3. variables' = ws
    BY <1>13 DEF SetVariable, vs
  <2>10. r \in VarRecs /\ r.name = vs[F].name /\ r.original = a.value
    <3> HIDE DEF F
    <3> QED BY <1>11, <2>1, <2>2 DEF VarRecs
  <2> HIDE DEF F, name, r
  <2>11. /\ ws \in Seq(VarRecs) /\ Len(ws) = Len(vs) /\ ws[F] = r
         /\ \A j \in 1 .. Len(vs) : j # F => ws[j] = vs[j]
    BY <1>5, <2>1, <2>10, ExceptSeq
  <2> HIDE DEF ws
  <2>4. /\ ws \in Seq(VarRecs) /\ Len(ws) = Len(vs)
        /\ ws[F].name = vs[F].name /\ ws[F].original = a.value
        /\ \A j \in 1 .. Len(vs) : j # F => ws[j] = vs[j]
    BY <2>10, <2>11
  <2>5. \A k \in 1 .. Len(ws) : ws[k].name = vs[k].name
    BY <2>1, <2>4
  <2>6. \A j, k \in 1 .. Len(ws) : ws[j].name = ws[k].name => j = k
    BY <1>5, <2>4, <2>5
  <2>7. ASSUME NEW k \in 1 .. Len(ws) PROVE LastIs(t, n + 1, ws[k].name, ws[k].original)
    <3>1. CASE k = F
      <4>1. ws[k].name = name /\ ws[k].original = a.value
        BY <2>1, <2>4, <3>1
      <4> QED BY <1>9, <1>13, <4>1
    <3>2. CASE k # F
      <4>1. vs[k].name # name
        BY <1>5, <2>1, <2>4, <3>2
      <4>2. ws[k] = vs[k]
        BY <2>4, <3>2
      <4>3. LastIs(args, n, vs[k].name, vs[k].original)
        BY <1>5, <2>4
      <4> QED BY <1>8, <4>1, <4>2, <4>3
    <3> QED BY <3>1, <3>2
  <2>8. ASSUME NEW i \in 2 .. n + 1, t[i].kind = "var" PROVE \E k \in 1 .. Len(ws) : IsVar(t, i, ws[k].name)
    <3>1. CASE i = n + 1
      BY <1>7, <1>13, <2>1, <2>4, <3>1
    <3>2. CASE i \in 2 .. n
      BY <1>5, <1>7, <2>4, <2>5, <2>8, <3>2
    <3> QED BY <1>10, <3>1, <3>2
  <2>9. Goal(ws)
    BY <2>4, <2>6, <2>7, <2>8
  <2> HIDE DEF Goal
  <2> QED BY <1>6, <2>3, <2>9
<1>14. CASE a.kind = "var" /\ F = 0
  <2> DEFINE r == [name |-> name, original |-> a.value]
             ws == Append(vs, r)
  <2>1. \A k \in 1 .. Len(vs) : vs[k].name # name
    BY <1>5, <1>14, FindVariableIs DEF vs
  <2>2. r \in VarRecs /\ r.name = name /\ r.original = a.value
    BY <1>2, <1>3 DEF IsText, Texts, VarRecs
  <2>3. variables' = ws
    BY <1>14 DEF SetVariable, vs
  <2> HIDE DEF F, name, r
  <2>4. /\ ws \in Seq(VarRecs) /\ Len(ws) = Len(vs) + 1 /\ ws[Len(vs) + 1] = r
        /\ \A j \in 1 .. Len(vs) : ws[j] = vs[j]
    BY <1>5, <2>2, AppendProperties
  <2> HIDE DEF ws
  <2>5. \A k \in 1 .. Len(ws) : k \in 1 .. Len(vs) \/ k = Len(vs) + 1
    BY <1>11, <2>4
  <2>6. \A j, k \in 1 .. Len(ws) : ws[j].name = ws[k].name => j = k
    BY <1>5, <2>1, <2>2, <2>4, <2>5
  <2>7. ASSUME NEW k \in 1 .. Len(ws) PROVE LastIs(t, n + 1, ws[k].name, ws[k].original)
    <3>1. CASE k = Len(vs) + 1
      BY <1>9, <1>14, <2>2, <2>4, <3>1
    <3>2. CASE k \in 1 .. Len(vs)
      BY <1>5, <1>8, <2>1, <2>4, <3>2
    <3> QED BY <2>5, <3>1, <3>2
  <2>8. ASSUME NEW i \in 2 .. n + 1, t[i].kind = "var" PROVE \E k \in 1 .. Len(ws) : IsVar(t, i, ws[k].name)
    <3>1. CASE i = n + 1
      <4>1. Len(vs) + 1 \in 1 .. Len(ws)
        BY <1>11, <2>4
      <4>2. IsVar(t, i, ws[Len(vs) + 1].name)
        BY <1>7, <1>14, <2>2, <2>4, <3>1
      <4> QED BY <4>1, <4>2
    <3>2. CASE i \in 2 .. n
      <4>1. PICK k \in 1 .. Len(vs) : IsVar(args, i, vs[k].name)
        BY <1>5, <1>7, <2>8, <3>2
      <4>2. k \in 1 .. Len(ws) /\ ws[k] = vs[k]
        BY <1>11, <2>4
      <4> QED BY <1>7, <3>2, <4>1, <4>2
    <3> QED BY <1>10, <3>1, <3>2
  <2>9. Goal(ws)
    BY <2>4, <2>6, <2>7, <2>8
  <2> HIDE DEF Goal
  <2> QED BY <1>6, <2>3, <2>9
<1> QED BY <1>12, <1>13, <1>14

LEMMA ParseKeepsNominus ==
    ASSUME ~EmptyArgs, LineKept, SectionKept, NominusKept, NEW a \in Arguments,
           args' = Append(args, a),
           idx_nominus' = IF BeginsWithMinus(KeptArg(a, section)) THEN idx_nominus
                          ELSE Append(idx_nominus, Len(args) + 1)
    PROVE  NominusKept'
<1> DEFINE n == Len(args)
           t == Append(args, a)
           is == idx_nominus
<1>1. a \in LineArgs /\ args \in Seq(LineArgs) /\ n \in Nat /\ n >= 1
  BY DEF LineKept, LineArgs
<1>2. section = SectionOf(args, n)
  BY DEF SectionKept
<1>3. Len(t) = n + 1 /\ SameUpTo(args, t, n) /\ NewOne(t, n + 1, a, section)
  BY <1>1, <1>2, LineGrows
<1>4. /\ \A i \in 2 .. n : IsFree(t, i) <=> IsFree(args, i)
      /\ IsFree(t, n + 1) <=> ~BeginsWithMinus(KeptArg(a, section))
  BY <1>1, <1>3 DEF SameUpTo, NewOne
<1>5. /\ is \in Seq(Nat) /\ Len(is) \in Nat
      /\ \A k \in 1 .. Len(is) : is[k] \in 2 .. n /\ IsFree(args, is[k])
      /\ \A i \in 2 .. n : IsFree(args, i) => \E k \in 1 .. Len(is) : is[k] = i
      /\ \A j, k \in 1 .. Len(is) : j < k => is[j] < is[k]
  BY DEF NominusKept
<1> DEFINE Goal(ks) == /\ ks \in Seq(Nat)
                       /\ \A k \in 1 .. Len(ks) : ks[k] \in 2 .. n + 1 /\ IsFree(t, ks[k])
                       /\ \A i \in 2 .. n + 1 : IsFree(t, i) => \E k \in 1 .. Len(ks) : ks[k] = i
                       /\ \A j, k \in 1 .. Len(ks) : j < k => ks[j] < ks[k]
<1>6. args' = t /\ Len(args') = n + 1
  BY <1>3
<1> HIDE DEF t, n
<1>7. Goal(idx_nominus') => NominusKept'
  BY <1>6 DEF NominusKept
<1>8. \A i \in 2 .. n + 1 : i \in 2 .. n \/ i = n + 1
  BY <1>1
<1>9. CASE BeginsWithMinus(KeptArg(a, section))
  <2>1. idx_nominus' = is
    BY <1>9
  <2> HIDE DEF is
  <2>2. ASSUME NEW k \in 1 .. Len(is) PROVE is[k] \in 2 .. n + 1 /\ IsFree(t, is[k])
    BY <1>1, <1>4, <1>5
  <2>3. ASSUME NEW i \in 2 .. n + 1, IsFree(t, i) PROVE \E k \in 1 .. Len(is) : is[k] = i
    BY <1>4, <1>5, <1>8, <1>9, <2>3
  <2>4. Goal(is)
    BY <1>5, <2>2, <2>3
  <2> HIDE DEF Goal
  <2> QED BY <1>7, <2>1, <2>4
<1>10. CASE ~BeginsWithMinus(KeptArg(a, section))
  <2> DEFINE ks == Append(is, n + 1)
  <2>1. idx_nominus' = ks
    BY <1>10 DEF n
  <2> HIDE DEF is
  <2>2. /\ ks \in Seq(Nat) /\ Len(ks) = Len(is) + 1 /\ ks[Len(is) + 1] = n + 1
        /\ \A k \in 1 .. Len(is) : ks[k] = is[k]
    BY <1>1, <1>5, AppendProperties
  <2> HIDE DEF ks
  <2>3. \A k \in 1 .. Len(ks) : k \in 1 .. Len(is) \/ k = Len(is) + 1
    BY <1>5, <2>2
  <2>4. ASSUME NEW k \in 1 .. Len(ks) PROVE ks[k] \in 2 .. n + 1 /\ IsFree(t, ks[k])
    <3>1. CASE k \in 1 .. Len(is)
      <4>1. is[k] \in 2 .. n /\ IsFree(args, is[k]) /\ ks[k] = is[k]
        BY <1>5, <2>2, <3>1
      <4>2. IsFree(t, is[k])
        BY <1>4, <4>1
      <4>3. is[k] \in 2 .. n + 1
        BY <1>1, <4>1
      <4> QED BY <4>1, <4>2, <4>3
    <3>2. CASE k = Len(is) + 1
      BY <1>1, <1>4, <1>10, <2>2, <3>2
    <3> QED BY <2>3, <3>1, <3>2
  <2>5. ASSUME NEW i \in 2 .. n + 1, IsFree(t, i) PROVE \E k \in 1 .. Len(ks) : ks[k] = i
    <3>1. CASE i \in 2 .. n
      <4>1. PICK k \in 1 .. Len(is) : is[k] = i
        BY <1>4, <1>5, <2>5, <3>1
      <4>2. k \in 1 .. Len(ks) /\ ks[k] = i
        BY <1>5, <2>2, <4>1
      <4> QED BY <4>2
    <3>2. CASE i = n + 1
      <4>1. Len(is) + 1 \in 1 .. Len(ks)
        BY <1>5, <2>2
      <4> QED BY <2>2, <3>2, <4>1
    <3> QED BY <1>8, <3>1, <3>2
  <2>6. ASSUME NEW j \in 1 .. Len(ks), NEW k \in 1 .. Len(ks), j < k PROVE ks[j] < ks[k]
    <3>1. j \in 1 .. Len(is)
      BY <1>5, <2>2, <2>6
    <3>2. CASE k \in 1 .. Len(is)
      BY <1>5, <2>2, <2>6, <3>1, <3>2
    <3>3. CASE k = Len(is) + 1
      <4>1. ks[j] \in 2 .. n
        BY <1>5, <2>2, <3>1
      <4> QED BY <1>1, <2>2, <3>3, <4>1
    <3> QED BY <2>3, <3>2, <3>3
  <2>7. Goal(ks)
    BY <2>2, <2>4, <2>5, <2>6
  <2> HIDE DEF Goal
  <2> QED BY <1>7, <2>1, <2>7
<1> QED BY <1>9, <1>10

LEMMA ParseKeeps ==
    ASSUME ~EmptyArgs, CLInv, NEW a \in Arguments, Parse(a)
    PROVE  CLInv'
<1> DEFINE n == Len(args)
           t == Append(args, a)
           arg == KeptArg(a, section)
<1>1. a \in LineArgs /\ args \in Seq(LineArgs) /\ n \in Nat /\ n >= 1
  BY DEF CLInv, LineKept, LineArgs
<1>2. IsText(a)
  BY <1>1, ArgumentsAreTexts
<1>3. section \in Sects /\ section = SectionOf(args, n)
  BY DEF CLInv, SectionKept
<1>4. t \in Seq(LineArgs) /\ Len(t) = n + 1 /\ SameUpTo(args, t, n) /\ NewOne(t, n + 1, a, section)
  BY <1>1, <1>3, LineGrows
<1>5. args' = t /\ cursor' = cursor /\ answer' = answer /\ answer = NoAnswer
  BY DEF Parse
<1>6. a.kind # "empty"
  BY <1>2 DEF IsText, Texts, ArgKinds
<1>7. LET r == IF a.kind = "label" THEN a ELSE [a EXCEPT !.sec = section] IN
            /\ section' = IF a.kind = "label" THEN ProcessSectionLabel(a, section) ELSE section
            /\ argv' = Append(argv, r)
            /\ idx_nominus' = IF BeginsWithMinus(r) THEN idx_nominus ELSE Append(idx_nominus, Len(args) + 1)
            /\ variables' = IF a.kind = "var" THEN SetVariable(<<r.sec, a.name>>, a.value) ELSE variables
  BY <1>6 DEF Parse
<1>8. arg = IF a.kind = "label" THEN a ELSE [a EXCEPT !.sec = section]
  BY DEF KeptArg
<1>9. a.kind = "var" => arg.sec = section
  BY <1>2, <1>8 DEF IsText, Texts
<1> HIDE DEF arg
<1>10. /\ section' = Behind(a, section)
       /\ argv' = Append(argv, arg)
       /\ idx_nominus' = IF BeginsWithMinus(arg) THEN idx_nominus ELSE Append(idx_nominus, Len(args) + 1)
       /\ variables' = IF a.kind = "var" THEN SetVariable(<<section, a.name>>, a.value) ELSE variables
  BY <1>7, <1>8, <1>9 DEF Behind
<1>11. LineKept'
  <2>1. t[1] = args[1]
    BY <1>1, <1>4 DEF SameUpTo
  <2> HIDE DEF t
  <2> QED BY <1>1, <1>4, <1>5, <2>1 DEF LineKept, CLInv
<1>12. SectionKept'
  <2>1. Behind(a, section) \in Sects
    <3>1. a.kind = "label" => a.name \in LabelNames
      BY <1>2 DEF IsText
    <3>2. ASSUME a.kind = "label" PROVE ProcessSectionLabel(a, section) \in Sects
      <4>1. a.name \in LabelNames /\ section \in Sects
        BY <1>3, <3>1, <3>2
      <4> QED BY <4>1, LabelNamesSection
    <3> QED BY <1>3, <3>2 DEF Behind
  <2>2. SectionOf(t, n + 1) = Behind(a, section)
    BY <1>4 DEF NewOne
  <2> HIDE DEF t, n
  <2> QED BY <1>4, <1>5, <1>10, <2>1, <2>2 DEF SectionKept
<1>13. argv' \in Seq(Texts) /\ Len(argv') = n + 1 /\ argv'[n + 1] = arg /\ \A i \in 1 .. n : argv'[i] = argv[i]
  <2>1. argv \in Seq(Texts) /\ Len(argv) = n
    BY DEF CLInv, ArgvKept
  <2>2. arg \in Texts
    BY <1>2, <1>3, <1>8 DEF IsText, Texts
  <2> HIDE DEF n
  <2> QED BY <1>10, <2>1, <2>2, AppendProperties
<1>14. ArgvKept'
  <2>1. \A i \in 1 .. n : argv[i] = KeptAs(args, i)
    BY DEF CLInv, ArgvKept
  <2>2. \A i \in 1 .. n + 1 : argv'[i] = KeptAs(t, i)
    <3> TAKE i \in 1 .. n + 1
    <3>1. CASE i = n + 1
      BY <1>4, <1>13, <3>1 DEF NewOne, arg
    <3>2. CASE i \in 1 .. n
      BY <1>4, <1>13, <2>1, <3>2 DEF SameUpTo
    <3> QED BY <1>1, <3>1, <3>2
  <2> HIDE DEF t, n
  <2> QED BY <1>4, <1>5, <1>13, <2>2 DEF ArgvKept
<1>15. CursorKept'
  <2>1. cursor \in 1 .. n + 1
    BY DEF CLInv, CursorKept, ArgvKept
  <2> HIDE DEF n
  <2> QED BY <1>1, <1>5, <1>13, <2>1 DEF CursorKept
<1>16. NominusKept'
  BY <1>5, <1>10, ParseKeepsNominus DEF CLInv, arg
<1>17. VariablesKept'
  BY <1>5, <1>10, ParseKeepsVariables DEF CLInv
<1>18. AnswersAreGiven'
  <2>1. answer'.ask = "none"
    BY <1>5 DEF NoAnswer
  <2> QED BY <2>1 DEF AnswersAreGiven, FlagsAreGiven, OptionsAreGiven, VariablesAreGiven,
      FreeAreGiven
<1> QED BY <1>11, <1>12, <1>14, <1>15, <1>16, <1>17, <1>18 DEF CLInv

\* A search finds a flag of the command line, whatever it found before.
LEMMA FoundIsGiven ==
    ASSUME ~EmptyArgs, LineKept, ArgvKept, CursorKept, NEW o \in Flags
    PROVE  /\ FoundAt(o, cursor) # 0 => FoundAt(o, cursor) \in Given("flag", o)
           /\ cursor <= Len(argv) /\ Given("flag", o) # {} => FoundAt(o, cursor) # 0
<1> DEFINE n == Len(argv)
           hits == {i \in 1 .. Len(argv) : Places(cursor)[i] /\ ArgText(argv[i]) = OptionText(o)}
           ahead == {i \in hits : i >= cursor}
           at == FoundAt(o, cursor)
<1>1. n \in Nat /\ n = Len(args) /\ n >= 1 /\ cursor \in 1 .. n + 1
  BY DEF LineKept, ArgvKept, CursorKept
<1>2. \A i \in 1 .. n : args[i] \in LineArgs /\ argv[i] = KeptAs(args, i)
  BY <1>1 DEF LineKept, ArgvKept
<1>3. ASSUME NEW i \in hits PROVE i \in Given("flag", o)
  <2>1. i \in 1 .. n /\ ArgText(argv[i]) = OptionText(o)
    BY <1>3
  <2>2. argv[i].sec = <<>> /\ argv[i].kind = "flag" /\ argv[i].name = o
    BY <2>1 DEF ArgText, OptionText
  <2>3. args[i] \in LineArgs /\ argv[i] = KeptAs(args, i)
    BY <1>2, <2>1
  <2>7. /\ argv[i].kind = args[i].kind /\ argv[i].name = args[i].name
        /\ args[i].kind # "label" => argv[i].sec = SectionOf(args, i)
    BY <2>3, KeptFields
  <2>4. args[i].kind = "flag" /\ args[i].name = o /\ SectionOf(args, i) = <<>>
    BY <2>2, <2>7
  <2>5. i # 1
    <3>1. Program.kind = "word"
      BY DEF Program, Arg
    <3>2. args[1] = Program
      BY DEF LineKept
    <3> QED BY <2>4, <3>1, <3>2
  <2>6. i \in 2 .. Len(args)
    BY <1>1, <2>1, <2>5
  <2> QED BY <2>4, <2>6 DEF Given
<1>4. ASSUME NEW i \in Given("flag", o), cursor <= n PROVE i \in hits
  <2>1. i \in 2 .. n /\ args[i].kind = "flag" /\ args[i].name = o /\ SectionOf(args, i) = <<>>
    BY <1>1, <1>4 DEF Given
  <2>2. i \in 1 .. n
    BY <1>1, <2>1
  <2>3. args[i] \in LineArgs /\ argv[i] = KeptAs(args, i)
    BY <1>2, <2>2
  <2>4. args[i].value = ""
    BY <2>1, <2>3, ArgumentsAreTexts DEF IsText
  <2>8. /\ argv[i].kind = args[i].kind /\ argv[i].name = args[i].name /\ argv[i].value = args[i].value
        /\ args[i].kind # "label" => argv[i].sec = SectionOf(args, i)
    BY <2>3, KeptFields
  <2>5. argv[i].kind = "flag" /\ argv[i].name = o /\ argv[i].value = "" /\ argv[i].sec = <<>>
    BY <2>1, <2>4, <2>8
  <2>6. ArgText(argv[i]) = OptionText(o)
    BY <2>5 DEF ArgText, OptionText
  <2>7. Places(cursor)[i]
    <3>1. Places(cursor) = [j \in 1 .. n |-> j \in cursor .. n \/ j \in 2 .. cursor - 1]
      BY <1>1, <1>4 DEF Places, FirstLoopFrom
    <3>2. i \in cursor .. n \/ i \in 2 .. cursor - 1
      BY <1>1, <2>1
    <3> QED BY <2>2, <3>1, <3>2
  <2> QED BY <2>2, <2>6, <2>7
<1>5. hits \in SUBSET Nat /\ ahead \in SUBSET Nat /\ ahead \subseteq hits /\ 0 \notin hits
  OBVIOUS
<1>6. at = IF hits = {} THEN 0
           ELSE IF ahead # {} THEN CHOOSE i \in ahead : \A j \in ahead : i <= j
           ELSE CHOOSE i \in hits : \A j \in hits : i <= j
  BY DEF FoundAt
<1> HIDE DEF hits, ahead, at
<1>7. hits # {} => at \in hits
  <2>1. ahead # {} => (CHOOSE i \in ahead : \A j \in ahead : i <= j) \in ahead
    BY <1>5, LeastExists
  <2>2. hits # {} => (CHOOSE i \in hits : \A j \in hits : i <= j) \in hits
    BY <1>5, LeastExists
  <2> QED BY <1>5, <1>6, <2>1, <2>2
<1>8. hits = {} => at = 0
  BY <1>6
<1> QED BY <1>3, <1>4, <1>5, <1>7, <1>8 DEF at

\* The questions leave everything but the cursor and the answer alone.
Asks == UNCHANGED <<args, argv, idx_nominus, variables, section>> /\ cursor' \in 1 .. Len(argv) + 1

LEMMA AskingKeeps ==
    ASSUME CLInv, Asks, AnswersAreGiven'
    PROVE  CLInv'
<1>1. args' = args /\ argv' = argv /\ idx_nominus' = idx_nominus /\ variables' = variables /\ section' = section
  BY DEF Asks
<1>2. LineKept' /\ ArgvKept' /\ SectionKept'
  BY <1>1 DEF CLInv, LineKept, ArgvKept, SectionKept
<1>3. CursorKept'
  BY <1>1 DEF Asks, CursorKept
<1>4. NominusKept'
  BY <1>1 DEF CLInv, NominusKept
<1>5. VariablesKept'
  BY <1>1 DEF CLInv, VariablesKept
<1> QED BY <1>2, <1>3, <1>4, <1>5 DEF CLInv

LEMMA GivenIsKept ==
    ASSUME args' = args, NEW kind, NEW name
    PROVE  Given(kind, name)' = Given(kind, name)
BY DEF Given

\* The cursor is where the search ended.
LEMMA FoundIsInside ==
    ASSUME ~EmptyArgs, CLInv, NEW o \in Flags
    PROVE  /\ cursor \in 1 .. Len(argv) + 1 /\ Len(argv) \in Nat /\ Len(argv) = Len(args)
           /\ FoundAt(o, cursor) # 0 => FoundAt(o, cursor) \in 2 .. Len(argv)
<1>1. cursor \in 1 .. Len(argv) + 1 /\ Len(argv) \in Nat /\ Len(argv) = Len(args)
  BY DEF CLInv, LineKept, ArgvKept, CursorKept
<1>2. FoundAt(o, cursor) # 0 => FoundAt(o, cursor) \in Given("flag", o)
  BY FoundIsGiven DEF CLInv
<1>3. \A i \in Given("flag", o) : i \in 2 .. Len(args)
  BY DEF Given
<1> QED BY <1>1, <1>2, <1>3

LEMMA PlacesOfFlags ==
    ASSUME NEW m \in Nat, NEW i \in 2 .. m
    PROVE  i \in 1 .. m + 1
OBVIOUS

LEMMA GetFlagKeeps ==
    ASSUME ~EmptyArgs, CLInv, NEW o \in Flags, NEW alternative \in Flags \cup {""}, GetFlag(o, alternative)
    PROVE  CLInv'
<1> DEFINE at == FoundAt(o, cursor)
           alt == IF alternative = "" THEN 0 ELSE FoundAt(alternative, cursor)
           hit == IF at # 0 THEN at ELSE alt
<1>1. /\ cursor' = IF hit # 0 THEN hit ELSE cursor
      /\ answer' = [ask |-> "flag", of |-> o, ok |-> hit # 0, val |-> alternative, free |-> <<>>]
      /\ UNCHANGED <<args, argv, idx_nominus, variables, section>>
  BY DEF GetFlag, Say
<1>2. cursor \in 1 .. Len(argv) + 1 /\ Len(argv) \in Nat /\ (at # 0 => at \in 2 .. Len(argv))
  BY FoundIsInside
<1>3. alternative # "" => alternative \in Flags
  OBVIOUS
<1>4. alt # 0 => alternative # "" /\ alt \in 2 .. Len(argv) /\ Given("flag", alternative) # {}
  <2>1. CASE alternative = ""
    BY <2>1
  <2>2. CASE alternative # ""
    <3>1. alternative \in Flags /\ alt = FoundAt(alternative, cursor)
      BY <1>3, <2>2
    <3>2. FoundAt(alternative, cursor) # 0 =>
             /\ FoundAt(alternative, cursor) \in 2 .. Len(argv)
             /\ FoundAt(alternative, cursor) \in Given("flag", alternative)
      BY <3>1, FoundIsInside, FoundIsGiven DEF CLInv
    <3> QED BY <2>2, <3>1, <3>2
  <2> QED BY <2>1, <2>2
<1>5. at # 0 => Given("flag", o) # {}
  BY FoundIsGiven DEF CLInv
<1> HIDE DEF at, alt
<1>6. cursor' \in 1 .. Len(argv) + 1
  <2>1. hit # 0 => hit \in 2 .. Len(argv)
    BY <1>2, <1>4
  <2>2. cursor' = IF hit # 0 THEN hit ELSE cursor
    BY <1>1
  <2>3. cursor \in 1 .. Len(argv) + 1 /\ Len(argv) \in Nat
    BY <1>2
  <2> HIDE DEF hit
  <2>4. CASE hit # 0
    <3>1. cursor' = hit /\ hit \in 2 .. Len(argv)
      BY <2>1, <2>2, <2>4
    <3> QED BY <2>3, <3>1, PlacesOfFlags
  <2>5. CASE hit = 0
    BY <2>2, <2>3, <2>5
  <2> QED BY <2>4, <2>5
<1>7. hit # 0 => Given("flag", o) # {} \/ (alternative # "" /\ Given("flag", alternative) # {})
  BY <1>4, <1>5
<1>8. Asks
  BY <1>1, <1>6 DEF Asks
<1> HIDE DEF hit
<1>9. AnswersAreGiven'
  <2>1. /\ answer'.ask = "flag" /\ answer'.of = o /\ answer'.val = alternative
        /\ answer'.ok => hit # 0
    BY <1>1
  <2>2. /\ Given("flag", o)' = Given("flag", o)
        /\ Given("flag", alternative)' = Given("flag", alternative)
    BY <1>1, GivenIsKept
  <2>3. answer'.ok => Given("flag", answer.of)' # {}
                      \/ (answer'.ask = "flag" /\ answer'.val # "" /\ Given("flag", answer.val)' # {})
    BY <1>7, <2>1, <2>2 DEF Given
  <2> QED BY <2>1, <2>3 DEF AnswersAreGiven, FlagsAreGiven, OptionsAreGiven, VariablesAreGiven,
      FreeAreGiven
<1> QED BY <1>8, <1>9, AskingKeeps

\* What stands behind an option is the next argument, or nothing.
LEMMA FollowIsNext ==
    ASSUME ~EmptyArgs, LineKept, ArgvKept, NEW at \in 2 .. Len(args)
    PROVE  /\ at = Len(args) => Follow(at) = NothingFollows
           /\ at # Len(args) => Follow(at) # NothingFollows /\ Follow(at).name = args[at + 1].name
<1>1. Len(argv) = Len(args) /\ Len(args) \in Nat
  BY DEF LineKept, ArgvKept
<1>2. ASSUME at # Len(args) PROVE Follow(at) # NothingFollows /\ Follow(at).name = args[at + 1].name
  <2>1. at < Len(args) /\ at + 1 \in 1 .. Len(args)
    BY <1>1, <1>2
  <2>2. args[at + 1] \in LineArgs /\ argv[at + 1] = KeptAs(args, at + 1)
    BY <2>1 DEF LineKept, ArgvKept
  <2>3. argv[at + 1].kind = args[at + 1].kind /\ argv[at + 1].name = args[at + 1].name
    BY <2>2, KeptFields
  <2>4. args[at + 1].kind \in ArgKinds
    BY <2>2, ArgumentsAreTexts DEF IsText, Texts
  <2>5. NothingFollows.kind = "outside"
    BY DEF NothingFollows, Arg
  <2>6. Follow(at) = argv[at + 1]
    BY <1>1, <2>1 DEF Follow
  <2> QED BY <2>3, <2>4, <2>5, <2>6 DEF ArgKinds
<1>3. at = Len(args) => Follow(at) = NothingFollows
  BY <1>1 DEF Follow
<1> QED BY <1>2, <1>3

LEMMA GetOptionKeeps ==
    ASSUME ~EmptyArgs, CLInv, NEW o \in Flags, NEW type \in {"string", "number"}, GetOption(o, type)
    PROVE  CLInv'
<1> DEFINE at == FoundAt(o, cursor)
           text == Follow(at)
           val == IF text = NothingFollows THEN "default" ELSE IF type = "string" THEN text.name ELSE Number(text)
<1>1. /\ cursor' = IF at # 0 THEN at + 1 ELSE cursor
      /\ answer' = [ask |-> type, of |-> o, ok |-> at # 0, val |-> val, free |-> <<>>]
      /\ UNCHANGED <<args, argv, idx_nominus, variables, section>>
  BY DEF GetOption, Say
<1>2. /\ cursor \in 1 .. Len(argv) + 1 /\ Len(argv) \in Nat /\ Len(argv) = Len(args)
      /\ at # 0 => at \in 2 .. Len(argv)
  BY FoundIsInside
<1>3. at # 0 => at \in Given("flag", o)
  BY FoundIsGiven DEF CLInv
<1>4. at # 0 => /\ at = Len(args) => text = NothingFollows
                /\ at # Len(args) => text # NothingFollows /\ text.name = args[at + 1].name
  BY <1>2, FollowIsNext DEF CLInv
<1> HIDE DEF at, text
<1>5. at # 0 /\ type = "string" => IF at = Len(args) THEN val = "default" ELSE val = args[at + 1].name
  BY <1>4
<1> HIDE DEF val
<1>6. Asks
  <2>1. cursor' \in 1 .. Len(argv) + 1
    BY <1>1, <1>2
  <2> QED BY <1>1, <2>1 DEF Asks
<1>7. AnswersAreGiven'
  <2>1. /\ answer'.ask = type /\ answer'.of = o /\ answer'.val = val
        /\ answer'.ok => at # 0
    BY <1>1
  <2>2. Given("flag", answer.of)' = Given("flag", o) /\ args' = args
    BY <1>1, <2>1 DEF Given
  <2>3. answer'.ok => Given("flag", answer.of)' # {}
    BY <1>3, <2>1, <2>2
  <2>4. answer'.ask = "string" /\ answer'.ok =>
           \E i \in Given("flag", answer.of)' :
               IF i = Len(args') THEN answer'.val = "default" ELSE answer'.val = args'[i + 1].name
    BY <1>3, <1>5, <2>1, <2>2
  <2>5. type \notin {"stringvar", "unsignedvar", "free"}
    OBVIOUS
  <2> QED BY <2>1, <2>3, <2>4, <2>5 DEF AnswersAreGiven, FlagsAreGiven, OptionsAreGiven, VariablesAreGiven,
      FreeAreGiven
<1> QED BY <1>6, <1>7, AskingKeeps

\* A variable exists when it was given, and has the value that was given last.
LEMMA OriginalIsLast ==
    ASSUME ~EmptyArgs, LineKept, VariablesKept, NEW v
    PROVE  /\ VariableExists(v) <=> Given("var", v) # {}
           /\ Given("var", v) # {} => Original(v) = args[LastGiven(Given("var", v))].value
           /\ Given("var", v) = {} => Original(v) = "default"
<1> DEFINE name == <<<<>>, v>>
           S == Given("var", v)
           n == Len(args)
<1>1. \A i \in 2 .. n : i \in S <=> IsVar(args, i, name)
  BY DEF Given, IsVar
<1>2. S \subseteq 2 .. n /\ n \in Nat
  BY DEF Given, LineKept
<1>3. /\ variables \in Seq(VarRecs)
      /\ \A k \in 1 .. Len(variables) :
            \E i \in 2 .. n : /\ IsVar(args, i, variables[k].name) /\ variables[k].original = args[i].value
                              /\ \A j \in 2 .. n : IsVar(args, j, variables[k].name) => j <= i
      /\ \A i \in 2 .. n : args[i].kind = "var" => \E k \in 1 .. Len(variables) : IsVar(args, i, variables[k].name)
  BY DEF VariablesKept, VariablesAreOf
<1> HIDE DEF S, n
<1>4. ASSUME NEW i \in S PROVE \E k \in 1 .. Len(variables) : variables[k].name = name
  <2>1. i \in 2 .. n /\ IsVar(args, i, name)
    BY <1>1, <1>2
  <2>2. PICK k \in 1 .. Len(variables) : IsVar(args, i, variables[k].name)
    BY <1>3, <2>1 DEF IsVar
  <2> QED BY <2>1, <2>2 DEF IsVar
<1>5. ASSUME NEW k \in 1 .. Len(variables), variables[k].name = name
      PROVE  S # {} /\ variables[k].original = args[LastGiven(S)].value
  <2>1. PICK i \in 2 .. n : /\ IsVar(args, i, name) /\ variables[k].original = args[i].value
                            /\ \A j \in 2 .. n : IsVar(args, j, name) => j <= i
    BY <1>3, <1>5
  <2>2. i \in S /\ \A j \in S : i >= j
    BY <1>1, <1>2, <2>1
  <2>3. \A m \in S : (\A j \in S : m >= j) => m = i
    BY <1>2, <2>2
  <2>4. LastGiven(S) = i
    BY <2>2, <2>3 DEF LastGiven
  <2> QED BY <2>1, <2>2, <2>4
<1>6. VariableExists(v) <=> S # {}
  BY <1>4, <1>5 DEF VariableExists
<1>7. ASSUME S # {} PROVE Original(v) = args[LastGiven(S)].value
  <2>1. Original(v) = variables[FindVariable(name)].original
    BY <1>6, <1>7 DEF Original
  <2>2. \E k \in 1 .. Len(variables) : variables[k].name = name
    BY <1>4, <1>7
  <2>3. /\ FindVariable(name) \in 0 .. Len(variables)
        /\ FindVariable(name) = 0 => \A k \in 1 .. Len(variables) : variables[k].name # name
        /\ FindVariable(name) # 0 => variables[FindVariable(name)].name = name
    BY <1>3, FindVariableIs
  <2>4. FindVariable(name) # 0
    BY <2>2, <2>3
  <2>5. FindVariable(name) \in 1 .. Len(variables)
    BY <1>3, <2>3, <2>4
  <2> QED BY <1>5, <2>1, <2>3, <2>4, <2>5
<1>8. S = {} => Original(v) = "default"
  BY <1>6 DEF Original
<1> QED BY <1>6, <1>7, <1>8 DEF S

\* A text that no flag has is not found.
LEMMA NoSuchFlag ==
    ASSUME ~EmptyArgs, LineKept, ArgvKept
    PROVE  FoundAt("x", cursor) = 0
<1>1. ASSUME NEW i \in 1 .. Len(argv) PROVE ArgText(argv[i]) # OptionText("x")
  <2>1. SUFFICES ASSUME argv[i].kind = "flag", argv[i].name = "x" PROVE FALSE
    BY DEF ArgText, OptionText
  <2>2. args[i] \in LineArgs /\ argv[i] = KeptAs(args, i)
    BY DEF LineKept, ArgvKept
  <2>3. argv[i].kind = args[i].kind /\ argv[i].name = args[i].name
    BY <2>2, KeptFields
  <2>4. args[i].name \in Flags
    BY <2>1, <2>2, <2>3, ArgumentsAreTexts DEF IsText
  <2> QED BY <2>1, <2>3, <2>4 DEF Flags
<1> DEFINE hits == {i \in 1 .. Len(argv) : Places(cursor)[i] /\ ArgText(argv[i]) = OptionText("x")}
           ahead == {i \in hits : i >= cursor}
<1>2. hits = {}
  BY <1>1
<1>3. FoundAt("x", cursor) = IF hits = {} THEN 0
           ELSE IF ahead # {} THEN CHOOSE i \in ahead : \A j \in ahead : i <= j
           ELSE CHOOSE i \in hits : \A j \in hits : i <= j
  BY DEF FoundAt
<1> HIDE DEF hits, ahead
<1> QED BY <1>2, <1>3

LEMMA GetVariableKeeps ==
    ASSUME ~EmptyArgs, CLInv, NEW v \in {"x", "-o"}, NEW type \in {"stringvar", "unsignedvar", "boolvar"},
           GetVariable(v, type)
    PROVE  CLInv'
<1> DEFINE at == FoundAt(v, cursor)
           S == Given("var", v)
<1>1. UNCHANGED <<args, argv, idx_nominus, variables, section>>
  BY DEF GetVariable
<1>2. CASE type = "boolvar"
  <2>1. answer'.ask = "boolvar"
    BY <1>2 DEF GetVariable, Say
  <2>2. AnswersAreGiven'
    BY <2>1 DEF AnswersAreGiven, FlagsAreGiven, OptionsAreGiven, VariablesAreGiven,
      FreeAreGiven
  <2>3. cursor' \in 1 .. Len(argv) + 1
    <3>1. cursor' = cursor \/ (at # 0 /\ cursor' = at)
      BY DEF GetVariable
    <3>2. cursor \in 1 .. Len(argv) + 1 /\ Len(argv) \in Nat
      BY DEF CLInv, LineKept, ArgvKept, CursorKept
    <3>3. at # 0 => at \in 2 .. Len(argv)
      <4>1. CASE v \in Flags
        BY <4>1, FoundIsInside
      <4>2. CASE v \notin Flags
        <5>1. v = "x"
          BY <4>2 DEF Flags
        <5> QED BY <5>1, NoSuchFlag DEF CLInv
      <4> QED BY <4>1, <4>2
    <3> HIDE DEF at
    <3> QED BY <3>1, <3>2, <3>3
  <2> QED BY <1>1, <2>2, <2>3, AskingKeeps DEF Asks
<1>3. CASE type # "boolvar"
  <2> DEFINE val == Original(v)
             ok == VariableExists(v) /\ ~(type = "unsignedvar" /\ Negative(Original(v)))
  <2>1. answer' = [ask |-> type, of |-> v, ok |-> ok, val |-> val, free |-> <<>>] /\ cursor' = cursor
    BY <1>3 DEF GetVariable, Say
  <2>2. val = IF S = {} THEN "default" ELSE args[LastGiven(S)].value
    BY OriginalIsLast DEF CLInv
  <2>3. ok <=> S # {} /\ ~(type = "unsignedvar" /\ val = "-1")
    BY OriginalIsLast DEF CLInv, Negative
  <2> HIDE DEF val, ok
  <2>4. answer'.ask = type /\ answer'.of = v /\ answer'.val = val /\ (answer'.ok <=> ok)
    BY <2>1
  <2>5. args' = args /\ Given("var", answer.of)' = S
    BY <1>1, <2>4 DEF Given
  <2>6. type \in {"stringvar", "unsignedvar"}
    BY <1>3
  <2> HIDE DEF S
  <2>7. AnswersAreGiven'
    BY <2>2, <2>3, <2>4, <2>5, <2>6 DEF AnswersAreGiven, FlagsAreGiven, OptionsAreGiven, VariablesAreGiven,
      FreeAreGiven
  <2>8. cursor' \in 1 .. Len(argv) + 1
    BY <2>1 DEF CLInv, CursorKept
  <2> QED BY <1>1, <2>7, <2>8, AskingKeeps DEF Asks
<1> QED BY <1>2, <1>3

LEMMA GetFreeParametersKeeps ==
    ASSUME ~EmptyArgs, CLInv, GetFreeParameters
    PROVE  CLInv'
<1> DEFINE free == NominusVector
           n == Len(args)
           m == Len(idx_nominus)
<1>1. /\ answer' = [ask |-> "free", of |-> "", ok |-> TRUE, val |-> "", free |-> free]
      /\ UNCHANGED <<args, argv, idx_nominus, variables, section, cursor>>
  BY DEF GetFreeParameters, Say
<1>2. /\ idx_nominus \in Seq(Nat) /\ m \in Nat
      /\ \A k \in 1 .. m : idx_nominus[k] \in 2 .. n /\ IsFree(args, idx_nominus[k])
      /\ \A i \in 2 .. n : IsFree(args, i) => \E k \in 1 .. m : idx_nominus[k] = i
      /\ \A j, k \in 1 .. m : j < k => idx_nominus[j] < idx_nominus[k]
  BY DEF CLInv, NominusKept
<1>3. /\ n \in Nat /\ Len(argv) = n
      /\ \A i \in 1 .. n : args[i] \in LineArgs /\ argv[i] = KeptAs(args, i)
  BY DEF CLInv, LineKept, ArgvKept
<1>4. FreeParameters = {i \in 2 .. n : IsFree(args, i)}
  BY DEF FreeParameters, IsFree
<1> HIDE DEF n
<1>5. free = [k \in 1 .. m |-> argv[idx_nominus[k]]]
  <2>1. \A k \in 1 .. m : idx_nominus[k] <= Len(argv)
    BY <1>2, <1>3
  <2> QED BY <2>1 DEF NominusVector
<1> HIDE DEF free, m
<1>6. Len(free) = m
  BY <1>2, <1>5
<1>7. ASSUME NEW k \in 1 .. m PROVE Bare(free[k]) = args[idx_nominus[k]]
  <2>1. idx_nominus[k] \in 1 .. n
    BY <1>2, <1>3
  <2>2. free[k] = KeptAs(args, idx_nominus[k])
    BY <1>3, <1>5, <2>1
  <2> QED BY <1>3, <2>1, <2>2, KeptIsGiven
<1>8. idx_nominus \in [1 .. m -> FreeParameters]
  <2>1. idx_nominus \in [1 .. m -> Nat]
    BY <1>2 DEF m
  <2>2. \A k \in 1 .. m : idx_nominus[k] \in FreeParameters
    BY <1>2, <1>4
  <2> QED BY <2>1, <2>2
<1>9. \A i \in FreeParameters : \E k \in 1 .. m : idx_nominus[k] = i
  BY <1>2, <1>4
<1>10. \E at \in [1 .. m -> FreeParameters] :
             /\ \A i \in FreeParameters : \E k \in 1 .. m : at[k] = i
             /\ \A j, k \in 1 .. m : j < k => at[j] < at[k]
             /\ \A k \in 1 .. m : Bare(free[k]) = args[at[k]]
  BY <1>2, <1>7, <1>8, <1>9
<1>11. AnswersAreGiven'
  <2>1. answer'.ask = "free" /\ answer'.free = free
    BY <1>1
  <2>2. FreeParameters' = FreeParameters /\ args' = args
    BY <1>1 DEF FreeParameters
  <2>3. \E at \in [1 .. Len(answer'.free) -> FreeParameters'] :
             /\ \A i \in FreeParameters' : \E k \in 1 .. Len(answer'.free) : at[k] = i
             /\ \A j, k \in 1 .. Len(answer'.free) : j < k => at[j] < at[k]
             /\ \A k \in 1 .. Len(answer'.free) : Bare(answer'.free[k]) = args'[at[k]]
    BY <1>6, <1>10, <2>1, <2>2
  <2> QED BY <2>1, <2>3 DEF AnswersAreGiven, FlagsAreGiven, OptionsAreGiven, VariablesAreGiven,
      FreeAreGiven
<1>12. Asks
  BY <1>1 DEF Asks, CLInv, CursorKept
<1> QED BY <1>11, <1>12, AskingKeeps

LEMMA CLStuttering ==
    ASSUME CLInv, UNCHANGED clVars
    PROVE  CLInv'
<1>1. /\ args' = args /\ argv' = argv /\ idx_nominus' = idx_nominus /\ variables' = variables
      /\ section' = section /\ cursor' = cursor /\ answer' = answer
  BY DEF clVars
<1>2. AnswersAreGiven'
  <2>1. AnswersAreGiven
    BY DEF CLInv
  <2>2. FlagsAreGiven'
    BY <1>1, <2>1 DEF AnswersAreGiven, FlagsAreGiven, Given
  <2>3. OptionsAreGiven'
    BY <1>1, <2>1 DEF AnswersAreGiven, OptionsAreGiven, Given
  <2>4. VariablesAreGiven'
    BY <1>1, <2>1 DEF AnswersAreGiven, VariablesAreGiven, Given
  <2>5. FreeAreGiven'
    <3>1. FreeParameters' = FreeParameters
      BY <1>1 DEF FreeParameters
    <3> QED BY <1>1, <2>1, <3>1 DEF AnswersAreGiven, FreeAreGiven
  <2> QED BY <2>2, <2>3, <2>4, <2>5 DEF AnswersAreGiven
<1> QED BY <1>1, <1>2, AskingKeeps DEF Asks, CLInv, CursorKept

\* Asked in any order, the command line is answered for what it says.
THEOREM CommandLineAnswers ==
    ASSUME ~EmptyArgs
    PROVE  CLSpec => []CommandLineIsAnswered
<1>1. CLInit => CLInv
  BY CLInvInit
<1>2. CLInv /\ [CLNext]_clVars => CLInv'
  <2> SUFFICES ASSUME CLInv, [CLNext]_clVars PROVE CLInv'
    OBVIOUS
  <2>1. ASSUME NEW a \in Arguments, Parse(a) PROVE CLInv'
    BY <2>1, ParseKeeps
  <2>2. ASSUME NEW o \in Flags, NEW alternative \in Flags \cup {""}, GetFlag(o, alternative) PROVE CLInv'
    BY <2>2, GetFlagKeeps
  <2>3. ASSUME NEW o \in Flags, NEW type \in {"string", "number"}, GetOption(o, type) PROVE CLInv'
    BY <2>3, GetOptionKeeps
  <2>4. ASSUME NEW v \in {"x", "-o"}, NEW type \in {"stringvar", "unsignedvar", "boolvar"}, GetVariable(v, type)
        PROVE  CLInv'
    BY <2>4, GetVariableKeeps
  <2>5. CASE GetFreeParameters
    BY <2>5, GetFreeParametersKeeps
  <2>6. CASE UNCHANGED clVars
    BY <2>6, CLStuttering
  <2> QED BY <2>1, <2>2, <2>3, <2>4, <2>5, <2>6 DEF CLNext
<1>3. CLInv => CommandLineIsAnswered
  <2>1. CLInv => PresentIsFound
    BY FoundIsGiven DEF CLInv, PresentIsFound
  <2> QED BY <2>1 DEF CLInv, CommandLineIsAnswered
<1> QED BY <1>1, <1>2, <1>3, PTL DEF CLSpec

-----------------------------------------------------------------------------
(* The serial port                                                         *)

\* What stands behind the star of a sentence: "0" and a digit.
Mark(msg) == Upper(HexDigits(CheckSum(msg)))[2]
\* What the device's stream is made of.
Marks == {"$", "m", "n", "*", "0", "2", "8", "A", "\r", "\n", "#"}

LEMMA MarkIs ==
    ASSUME NEW msg
    PROVE  /\ Upper(HexDigits(CheckSum(msg))) = <<"0", Mark(msg)>>
           /\ Mark(msg) \in {"0", "2", "8", "A"}
           /\ Upper(<<"0", Mark(msg)>>) = <<"0", Mark(msg)>>
<1> DEFINE x == HexDigits(CheckSum(msg))[2]
<1>1. HexDigits(CheckSum(msg)) = <<"0", x>> /\ x \in {"0", "2", "8", "a"}
  BY DEF HexDigits
<1> HIDE DEF x
<1>2. \A c : Upper(<<"0", c>>) = <<ToUpper("0"), ToUpper(c)>>
  <2> TAKE c
  <2>1. Len(<<"0", c>>) = 2 /\ <<"0", c>>[1] = "0" /\ <<"0", c>>[2] = c
    OBVIOUS
  <2>2. Upper(<<"0", c>>) = [i \in 1 .. 2 |-> ToUpper(<<"0", c>>[i])]
    BY <2>1 DEF Upper
  <2>3. \A i \in 1 .. 2 : i = 1 \/ i = 2
    OBVIOUS
  <2> DEFINE f == [i \in 1 .. 2 |-> ToUpper(<<"0", c>>[i])]
             g == <<ToUpper("0"), ToUpper(c)>>
  <2>4. DOMAIN f = 1 .. 2 /\ f[1] = ToUpper("0") /\ f[2] = ToUpper(c)
    BY <2>1
  <2>5. DOMAIN g = 1 .. 2 /\ g[1] = ToUpper("0") /\ g[2] = ToUpper(c)
    OBVIOUS
  <2>6. f = [i \in 1 .. 2 |-> f[i]] /\ g = [i \in 1 .. 2 |-> g[i]]
    OBVIOUS
  <2> HIDE DEF f, g
  <2>7. f = g
    BY <2>3, <2>4, <2>5, <2>6
  <2> QED BY <2>2, <2>7 DEF f, g
<1>3. /\ ToUpper("0") = "0" /\ ToUpper("2") = "2" /\ ToUpper("8") = "8"
      /\ ToUpper("a") = "A" /\ ToUpper("A") = "A"
  BY DEF ToUpper
<1>4. Upper(HexDigits(CheckSum(msg))) = <<"0", ToUpper(x)>>
  BY <1>1, <1>2, <1>3
<1>5. Mark(msg) = ToUpper(x)
  BY <1>4 DEF Mark
<1>6. Mark(msg) \in {"0", "2", "8", "A"} /\ ToUpper(Mark(msg)) = Mark(msg)
  BY <1>1, <1>3, <1>5
<1> QED BY <1>2, <1>3, <1>4, <1>5, <1>6

\* Two sequences one after the other, and when two are the same.
LEMMA TwoTexts ==
    ASSUME NEW T, NEW s \in Seq(T), NEW t \in Seq(T)
    PROVE  /\ s \o t \in Seq(T) /\ Len(s \o t) = Len(s) + Len(t)
           /\ \A i \in 1 .. Len(s) : (s \o t)[i] = s[i]
           /\ \A i \in 1 .. Len(t) : (s \o t)[Len(s) + i] = t[i]
OBVIOUS

LEMMA SameTexts ==
    ASSUME NEW T, NEW s \in Seq(T), NEW t \in Seq(T), Len(s) = Len(t), \A i \in 1 .. Len(s) : s[i] = t[i]
    PROVE  s = t
OBVIOUS

\* A text with its front and its end taken off.
LEMMA TextInThree ==
    ASSUME NEW T, NEW s \in Seq(T), NEW d \in 1 .. Len(s)
    PROVE  /\ s = SubSeq(s, 1, d - 1) \o <<s[d]>> \o SubSeq(s, d + 1, Len(s))
           /\ SubSeq(s, 1, d - 1) \in Seq(T) /\ SubSeq(s, d + 1, Len(s)) \in Seq(T)
           /\ Len(SubSeq(s, 1, d - 1)) = d - 1 /\ Len(SubSeq(s, d + 1, Len(s))) = Len(s) - d
           /\ \A i \in 1 .. d - 1 : SubSeq(s, 1, d - 1)[i] = s[i]
           /\ \A i \in 1 .. Len(s) - d : SubSeq(s, d + 1, Len(s))[i] = s[d + i]
<1> DEFINE h == SubSeq(s, 1, d - 1)
           c == <<s[d]>>
           r == SubSeq(s, d + 1, Len(s))
<1>1. Len(s) \in Nat /\ d \in Nat /\ 1 <= d /\ d <= Len(s) /\ s[d] \in T
  OBVIOUS
<1>2. /\ h \in Seq(T) /\ Len(h) = d - 1 /\ \A i \in 1 .. d - 1 : h[i] = s[i]
  BY <1>1, SubSeqProperties
<1>3. /\ r \in Seq(T) /\ Len(r) = Len(s) - d /\ \A i \in 1 .. Len(s) - d : r[i] = s[d + i]
  BY <1>1, SubSeqProperties
<1>4. c \in Seq(T) /\ Len(c) = 1 /\ c[1] = s[d]
  BY <1>1
<1> HIDE DEF h, c, r
<1>5. /\ h \o c \in Seq(T) /\ Len(h \o c) = d
      /\ \A i \in 1 .. d : (h \o c)[i] = s[i]
  <2> h \in Seq(T) /\ c \in Seq(T)
    BY <1>2, <1>4
  <2>1. /\ h \o c \in Seq(T) /\ Len(h \o c) = Len(h) + Len(c)
        /\ \A i \in 1 .. Len(h) : (h \o c)[i] = h[i]
        /\ \A i \in 1 .. Len(c) : (h \o c)[Len(h) + i] = c[i]
    BY TwoTexts
  <2>2. 1 \in 1 .. Len(c) /\ (d - 1) + 1 = d /\ \A i \in 1 .. d : i \in 1 .. d - 1 \/ i = d
    BY <1>1, <1>4
  <2> QED BY <1>2, <1>4, <2>1, <2>2
<1> DEFINE hc == h \o c
<1> HIDE DEF hc
<1>6. /\ hc \o r \in Seq(T) /\ Len(hc \o r) = Len(s)
      /\ \A i \in 1 .. Len(s) : (hc \o r)[i] = s[i]
  <2> hc \in Seq(T) /\ r \in Seq(T)
    BY <1>3, <1>5 DEF hc
  <2>1. /\ hc \o r \in Seq(T) /\ Len(hc \o r) = Len(hc) + Len(r)
        /\ \A i \in 1 .. Len(hc) : (hc \o r)[i] = hc[i]
        /\ \A i \in 1 .. Len(r) : (hc \o r)[Len(hc) + i] = r[i]
    BY TwoTexts
  <2>2. Len(hc) = d /\ \A i \in 1 .. d : hc[i] = s[i]
    BY <1>5 DEF hc
  <2>3. ASSUME NEW i \in 1 .. Len(s), i > d PROVE (hc \o r)[i] = s[i]
    <3>1. i - d \in 1 .. Len(r) /\ i - d \in 1 .. Len(s) - d /\ d + (i - d) = i
      BY <1>1, <1>3, <2>3
    <3>2. (hc \o r)[Len(hc) + (i - d)] = r[i - d]
      BY <2>1, <3>1
    <3>3. (hc \o r)[i] = r[i - d]
      BY <2>2, <3>1, <3>2
    <3> QED BY <1>3, <3>1, <3>3
  <2>4. \A i \in 1 .. Len(s) : i \in 1 .. d \/ i > d
    BY <1>1
  <2>5. Len(hc) + Len(r) = Len(s)
    BY <1>1, <1>3, <2>2
  <2> QED BY <2>1, <2>2, <2>3, <2>4, <2>5
<1>7. hc \o r = s
  BY <1>6, SameTexts
<1> QED BY <1>2, <1>3, <1>7 DEF hc, h, c, r

\* A sentence found anywhere in a text without its own marks checks.
LEMMA SentenceChecks ==
    ASSUME NEW T, NEW s \in Seq(T), NEW d \in 1 .. Len(s), NEW msg \in Seq(T),
           \A i \in 1 .. d - 1 : s[i] # "$", s[d] = "$",
           \A i \in 1 .. Len(msg) : s[d + i] = msg[i] /\ msg[i] # "*",
           Len(s) = d + Len(msg) + 3,
           s[d + Len(msg) + 1] = "*", s[d + Len(msg) + 2] = "0", s[d + Len(msg) + 3] = Mark(msg)
    PROVE  DoNMEACheckSum(s)
<1> DEFINE n == Len(msg)
           h == SubSeq(s, 1, d - 1)
           r == SubSeq(s, d + 1, Len(s))
           b == SubSeq(r, 1, n)
           x == SubSeq(r, n + 2, Len(r))
<1>1. n \in Nat /\ d \in Nat /\ d >= 1 /\ Len(s) \in Nat
  OBVIOUS
<1>2. /\ s = h \o <<s[d]>> \o r /\ h \in Seq(T) /\ r \in Seq(T)
      /\ Len(h) = d - 1 /\ Len(r) = n + 3
      /\ \A i \in 1 .. d - 1 : h[i] = s[i]
      /\ \A i \in 1 .. n + 3 : r[i] = s[d + i]
  <2>1. Len(s) - d = n + 3
    BY <1>1
  <2>2. /\ s = SubSeq(s, 1, d - 1) \o <<s[d]>> \o SubSeq(s, d + 1, Len(s))
        /\ SubSeq(s, 1, d - 1) \in Seq(T) /\ SubSeq(s, d + 1, Len(s)) \in Seq(T)
        /\ Len(SubSeq(s, 1, d - 1)) = d - 1 /\ Len(SubSeq(s, d + 1, Len(s))) = Len(s) - d
        /\ \A i \in 1 .. d - 1 : SubSeq(s, 1, d - 1)[i] = s[i]
        /\ \A i \in 1 .. Len(s) - d : SubSeq(s, d + 1, Len(s))[i] = s[d + i]
    BY TextInThree
  <2> QED BY <2>1, <2>2
<1>3. MOOSChomp(s, <<"$">>).rest = r
  <2> HIDE DEF h, r
  <2>1. \A i \in 1 .. Len(h) : h[i] # "$"
    BY <1>1, <1>2
  <2>2. MOOSChomp(h \o <<"$">> \o r, <<"$">>) = [head |-> h, rest |-> r]
    <3>1. "$" \in T
      OBVIOUS
    <3> QED BY <1>2, <2>1, <3>1, ChompSplits
  <2>3. s = h \o <<"$">> \o r
    BY <1>2
  <2> QED BY <2>2, <2>3
<1>4. \A i \in 1 .. n : r[i] = msg[i] /\ r[i] # "*"
  <2> HIDE DEF h, r
  <2>1. \A i \in 1 .. n : i \in 1 .. n + 3
    BY <1>1
  <2> QED BY <1>2, <2>1
<1>5. r[n + 1] = "*" /\ r[n + 2] = "0" /\ r[n + 3] = Mark(msg) /\ n + 1 \in 1 .. Len(r)
  <2> HIDE DEF h, r
  <2>1. r[n + 1] = s[d + (n + 1)] /\ r[n + 2] = s[d + (n + 2)] /\ r[n + 3] = s[d + (n + 3)]
    BY <1>1, <1>2
  <2>2. d + (n + 1) = d + n + 1 /\ d + (n + 2) = d + n + 2 /\ d + (n + 3) = d + n + 3
    BY <1>1
  <2> QED BY <1>1, <1>2, <2>1, <2>2
<1> HIDE DEF h, r
<1>6. /\ r = SubSeq(r, 1, (n + 1) - 1) \o <<r[n + 1]>> \o SubSeq(r, (n + 1) + 1, Len(r))
      /\ SubSeq(r, 1, (n + 1) - 1) \in Seq(T) /\ SubSeq(r, (n + 1) + 1, Len(r)) \in Seq(T)
      /\ Len(SubSeq(r, 1, (n + 1) - 1)) = (n + 1) - 1
      /\ Len(SubSeq(r, (n + 1) + 1, Len(r))) = Len(r) - (n + 1)
      /\ \A i \in 1 .. (n + 1) - 1 : SubSeq(r, 1, (n + 1) - 1)[i] = r[i]
      /\ \A i \in 1 .. Len(r) - (n + 1) : SubSeq(r, (n + 1) + 1, Len(r))[i] = r[(n + 1) + i]
  <2> DEFINE k == n + 1
  <2>1. k \in 1 .. Len(r)
    BY <1>5
  <2> HIDE DEF k
  <2>2. /\ r = SubSeq(r, 1, k - 1) \o <<r[k]>> \o SubSeq(r, k + 1, Len(r))
        /\ SubSeq(r, 1, k - 1) \in Seq(T) /\ SubSeq(r, k + 1, Len(r)) \in Seq(T)
        /\ Len(SubSeq(r, 1, k - 1)) = k - 1 /\ Len(SubSeq(r, k + 1, Len(r))) = Len(r) - k
        /\ \A i \in 1 .. k - 1 : SubSeq(r, 1, k - 1)[i] = r[i]
        /\ \A i \in 1 .. Len(r) - k : SubSeq(r, k + 1, Len(r))[i] = r[k + i]
    BY <1>2, <2>1, TextInThree
  <2> QED BY <2>2 DEF k
<1>7. /\ r = b \o <<"*">> \o x /\ b \in Seq(T) /\ x \in Seq(T) /\ Len(b) = n /\ Len(x) = 2
      /\ \A i \in 1 .. n : b[i] = r[i]
      /\ x[1] = "0" /\ x[2] = Mark(msg)
  <2>1. (n + 1) - 1 = n /\ (n + 1) + 1 = n + 2 /\ (n + 1) + 2 = n + 3 /\ Len(r) - (n + 1) = 2
    BY <1>1, <1>2
  <2>2. /\ r = b \o <<r[n + 1]>> \o x /\ b \in Seq(T) /\ x \in Seq(T) /\ Len(b) = n /\ Len(x) = 2
        /\ \A i \in 1 .. n : b[i] = r[i]
    BY <1>6, <2>1
  <2>3. \A i \in 1 .. 2 : x[i] = r[(n + 1) + i]
    BY <1>6, <2>1
  <2> HIDE DEF b, x
  <2>4. (n + 1) + 1 = n + 2 /\ 1 \in 1 .. 2 /\ 2 \in 1 .. 2
    BY <1>1
  <2>5. x[1] = r[n + 2] /\ x[2] = r[n + 3]
    BY <2>1, <2>3, <2>4
  <2> QED BY <1>5, <2>2, <2>5
<1> HIDE DEF b, x
<1>8. b = msg
  BY <1>1, <1>4, <1>7
<1>9. x = <<"0", Mark(msg)>>
  BY <1>7
<1>10. MOOSChomp(r, <<"*">>) = [head |-> b, rest |-> x]
  <2>1. \A i \in 1 .. Len(b) : b[i] # "*"
    BY <1>1, <1>4, <1>7
  <2>2. MOOSChomp(b \o <<"*">> \o x, <<"*">>) = [head |-> b, rest |-> x]
    <3>1. "*" \in T
      BY <1>2, <1>5
    <3>2. b \in Seq(T) /\ x \in Seq(T)
      BY <1>7
    <3> QED BY <2>1, <3>1, <3>2, ChompSplits
  <2> QED BY <1>7, <2>2
<1>11. Upper(HexDigits(CheckSum(msg))) = Upper(<<"0", Mark(msg)>>)
  <2>1. Upper(HexDigits(CheckSum(msg))) = <<"0", Mark(msg)>>
    BY MarkIs
  <2>2. Upper(<<"0", Mark(msg)>>) = <<"0", Mark(msg)>>
    BY MarkIs
  <2> QED BY <2>1, <2>2
<1>12. MOOSChomp(MOOSChomp(s, <<"$">>).rest, <<"*">>) = [head |-> msg, rest |-> <<"0", Mark(msg)>>]
  BY <1>3, <1>8, <1>9, <1>10
<1> DEFINE body == MOOSChomp(MOOSChomp(s, <<"$">>).rest, <<"*">>)
<1>13. body.head = msg /\ body.rest = <<"0", Mark(msg)>>
  <2> HIDE DEF body
  <2>1. body = [head |-> msg, rest |-> <<"0", Mark(msg)>>]
    BY <1>12 DEF body
  <2> QED BY <2>1
<1>14. DoNMEACheckSum(s) <=> Upper(HexDigits(CheckSum(body.head))) = Upper(body.rest)
  BY DEF DoNMEACheckSum, MOOSStrCmp
<1> HIDE DEF body
<1> QED BY <1>11, <1>13, <1>14

\* What is removed stands in front of the text and behind it.
LEMMA TrimmedEnds ==
    ASSUME NEW T, NEW w \in Seq(T), NEW C, NEW a \in Nat, NEW k \in Nat, a <= k, k <= Len(w),
           \A i \in 1 .. Len(w) : w[i] \in C <=> ~(a < i /\ i <= k)
    PROVE  MOOSRemoveChars(w, C) = SubSeq(w, a + 1, k)
<1> DEFINE n == Len(w)
           P(f) == f = [i \in 0 .. n |-> IF i = 0 THEN <<>> ELSE IF w[i] \in C THEN f[i - 1] ELSE Append(f[i - 1], w[i])]
           F == CHOOSE f : P(f)
           Upto(i) == IF i <= a THEN <<>> ELSE IF i <= k THEN SubSeq(w, a + 1, i) ELSE SubSeq(w, a + 1, k)
           g == [i \in 0 .. n |-> Upto(i)]
<1>1. n \in Nat
  OBVIOUS
<1>2. MOOSRemoveChars(w, C) = F[n]
  BY DEF MOOSRemoveChars
<1>3. Upto(0) = <<>>
  OBVIOUS
<1>4. ASSUME NEW i \in 1 .. n PROVE Upto(i) = IF w[i] \in C THEN Upto(i - 1) ELSE Append(Upto(i - 1), w[i])
  <2>1. CASE i <= a
    BY <1>1, <2>1
  <2>2. CASE i > k /\ i - 1 > k
    BY <1>1, <2>2
  <2>3. CASE i > k /\ i - 1 = k
    <3>1. k > a => Upto(i - 1) = SubSeq(w, a + 1, k)
      BY <1>1, <2>3
    <3>2. k = a => Upto(i - 1) = <<>> /\ SubSeq(w, a + 1, k) = <<>>
      BY <1>1, <2>3
    <3>3. ~(i <= a) /\ ~(i <= k) /\ w[i] \in C /\ (k > a \/ k = a)
      BY <1>1, <2>3
    <3>4. Upto(i) = SubSeq(w, a + 1, k)
      BY <3>3
    <3> HIDE DEF Upto
    <3> QED BY <3>1, <3>2, <3>3, <3>4
  <2>4. CASE i = a + 1 /\ i <= k
    <3>1. SubSeq(w, a + 1, a + 1) = <<w[a + 1]>>
      <4> DEFINE p == SubSeq(w, a + 1, a + 1)
                 q == <<w[a + 1]>>
      <4>1. w[a + 1] \in T /\ a + 1 \in 1 .. n
        BY <1>1, <2>4
      <4>2. p \in Seq(T) /\ Len(p) = 1 /\ \A j \in 1 .. 1 : p[j] = w[a + j]
        BY <1>1, <2>4, SubSeqProperties
      <4>3. q \in Seq(T) /\ Len(q) = 1 /\ \A j \in 1 .. 1 : q[j] = w[a + j]
        BY <4>1, ShortSequences
      <4> HIDE DEF p, q
      <4> QED BY <4>2, <4>3, SameTexts DEF p, q
    <3>2. Append(<<>>, w[i]) = <<w[i]>>
      OBVIOUS
    <3>3. Upto(i - 1) = <<>> /\ Upto(i) = SubSeq(w, a + 1, a + 1) /\ w[i] = w[a + 1] /\ w[i] \notin C
      BY <1>1, <2>4
    <3> HIDE DEF Upto
    <3> QED BY <3>1, <3>2, <3>3
  <2>5. CASE i > a + 1 /\ i <= k
    <3>1. Append(SubSeq(w, a + 1, i - 1), w[i]) = SubSeq(w, a + 1, i)
      <4> DEFINE p == SubSeq(w, a + 1, i - 1)
                 q == SubSeq(w, a + 1, i)
      <4>1. p \in Seq(T) /\ Len(p) = i - 1 - a /\ \A j \in 1 .. i - 1 - a : p[j] = w[a + j]
        BY <1>1, <2>5, SubSeqProperties
      <4>2. q \in Seq(T) /\ Len(q) = i - a /\ \A j \in 1 .. i - a : q[j] = w[a + j]
        BY <1>1, <2>5, SubSeqProperties
      <4>3. w[i] \in T
        BY <1>1
      <4> HIDE DEF p, q
      <4>4. /\ Append(p, w[i]) \in Seq(T) /\ Len(Append(p, w[i])) = i - a
            /\ \A j \in 1 .. i - a : Append(p, w[i])[j] = IF j = i - a THEN w[i] ELSE p[j]
        BY <1>1, <2>5, <4>1, <4>3
      <4>5. \A j \in 1 .. i - a : Append(p, w[i])[j] = q[j]
        BY <1>1, <2>5, <4>1, <4>2, <4>4
      <4> QED BY <4>2, <4>4, <4>5, SameTexts DEF p, q
    <3>2. Upto(i - 1) = SubSeq(w, a + 1, i - 1) /\ Upto(i) = SubSeq(w, a + 1, i) /\ w[i] \notin C
      BY <1>1, <2>5
    <3> HIDE DEF Upto
    <3> QED BY <3>1, <3>2
  <2>6. k < i \/ i <= a \/ i = a + 1 \/ (i > a + 1 /\ i <= k)
    BY <1>1
  <2> QED BY <1>1, <2>1, <2>2, <2>3, <2>4, <2>5, <2>6
<1> HIDE DEF Upto
<1>5. P(g)
  <2> DEFINE R(i) == IF i = 0 THEN <<>> ELSE IF w[i] \in C THEN g[i - 1] ELSE Append(g[i - 1], w[i])
  <2>1. ASSUME NEW i \in 0 .. n PROVE Upto(i) = R(i)
    <3>1. i # 0 => i \in 1 .. n /\ i - 1 \in 0 .. n
      BY <1>1
    <3> QED BY <1>3, <1>4, <3>1
  <2> QED BY <2>1
<1> HIDE DEF P, F, g
<1>6. P(F)
  BY <1>5 DEF F
<1>7. \A i \in 0 .. n : F[i] = IF i = 0 THEN <<>> ELSE IF w[i] \in C THEN F[i - 1] ELSE Append(F[i - 1], w[i])
  BY <1>6 DEF P
<1> DEFINE S == {i \in Nat : i <= n => F[i] = Upto(i)}
<1>8. 0 \in S
  <2>1. 0 \in 0 .. n
    BY <1>1
  <2> QED BY <1>3, <1>7, <2>1
<1>9. ASSUME NEW i \in Nat, i \in S PROVE i + 1 \in S
  <2> SUFFICES ASSUME i + 1 <= n PROVE F[i + 1] = Upto(i + 1)
    OBVIOUS
  <2>1. i + 1 \in 0 .. n /\ i + 1 \in 1 .. n /\ i + 1 # 0 /\ (i + 1) - 1 = i /\ i <= n
    BY <1>1
  <2>2. F[i] = Upto(i)
    BY <1>9, <2>1
  <2> QED BY <1>4, <1>7, <2>1, <2>2
<1> HIDE DEF S
<1>10. Nat \subseteq S
  BY <1>8, <1>9, NatSetInduction
<1>11. F[n] = Upto(n)
  BY <1>1, <1>10 DEF S
<1>12. Upto(n) = SubSeq(w, a + 1, k)
  <2>1. CASE n <= a
    <3>1. k = a /\ n = k
      BY <1>1, <2>1
    <3>2. SubSeq(w, a + 1, k) = <<>>
      BY <3>1
    <3> QED BY <2>1, <3>2 DEF Upto
  <2>2. CASE n > a
    BY <1>1, <2>2 DEF Upto
  <2> QED BY <1>1, <2>1, <2>2
<1> QED BY <1>2, <1>11, <1>12

\* A sentence of the device, byte by byte.
LEMMA SentenceIs ==
    ASSUME NEW msg \in Seq(Marks)
    PROVE  LET s == Message2NMEA(msg) n == Len(msg) IN
           /\ s \in Seq(Marks) /\ Len(s) = n + 6
           /\ s[1] = "$" /\ (\A i \in 1 .. n : s[i + 1] = msg[i])
           /\ s[n + 2] = "*" /\ s[n + 3] = "0" /\ s[n + 4] = Mark(msg)
           /\ s[n + 5] = "\r" /\ s[n + 6] = "\n"
<1> DEFINE n == Len(msg)
           p == <<"$">> \o msg
           q == p \o <<"*">>
           x == <<"0", Mark(msg)>>
           r == q \o x
           s == r \o <<"\r", "\n">>
<1>1. Message2NMEA(msg) = s
  BY MarkIs DEF Message2NMEA
<1>2. n \in Nat /\ Mark(msg) \in Marks
  <2>1. Mark(msg) \in {"0", "2", "8", "A"}
    BY MarkIs
  <2> QED BY <2>1 DEF Marks
<1>3. p \in Seq(Marks) /\ Len(p) = n + 1 /\ p[1] = "$" /\ \A i \in 1 .. n : p[i + 1] = msg[i]
  <2>1. <<"$">> \in Seq(Marks) /\ Len(<<"$">>) = 1 /\ <<"$">>[1] = "$"
    <3>1. "$" \in Marks
      BY DEF Marks
    <3> QED BY <3>1, ShortSequences
  <2> <<"$">> \in Seq(Marks)
    BY <2>1
  <2>2. /\ p \in Seq(Marks) /\ Len(p) = Len(<<"$">>) + Len(msg)
        /\ \A i \in 1 .. Len(<<"$">>) : p[i] = <<"$">>[i]
        /\ \A i \in 1 .. Len(msg) : p[Len(<<"$">>) + i] = msg[i]
    BY TwoTexts
  <2>3. \A i \in 1 .. n : 1 + i = i + 1
    OBVIOUS
  <2> HIDE DEF p
  <2> QED BY <1>2, <2>1, <2>2, <2>3
<1> HIDE DEF p
<1>4. q \in Seq(Marks) /\ Len(q) = n + 2 /\ q[n + 2] = "*" /\ \A i \in 1 .. n + 1 : q[i] = p[i]
  <2> DEFINE y == <<"*">>
  <2>1. y \in Seq(Marks) /\ Len(y) = 1 /\ y[1] = "*"
    <3>1. "*" \in Marks
      BY DEF Marks
    <3> QED BY <3>1, ShortSequences
  <2> HIDE DEF y
  <2> y \in Seq(Marks) /\ p \in Seq(Marks)
    BY <1>3, <2>1
  <2>2. /\ p \o y \in Seq(Marks) /\ Len(p \o y) = Len(p) + Len(y)
        /\ \A i \in 1 .. Len(p) : (p \o y)[i] = p[i]
        /\ \A i \in 1 .. Len(y) : (p \o y)[Len(p) + i] = y[i]
    BY TwoTexts
  <2>3. 1 \in 1 .. Len(y) /\ (n + 1) + 1 = n + 2
    BY <1>2, <2>1
  <2> QED BY <1>3, <2>1, <2>2, <2>3 DEF y
<1> HIDE DEF q
<1>5. /\ r \in Seq(Marks) /\ Len(r) = n + 4 /\ r[n + 3] = "0" /\ r[n + 4] = Mark(msg)
      /\ \A i \in 1 .. n + 2 : r[i] = q[i]
  <2>1. x \in Seq(Marks) /\ Len(x) = 2 /\ x[1] = "0" /\ x[2] = Mark(msg)
    <3>1. "0" \in Marks
      BY DEF Marks
    <3> QED BY <1>2, <3>1, ShortSequences
  <2> HIDE DEF x
  <2> x \in Seq(Marks) /\ q \in Seq(Marks)
    BY <1>4, <2>1
  <2>2. /\ q \o x \in Seq(Marks) /\ Len(q \o x) = Len(q) + Len(x)
        /\ \A i \in 1 .. Len(q) : (q \o x)[i] = q[i]
        /\ \A i \in 1 .. Len(x) : (q \o x)[Len(q) + i] = x[i]
    BY TwoTexts
  <2>3. 1 \in 1 .. Len(x) /\ 2 \in 1 .. Len(x) /\ (n + 2) + 1 = n + 3 /\ (n + 2) + 2 = n + 4
    BY <1>2, <2>1
  <2> QED BY <1>4, <2>1, <2>2, <2>3
<1> HIDE DEF r
<1>6. /\ s \in Seq(Marks) /\ Len(s) = n + 6 /\ s[n + 5] = "\r" /\ s[n + 6] = "\n"
      /\ \A i \in 1 .. n + 4 : s[i] = r[i]
  <2> DEFINE y == <<"\r", "\n">>
  <2>1. y \in Seq(Marks) /\ Len(y) = 2 /\ y[1] = "\r" /\ y[2] = "\n"
    <3>1. "\r" \in Marks /\ "\n" \in Marks
      BY DEF Marks
    <3> QED BY <3>1, ShortSequences
  <2> HIDE DEF y
  <2> y \in Seq(Marks) /\ r \in Seq(Marks)
    BY <1>5, <2>1
  <2>2. /\ r \o y \in Seq(Marks) /\ Len(r \o y) = Len(r) + Len(y)
        /\ \A i \in 1 .. Len(r) : (r \o y)[i] = r[i]
        /\ \A i \in 1 .. Len(y) : (r \o y)[Len(r) + i] = y[i]
    BY TwoTexts
  <2>3. 1 \in 1 .. Len(y) /\ 2 \in 1 .. Len(y) /\ (n + 4) + 1 = n + 5 /\ (n + 4) + 2 = n + 6
    BY <1>2, <2>1
  <2> QED BY <1>5, <2>1, <2>2, <2>3 DEF y
<1> HIDE DEF s
<1>7. \A i \in 1 .. n + 1 : s[i] = p[i] /\ 1 \in 1 .. n + 1
  BY <1>2, <1>4, <1>5, <1>6
<1>8. s[1] = "$" /\ \A i \in 1 .. n : s[i + 1] = msg[i]
  <2>1. 1 \in 1 .. n + 1 /\ \A i \in 1 .. n : i + 1 \in 1 .. n + 1
    BY <1>2
  <2> QED BY <1>3, <1>7, <2>1
<1>9. s[n + 2] = "*" /\ s[n + 3] = "0" /\ s[n + 4] = Mark(msg)
  <2>1. n + 2 \in 1 .. n + 2 /\ n + 2 \in 1 .. n + 4 /\ n + 3 \in 1 .. n + 4 /\ n + 4 \in 1 .. n + 4
    BY <1>2
  <2> QED BY <1>4, <1>5, <1>6, <2>1
<1> QED BY <1>1, <1>6, <1>8, <1>9

\* A sentence that stands behind the first o bytes of s.
SentenceAt(s, o, msg) ==
    LET n == Len(msg) IN
    /\ s[o + 1] = "$" /\ (\A i \in 1 .. n : s[o + (i + 1)] = msg[i])
    /\ s[o + (n + 2)] = "*" /\ s[o + (n + 3)] = "0" /\ s[o + (n + 4)] = Mark(msg)
    /\ s[o + (n + 5)] = "\r" /\ s[o + (n + 6)] = "\n"

LEMMA SentenceMoves ==
    ASSUME NEW msg \in Seq(Marks), NEW s, NEW o \in Nat,
           \A i \in 1 .. Len(msg) + 6 : s[o + i] = Message2NMEA(msg)[i]
    PROVE  SentenceAt(s, o, msg)
<1> DEFINE t == Message2NMEA(msg)
           n == Len(msg)
<1>1. n \in Nat
  OBVIOUS
<1>2. /\ t[1] = "$" /\ (\A i \in 1 .. n : t[i + 1] = msg[i])
      /\ t[n + 2] = "*" /\ t[n + 3] = "0" /\ t[n + 4] = Mark(msg)
      /\ t[n + 5] = "\r" /\ t[n + 6] = "\n"
  BY SentenceIs
<1>3. \A i \in 1 .. n + 6 : s[o + i] = t[i]
  OBVIOUS
<1> HIDE DEF t, n
<1>4. /\ 1 \in 1 .. n + 6 /\ n + 2 \in 1 .. n + 6 /\ n + 3 \in 1 .. n + 6 /\ n + 4 \in 1 .. n + 6
      /\ n + 5 \in 1 .. n + 6 /\ n + 6 \in 1 .. n + 6 /\ \A i \in 1 .. n : i + 1 \in 1 .. n + 6
  BY <1>1
<1>5. \A i \in 1 .. n : s[o + (i + 1)] = msg[i]
  BY <1>2, <1>3, <1>4
<1> QED BY <1>2, <1>3, <1>4, <1>5 DEF SentenceAt, n

LEMMA StreamIs ==
    /\ DeviceStream \in Seq(Marks) /\ Len(DeviceStream) = 28
    /\ SentenceAt(DeviceStream, 0, <<"m", "n">>)
    /\ SentenceAt(DeviceStream, 8, <<"n">>)
    /\ \A i \in 16 .. 21 : DeviceStream[i] = "#"
    /\ SentenceAt(DeviceStream, 21, <<"m">>)
<1> DEFINE m1 == <<"m", "n">>
           m2 == <<"n">>
           m3 == <<"m">>
           p1 == Message2NMEA(m1)
           p2 == Message2NMEA(m2)
           p3 == Message2NMEA(m3)
           z == <<"#", "#", "#", "#", "#", "#">>
           a == p1 \o p2
           b == a \o z
           c == b \o p3
<1>1. m1 \in Seq(Marks) /\ m2 \in Seq(Marks) /\ m3 \in Seq(Marks) /\ Len(m1) = 2 /\ Len(m2) = 1 /\ Len(m3) = 1
  <2>1. "m" \in Marks /\ "n" \in Marks
    BY DEF Marks
  <2> QED BY <2>1, ShortSequences
<1> HIDE DEF m1, m2, m3
<1>2. p1 \in Seq(Marks) /\ Len(p1) = 8
  <2> m1 \in Seq(Marks)
    BY <1>1
  <2>1. p1 \in Seq(Marks) /\ Len(p1) = Len(m1) + 6
    BY SentenceIs
  <2> HIDE DEF p1
  <2> QED BY <1>1, <2>1
<1>3. p2 \in Seq(Marks) /\ Len(p2) = 7
  <2> m2 \in Seq(Marks)
    BY <1>1
  <2>1. p2 \in Seq(Marks) /\ Len(p2) = Len(m2) + 6
    BY SentenceIs
  <2> HIDE DEF p2
  <2> QED BY <1>1, <2>1
<1>4. p3 \in Seq(Marks) /\ Len(p3) = 7
  <2> m3 \in Seq(Marks)
    BY <1>1
  <2>1. p3 \in Seq(Marks) /\ Len(p3) = Len(m3) + 6
    BY SentenceIs
  <2> HIDE DEF p3
  <2> QED BY <1>1, <2>1
<1>5. z \in Seq(Marks) /\ Len(z) = 6 /\ \A i \in 1 .. 6 : z[i] = "#"
  <2>1. "#" \in Marks
    BY DEF Marks
  <2> DEFINE y == [i \in 1 .. 6 |-> "#"]
  <2>2. y \in Seq(Marks) /\ Len(y) = 6
    BY <2>1
  <2>3. z = y
    <3>1. \A i \in 1 .. 6 : i = 1 \/ i = 2 \/ i = 3 \/ i = 4 \/ i = 5 \/ i = 6
      OBVIOUS
    <3> QED BY <3>1
  <2> QED BY <2>2, <2>3
<1>6. DeviceStream = c
  BY DEF DeviceStream, m1, m2, m3
<1> HIDE DEF p1, p2, p3, z
<1>7. a \in Seq(Marks) /\ Len(a) = 15 /\ (\A i \in 1 .. 8 : a[i] = p1[i]) /\ (\A i \in 1 .. 7 : a[8 + i] = p2[i])
  <2> p1 \in Seq(Marks) /\ p2 \in Seq(Marks)
    BY <1>2, <1>3
  <2>1. /\ p1 \o p2 \in Seq(Marks) /\ Len(p1 \o p2) = Len(p1) + Len(p2)
        /\ \A i \in 1 .. Len(p1) : (p1 \o p2)[i] = p1[i]
        /\ \A i \in 1 .. Len(p2) : (p1 \o p2)[Len(p1) + i] = p2[i]
    BY TwoTexts
  <2>2. Len(p1) = 8 /\ Len(p2) = 7 /\ 8 + 7 = 15 /\ a = p1 \o p2
    BY <1>2, <1>3
  <2> HIDE DEF a
  <2> QED BY <2>1, <2>2
<1> HIDE DEF a
<1>8. b \in Seq(Marks) /\ Len(b) = 21 /\ (\A i \in 1 .. 15 : b[i] = a[i]) /\ (\A i \in 1 .. 6 : b[15 + i] = z[i])
  <2> a \in Seq(Marks) /\ z \in Seq(Marks)
    BY <1>5, <1>7
  <2>1. /\ a \o z \in Seq(Marks) /\ Len(a \o z) = Len(a) + Len(z)
        /\ \A i \in 1 .. Len(a) : (a \o z)[i] = a[i]
        /\ \A i \in 1 .. Len(z) : (a \o z)[Len(a) + i] = z[i]
    BY TwoTexts
  <2>2. Len(a) = 15 /\ Len(z) = 6 /\ 15 + 6 = 21 /\ b = a \o z
    BY <1>5, <1>7
  <2> HIDE DEF b
  <2> QED BY <2>1, <2>2
<1> HIDE DEF b
<1>9. c \in Seq(Marks) /\ Len(c) = 28 /\ (\A i \in 1 .. 21 : c[i] = b[i]) /\ (\A i \in 1 .. 7 : c[21 + i] = p3[i])
  <2> b \in Seq(Marks) /\ p3 \in Seq(Marks)
    BY <1>4, <1>8
  <2>1. /\ b \o p3 \in Seq(Marks) /\ Len(b \o p3) = Len(b) + Len(p3)
        /\ \A i \in 1 .. Len(b) : (b \o p3)[i] = b[i]
        /\ \A i \in 1 .. Len(p3) : (b \o p3)[Len(b) + i] = p3[i]
    BY TwoTexts
  <2>2. Len(b) = 21 /\ Len(p3) = 7 /\ 21 + 7 = 28 /\ c = b \o p3
    BY <1>4, <1>8
  <2> HIDE DEF c
  <2> QED BY <2>1, <2>2
<1> HIDE DEF c
<1>10. SentenceAt(c, 0, m1)
  <2>1. \A i \in 1 .. 8 : i \in 1 .. 15 /\ i \in 1 .. 21 /\ 0 + i = i
    OBVIOUS
  <2>2. ASSUME NEW i \in 1 .. 8 PROVE c[0 + i] = p1[i]
    <3>1. c[i] = b[i] /\ b[i] = a[i] /\ a[i] = p1[i]
      BY <1>7, <1>8, <1>9, <2>1
    <3> QED BY <2>1, <3>1
  <2>3. \A i \in 1 .. Len(m1) + 6 : c[0 + i] = Message2NMEA(m1)[i]
    BY <1>1, <2>2 DEF p1
  <2> QED BY <1>1, <2>3, SentenceMoves
<1>11. SentenceAt(c, 8, m2)
  <2>1. \A i \in 1 .. 7 : 8 + i \in 1 .. 15 /\ 8 + i \in 1 .. 21
    OBVIOUS
  <2>2. ASSUME NEW i \in 1 .. 7 PROVE c[8 + i] = p2[i]
    <3>1. c[8 + i] = b[8 + i]
      BY <1>9, <2>1
    <3>2. b[8 + i] = a[8 + i]
      BY <1>8, <2>1
    <3> QED BY <1>7, <3>1, <3>2
  <2>3. \A i \in 1 .. Len(m2) + 6 : c[8 + i] = Message2NMEA(m2)[i]
    BY <1>1, <2>2 DEF p2
  <2> QED BY <1>1, <2>3, SentenceMoves
<1>12. SentenceAt(c, 21, m3)
  <2>1. \A i \in 1 .. Len(m3) + 6 : c[21 + i] = Message2NMEA(m3)[i]
    <3>1. \A i \in 1 .. 7 : c[21 + i] = p3[i]
      BY <1>9
    <3>2. Len(m3) + 6 = 7
      BY <1>1
    <3> QED BY <3>1, <3>2 DEF p3
  <2> QED BY <1>1, <2>1, SentenceMoves
<1>13. ASSUME NEW i \in 16 .. 21 PROVE c[i] = "#"
  <2>1. i \in 1 .. 21 /\ i - 15 \in 1 .. 6 /\ 15 + (i - 15) = i
    OBVIOUS
  <2>2. c[i] = b[i]
    BY <1>9, <2>1
  <2>3. b[15 + (i - 15)] = z[i - 15] /\ z[i - 15] = "#"
    BY <1>5, <1>8, <2>1
  <2> QED BY <2>1, <2>2, <2>3
<1> QED BY <1>6, <1>9, <1>10, <1>11, <1>12, <1>13 DEF m1, m2, m3

\* The device's stream byte by byte.
LEMMA BytesAre ==
    /\ Size = 28 /\ \A i \in 1 .. 28 : Byte[i] \in Marks
    /\ Byte[1] = "$" /\ Byte[2] = "m" /\ Byte[3] = "n" /\ Byte[4] = "*" /\ Byte[5] = "0"
    /\ Byte[6] = Mark(<<"m", "n">>) /\ Byte[7] = "\r" /\ Byte[8] = "\n"
    /\ Byte[9] = "$" /\ Byte[10] = "n" /\ Byte[11] = "*" /\ Byte[12] = "0"
    /\ Byte[13] = Mark(<<"n">>) /\ Byte[14] = "\r" /\ Byte[15] = "\n"
    /\ \A i \in 16 .. 21 : Byte[i] = "#"
    /\ Byte[22] = "$" /\ Byte[23] = "m" /\ Byte[24] = "*" /\ Byte[25] = "0"
    /\ Byte[26] = Mark(<<"m">>) /\ Byte[27] = "\r" /\ Byte[28] = "\n"
<1>1. Size = 28
  BY StreamIs DEF Size
<1>2. \A i \in 1 .. 28 : Byte[i] = DeviceStream[i]
  BY <1>1 DEF Byte
<1>3. \A i \in 1 .. 28 : DeviceStream[i] \in Marks
  <2>1. DeviceStream \in Seq(Marks) /\ Len(DeviceStream) = 28
    BY StreamIs
  <2> QED BY <2>1, ElementOfSeq
<1> DEFINE s == DeviceStream
<1>4. /\ s[1] = "$" /\ s[2] = "m" /\ s[3] = "n" /\ s[4] = "*" /\ s[5] = "0"
      /\ s[6] = Mark(<<"m", "n">>) /\ s[7] = "\r" /\ s[8] = "\n"
  <2> DEFINE m == <<"m", "n">>
  <2>1. SentenceAt(s, 0, m)
    BY StreamIs
  <2>2. Len(m) = 2 /\ m[1] = "m" /\ m[2] = "n"
    OBVIOUS
  <2> HIDE DEF s, m
  <2>3. 1 \in 1 .. 2 /\ 2 \in 1 .. 2 /\ 0 + (1 + 1) = 2 /\ 0 + (2 + 1) = 3
    OBVIOUS
  <2>4. /\ s[0 + 1] = "$" /\ (\A i \in 1 .. 2 : s[0 + (i + 1)] = m[i])
        /\ s[0 + (2 + 2)] = "*" /\ s[0 + (2 + 3)] = "0" /\ s[0 + (2 + 4)] = Mark(m)
        /\ s[0 + (2 + 5)] = "\r" /\ s[0 + (2 + 6)] = "\n"
    BY <2>1, <2>2 DEF SentenceAt
  <2>5. s[2] = m[1] /\ s[3] = m[2]
    BY <2>3, <2>4
  <2> QED BY <2>2, <2>4, <2>5 DEF m
<1>5. /\ s[9] = "$" /\ s[10] = "n" /\ s[11] = "*" /\ s[12] = "0"
      /\ s[13] = Mark(<<"n">>) /\ s[14] = "\r" /\ s[15] = "\n"
  <2> DEFINE m == <<"n">>
  <2>1. SentenceAt(s, 8, m)
    BY StreamIs
  <2>2. Len(m) = 1 /\ m[1] = "n"
    OBVIOUS
  <2> HIDE DEF s, m
  <2>3. 1 \in 1 .. 1 /\ 8 + (1 + 1) = 10
    OBVIOUS
  <2>4. /\ s[8 + 1] = "$" /\ (\A i \in 1 .. 1 : s[8 + (i + 1)] = m[i])
        /\ s[8 + (1 + 2)] = "*" /\ s[8 + (1 + 3)] = "0" /\ s[8 + (1 + 4)] = Mark(m)
        /\ s[8 + (1 + 5)] = "\r" /\ s[8 + (1 + 6)] = "\n"
    BY <2>1, <2>2 DEF SentenceAt
  <2>5. s[10] = m[1]
    BY <2>3, <2>4
  <2> QED BY <2>2, <2>4, <2>5 DEF m
<1>6. /\ s[22] = "$" /\ s[23] = "m" /\ s[24] = "*" /\ s[25] = "0"
      /\ s[26] = Mark(<<"m">>) /\ s[27] = "\r" /\ s[28] = "\n"
  <2> DEFINE m == <<"m">>
  <2>1. SentenceAt(s, 21, m)
    BY StreamIs
  <2>2. Len(m) = 1 /\ m[1] = "m"
    OBVIOUS
  <2> HIDE DEF s, m
  <2>3. 1 \in 1 .. 1 /\ 21 + (1 + 1) = 23
    OBVIOUS
  <2>4. /\ s[21 + 1] = "$" /\ (\A i \in 1 .. 1 : s[21 + (i + 1)] = m[i])
        /\ s[21 + (1 + 2)] = "*" /\ s[21 + (1 + 3)] = "0" /\ s[21 + (1 + 4)] = Mark(m)
        /\ s[21 + (1 + 5)] = "\r" /\ s[21 + (1 + 6)] = "\n"
    BY <2>1, <2>2 DEF SentenceAt
  <2>5. s[23] = m[1]
    BY <2>3, <2>4
  <2> QED BY <2>2, <2>4, <2>5 DEF m
<1>7. \A i \in 16 .. 21 : s[i] = "#"
  BY StreamIs
<1> HIDE DEF s
<1>8. \A i \in 1 .. 28 : Byte[i] = s[i] /\ s[i] \in Marks
  BY <1>2, <1>3 DEF s
<1> QED BY <1>1, <1>4, <1>5, <1>6, <1>7, <1>8

\* A sentence behind a line feeds and noise, and a terminator behind it.
Enclosed(w, a, d, msg) ==
    /\ a < d /\ Len(w) = d + Len(msg) + 4
    /\ \A i \in 1 .. a : w[i] = "\n"
    /\ \A i \in a + 1 .. d - 1 : w[i] = "#"
    /\ w[d] = "$" /\ \A i \in 1 .. Len(msg) : w[d + i] = msg[i]
    /\ w[d + Len(msg) + 1] = "*" /\ w[d + Len(msg) + 2] = "0"
    /\ w[d + Len(msg) + 3] = Mark(msg) /\ w[d + Len(msg) + 4] = "\r"

LEMMA TextChecks ==
    ASSUME NEW w \in Seq(Marks), NEW a \in Nat, NEW d \in Nat, NEW msg \in Seq({"m", "n"}),
           Enclosed(w, a, d, msg)
    PROVE  DoNMEACheckSum(MOOSRemoveChars(w, {"\r", "\n"}))
<1> DEFINE n == Len(msg)
           k == d + n + 3
           C == {"\r", "\n"}
           s == SubSeq(w, a + 1, k)
<1> USE DEF Enclosed
<1>1. n \in Nat /\ Len(w) = k + 1 /\ k \in Nat /\ d + n + 4 = k + 1 /\ a < d
  OBVIOUS
<1>2. ASSUME NEW i \in 1 .. n PROVE msg[i] = "m" \/ msg[i] = "n"
  OBVIOUS
<1>3. Mark(msg) \in {"0", "2", "8", "A"}
  BY MarkIs
<1>4. ASSUME NEW i \in 1 .. Len(w) PROVE w[i] \in C <=> ~(a < i /\ i <= k)
  <2>1. CASE i <= a
    BY <1>1, <2>1
  <2>2. CASE a < i /\ i < d
    BY <1>1, <2>2
  <2>3. CASE i = d
    BY <1>1, <2>3
  <2>4. CASE d < i /\ i <= d + n
    <3>1. i - d \in 1 .. n /\ d + (i - d) = i
      BY <1>1, <2>4
    <3>2. w[i] = msg[i - d]
      BY <3>1
    <3>3. w[i] = "m" \/ w[i] = "n"
      BY <1>2, <3>1, <3>2
    <3>4. a < i /\ i <= k
      BY <1>1, <2>4
    <3> QED BY <3>3, <3>4
  <2>5. CASE i = d + n + 1 \/ i = d + n + 2
    BY <1>1, <2>5
  <2>6. CASE i = d + n + 3
    BY <1>1, <1>3, <2>6
  <2>7. CASE i = d + n + 4
    BY <1>1, <2>7
  <2>8. i <= d + n + 4
    BY <1>1
  <2>9. \/ i <= a
        \/ a < i /\ i < d
        \/ i = d
        \/ d < i /\ i <= d + n
        \/ i = d + n + 1 \/ i = d + n + 2 \/ i = d + n + 3 \/ i = d + n + 4
    <3> HIDE DEF k, n
    <3> QED BY <1>1, <2>8
  <2> HIDE DEF k, C
  <2> QED BY <2>1, <2>2, <2>3, <2>4, <2>5, <2>6, <2>7, <2>9
<1>5. MOOSRemoveChars(w, C) = s
  <2>1. a <= k /\ k <= Len(w)
    BY <1>1
  <2>2. \A i \in 1 .. Len(w) : w[i] \in C <=> ~(a < i /\ i <= k)
    BY <1>4
  <2> HIDE DEF C, k, Enclosed
  <2> QED BY <1>1, <2>1, <2>2, TrimmedEnds
<1>6. s \in Seq(Marks) /\ Len(s) = k - a /\ \A j \in 1 .. k - a : s[j] = w[a + j]
  BY <1>1, SubSeqProperties
<1> DEFINE e == d - a
<1>7. e \in 1 .. Len(s) /\ e \in Nat /\ k - a = e + n + 3
  BY <1>1, <1>6
<1> HIDE DEF s
<1>8. \A i \in 1 .. e - 1 : s[i] # "$"
  <2> TAKE i \in 1 .. e - 1
  <2>1. i \in 1 .. k - a /\ a + i \in a + 1 .. d - 1
    BY <1>1, <1>7
  <2> QED BY <1>6, <2>1
<1>9. s[e] = "$"
  <2>1. e \in 1 .. k - a /\ a + e = d
    BY <1>1, <1>7
  <2> QED BY <1>6, <2>1
<1>10. \A i \in 1 .. n : s[e + i] = msg[i] /\ msg[i] # "*"
  <2> TAKE i \in 1 .. n
  <2>1. e + i \in 1 .. k - a /\ a + (e + i) = d + i
    BY <1>1, <1>7
  <2>2. s[e + i] = w[d + i] /\ w[d + i] = msg[i]
    BY <1>6, <2>1
  <2>3. msg[i] # "*"
    BY <1>2
  <2> QED BY <2>2, <2>3
<1>11. s[e + n + 1] = "*" /\ s[e + n + 2] = "0" /\ s[e + n + 3] = Mark(msg)
  <2>1. /\ e + n + 1 \in 1 .. k - a /\ a + (e + n + 1) = d + n + 1
        /\ e + n + 2 \in 1 .. k - a /\ a + (e + n + 2) = d + n + 2
        /\ e + n + 3 \in 1 .. k - a /\ a + (e + n + 3) = d + n + 3
    BY <1>1, <1>7
  <2> QED BY <1>6, <2>1
<1>12. msg \in Seq(Marks)
  <2>1. \A i \in 1 .. n : msg[i] \in Marks
    BY <1>2 DEF Marks
  <2> QED BY <1>1, <2>1
<1>13. Len(s) = e + n + 3
  BY <1>6, <1>7
<1> HIDE DEF e
<1>14. DoNMEACheckSum(s)
  BY <1>6, <1>7, <1>8, <1>9, <1>10, <1>11, <1>12, <1>13, SentenceChecks
<1> QED BY <1>5, <1>14

LEMMA TerminatorsAre == Terminators = {7, 14, 27}
<1>1. ASSUME NEW i \in 1 .. 28 PROVE Byte[i] = "\r" <=> i \in {7, 14, 27}
  <2>1. /\ Mark(<<"m", "n">>) # "\r" /\ Mark(<<"n">>) # "\r" /\ Mark(<<"m">>) # "\r"
    <3>1. \A c \in {"0", "2", "8", "A"} : c # "\r"
      OBVIOUS
    <3> QED BY <3>1, MarkIs
  <2>2. CASE i \in 1 .. 8
    BY <2>1, <2>2, BytesAre
  <2>3. CASE i \in 9 .. 15
    BY <2>1, <2>3, BytesAre
  <2>4. CASE i \in 16 .. 21
    BY <2>4, BytesAre
  <2>5. CASE i \in 22 .. 28
    BY <2>1, <2>5, BytesAre
  <2> QED BY <2>2, <2>3, <2>4, <2>5
<1>2. Size = 28
  BY BytesAre
<1> QED BY <1>1, <1>2 DEF Terminators, GetTermCharacter

\* A run of bytes, and a telegram.
RunFrom(s, b) == \A i \in 1 .. Len(s) : s[i] = b + i
Endless(s) == \A i \in 1 .. Len(s) : s[i] \notin Terminators
IsTelegram(t) ==
    /\ t \in Seq(Nat) /\ Len(t) > 0 /\ RunFrom(t, t[1] - 1) /\ t[Len(t)] \in Terminators
    /\ \A i \in 1 .. Len(t) - 1 : t[i] \notin Terminators

LEMMA TelegramChecks ==
    ASSUME NEW t, IsTelegram(t), t[1] - 1 \in Terminators \cup {0}
    PROVE  DoNMEACheckSum(Text(t))
<1> DEFINE p == t[1] - 1
           w == [i \in 1 .. Len(t) |-> Byte[t[i]]]
<1>1. /\ t \in Seq(Nat) /\ Len(t) \in Nat /\ Len(t) > 0 /\ \A i \in 1 .. Len(t) : t[i] = p + i
      /\ p + Len(t) \in {7, 14, 27} /\ p \in {0, 7, 14, 27}
      /\ \A i \in 1 .. Len(t) - 1 : p + i \notin {7, 14, 27}
  <2>1. \A i \in 1 .. Len(t) : t[i] = p + i
    BY DEF IsTelegram, RunFrom
  <2>2. t \in Seq(Nat) /\ Len(t) \in Nat /\ Len(t) > 0 /\ t[Len(t)] \in {7, 14, 27}
        /\ \A i \in 1 .. Len(t) - 1 : t[i] \notin {7, 14, 27}
    BY TerminatorsAre DEF IsTelegram
  <2>3. p \in {0, 7, 14, 27}
    BY TerminatorsAre
  <2> HIDE DEF p
  <2>4. Len(t) \in 1 .. Len(t) /\ \A i \in 1 .. Len(t) - 1 : i \in 1 .. Len(t)
    BY <2>2
  <2> QED BY <2>1, <2>2, <2>3, <2>4
<1>2. Text(t) = MOOSRemoveChars(w, {"\r", "\n"})
  BY DEF Text
<1> HIDE DEF p
<1>3. \/ p = 0 /\ Len(t) = 7
      \/ p = 7 /\ Len(t) = 7
      \/ p = 14 /\ Len(t) = 13
  <2> DEFINE n == Len(t)
  <2>1. n \in Nat /\ n > 0 /\ p + n \in {7, 14, 27} /\ p \in {0, 7, 14, 27}
    BY <1>1
  <2>2. \A i \in 1 .. n - 1 : p + i \notin {7, 14, 27}
    BY <1>1
  <2> HIDE DEF n
  <2>3. p \in {0, 7} /\ n > 7 => p + 7 \notin {7, 14, 27}
    <3>1. n > 7 => 7 \in 1 .. n - 1
      BY <2>1
    <3> QED BY <2>2, <3>1
  <2>4. \/ p = 0 /\ n = 7
        \/ p = 7 /\ n = 7
        \/ p = 14 /\ n = 13
    BY <2>1, <2>3
  <2> QED BY <2>4 DEF n
<1>4. \A i \in 1 .. Len(t) : w[i] = Byte[p + i]
  BY <1>1
<1>5. w \in Seq(Marks) /\ Len(w) = Len(t)
  <2>1. ASSUME NEW i \in 1 .. Len(t) PROVE Byte[p + i] \in Marks
    <3>1. p + i \in 1 .. 28
      BY <1>1, <1>3
    <3> QED BY <3>1, BytesAre
  <2>2. \A i \in 1 .. Len(t) : Byte[t[i]] \in Marks
    BY <1>1, <2>1
  <2> QED BY <1>1, <2>2
<1> HIDE DEF w
<1>6. CASE p = 0 /\ Len(t) = 7
  <2> DEFINE m == <<"m", "n">>
  <2>1. m \in Seq({"m", "n"}) /\ Len(m) = 2 /\ m[1] = "m" /\ m[2] = "n"
    OBVIOUS
  <2>2. \A i \in 1 .. 7 : w[i] = Byte[i]
    BY <1>4, <1>6
  <2>3. /\ w[1] = "$" /\ w[2] = "m" /\ w[3] = "n" /\ w[4] = "*" /\ w[5] = "0"
        /\ w[6] = Mark(m) /\ w[7] = "\r"
    BY <2>2, BytesAre
  <2> HIDE DEF m
  <2>4. \A i \in 1 .. Len(m) : w[1 + i] = m[i]
    BY <2>1, <2>3
  <2>5. /\ w[1 + Len(m) + 1] = "*" /\ w[1 + Len(m) + 2] = "0"
        /\ w[1 + Len(m) + 3] = Mark(m) /\ w[1 + Len(m) + 4] = "\r" /\ Len(w) = 1 + Len(m) + 4
    BY <1>5, <1>6, <2>1, <2>3
  <2>6. (\A i \in 1 .. 0 : w[i] = "\n") /\ (\A i \in 0 + 1 .. 1 - 1 : w[i] = "#")
    OBVIOUS
  <2>7. Enclosed(w, 0, 1, m)
    BY <2>3, <2>4, <2>5, <2>6 DEF Enclosed
  <2>8. DoNMEACheckSum(MOOSRemoveChars(w, {"\r", "\n"}))
    BY <1>5, <2>1, <2>7, TextChecks
  <2> QED BY <1>2, <2>8
<1>7. CASE p = 7 /\ Len(t) = 7
  <2> DEFINE m == <<"n">>
  <2>1. m \in Seq({"m", "n"}) /\ Len(m) = 1 /\ m[1] = "n"
    OBVIOUS
  <2>2. \A i \in 1 .. 7 : w[i] = Byte[7 + i]
    BY <1>4, <1>7
  <2>3. /\ w[1] = "\n" /\ w[2] = "$" /\ w[3] = "n" /\ w[4] = "*" /\ w[5] = "0"
        /\ w[6] = Mark(m) /\ w[7] = "\r"
    BY <2>2, BytesAre
  <2> HIDE DEF m
  <2>4. \A i \in 1 .. Len(m) : w[2 + i] = m[i]
    BY <2>1, <2>3
  <2>5. /\ w[2 + Len(m) + 1] = "*" /\ w[2 + Len(m) + 2] = "0"
        /\ w[2 + Len(m) + 3] = Mark(m) /\ w[2 + Len(m) + 4] = "\r" /\ Len(w) = 2 + Len(m) + 4
    BY <1>5, <1>7, <2>1, <2>3
  <2>6. (\A i \in 1 .. 1 : w[i] = "\n") /\ (\A i \in 1 + 1 .. 2 - 1 : w[i] = "#")
    BY <2>3
  <2>7. Enclosed(w, 1, 2, m)
    BY <2>3, <2>4, <2>5, <2>6 DEF Enclosed
  <2>8. DoNMEACheckSum(MOOSRemoveChars(w, {"\r", "\n"}))
    BY <1>5, <2>1, <2>7, TextChecks
  <2> QED BY <1>2, <2>8
<1>8. CASE p = 14 /\ Len(t) = 13
  <2> DEFINE m == <<"m">>
  <2>1. m \in Seq({"m", "n"}) /\ Len(m) = 1 /\ m[1] = "m"
    OBVIOUS
  <2>2. \A i \in 1 .. 13 : w[i] = Byte[14 + i]
    BY <1>4, <1>8
  <2>3. /\ w[1] = "\n" /\ w[8] = "$" /\ w[9] = "m" /\ w[10] = "*" /\ w[11] = "0"
        /\ w[12] = Mark(m) /\ w[13] = "\r"
    BY <2>2, BytesAre
  <2>4. \A i \in 2 .. 7 : w[i] = "#"
    <3> TAKE i \in 2 .. 7
    <3>1. i \in 1 .. 13 /\ 14 + i \in 16 .. 21
      OBVIOUS
    <3> QED BY <2>2, <3>1, BytesAre
  <2> HIDE DEF m
  <2>5. \A i \in 1 .. Len(m) : w[8 + i] = m[i]
    BY <2>1, <2>3
  <2>6. /\ w[8 + Len(m) + 1] = "*" /\ w[8 + Len(m) + 2] = "0"
        /\ w[8 + Len(m) + 3] = Mark(m) /\ w[8 + Len(m) + 4] = "\r" /\ Len(w) = 8 + Len(m) + 4
    BY <1>5, <1>8, <2>1, <2>3
  <2>7. (\A i \in 1 .. 1 : w[i] = "\n") /\ (\A i \in 1 + 1 .. 8 - 1 : w[i] = "#")
    BY <2>3, <2>4
  <2>8. Enclosed(w, 1, 8, m)
    BY <2>3, <2>5, <2>6, <2>7 DEF Enclosed
  <2>9. DoNMEACheckSum(MOOSRemoveChars(w, {"\r", "\n"}))
    BY <1>5, <2>1, <2>8, TextChecks
  <2> QED BY <1>2, <2>9
<1> QED BY <1>3, <1>6, <1>7, <1>8

\* The loop over the accumulator, byte by byte.
Cuts(f, acc, box, n) ==
    f = [k \in 0 .. n |-> IF k = 0 THEN [box |-> box, off |-> 0]
                          ELSE IF acc[k] \in Terminators THEN Stuff(f[k - 1], acc, k) ELSE f[k - 1]]

LEMMA CutsExist ==
    ASSUME NEW acc, NEW box, NEW n \in Nat
    PROVE  \E f : Cuts(f, acc, box, n)
<1> DEFINE Next(c, k) == IF acc[k] \in Terminators THEN Stuff(c, acc, k) ELSE c
           S == {j \in Nat : \E f : Cuts(f, acc, box, j)}
<1>1. 0 \in S
  <2>1. Cuts([k \in 0 .. 0 |-> [box |-> box, off |-> 0]], acc, box, 0)
    BY DEF Cuts
  <2> QED BY <2>1
<1>2. ASSUME NEW j \in Nat, j \in S PROVE j + 1 \in S
  <2>1. PICK f : Cuts(f, acc, box, j)
    BY <1>2
  <2> DEFINE h == [k \in 0 .. (j + 1) |-> IF k = j + 1 THEN Next(f[j], j + 1) ELSE f[k]]
  <2>2. \A k \in 0 .. j : f[k] = IF k = 0 THEN [box |-> box, off |-> 0] ELSE Next(f[k - 1], k)
    BY <2>1 DEF Cuts
  <2>3. ASSUME NEW k \in 0 .. (j + 1)
        PROVE  h[k] = IF k = 0 THEN [box |-> box, off |-> 0] ELSE Next(h[k - 1], k)
    <3> HIDE DEF Next
    <3>1. \A i \in 0 .. j : h[i] = f[i]
      OBVIOUS
    <3>2. h[j + 1] = Next(f[j], j + 1)
      OBVIOUS
    <3> HIDE DEF h
    <3>3. CASE k \in 0 .. j
      <4>1. k # 0 => k - 1 \in 0 .. j
        BY <3>3
      <4> QED BY <2>2, <3>1, <3>3, <4>1 DEF Next
    <3>4. CASE k = j + 1
      <4>1. k # 0 /\ k - 1 = j /\ j \in 0 .. j
        BY <3>4
      <4> QED BY <3>1, <3>2, <3>4, <4>1
    <3> QED BY <3>3, <3>4
  <2>4. h = [k \in 0 .. (j + 1) |-> h[k]]
    OBVIOUS
  <2>5. Cuts(h, acc, box, j + 1)
    <3> HIDE DEF h
    <3> QED BY <2>3, <2>4 DEF Cuts
  <2> QED BY <2>5
<1> HIDE DEF S
<1>3. Nat \subseteq S
  BY <1>1, <1>2, NatSetInduction
<1> QED BY <1>3 DEF S

\* An inbox of telegrams, newest first, that begin at b or before.
Inbox(box, b) ==
    /\ box \in Seq(Seq(Nat))
    /\ \A i \in 1 .. Len(box) : IsTelegram(box[i]) /\ box[i][1] <= b
    /\ \A i, j \in 1 .. Len(box) : i < j => box[i][1] > box[j][1]

\* What has been cut off the first k bytes of acc, which begins behind byte b of the stream.
IsCut(c, acc, b, k) ==
    /\ c.off \in 0 .. k /\ (c.off = 0 \/ acc[c.off] \in Terminators)
    /\ \A i \in c.off + 1 .. k : acc[i] \notin Terminators
    /\ Inbox(c.box, b + c.off)

LEMMA InboxGrows ==
    ASSUME NEW box, NEW b \in Nat, Inbox(box, b), NEW t, IsTelegram(t), t[1] > b, NEW e \in Nat, t[1] <= e
    PROVE  Inbox(<<t>> \o box, e)
<1> DEFINE n == Len(box)
           q == <<t>> \o box
<1>1. box \in Seq(Seq(Nat)) /\ n \in Nat /\ t \in Seq(Nat) /\ <<t>> \in Seq(Seq(Nat)) /\ t[1] \in Nat
  BY DEF Inbox, IsTelegram
<1>2. /\ q \in Seq(Seq(Nat)) /\ Len(q) = n + 1 /\ q[1] = t
      /\ \A i \in 1 .. n : q[1 + i] = box[i]
  <2> <<t>> \in Seq(Seq(Nat)) /\ box \in Seq(Seq(Nat))
    BY <1>1
  <2>1. /\ q \in Seq(Seq(Nat)) /\ Len(q) = Len(<<t>>) + Len(box)
        /\ \A i \in 1 .. Len(<<t>>) : q[i] = <<t>>[i]
        /\ \A i \in 1 .. Len(box) : q[Len(<<t>>) + i] = box[i]
    BY TwoTexts
  <2> DEFINE h == <<t>>
  <2>2. Len(h) = 1 /\ h[1] = t /\ 1 \in 1 .. 1
    OBVIOUS
  <2> HIDE DEF q, h
  <2>3. Len(q) = Len(h) + Len(box) /\ q[1] = h[1] /\ \A i \in 1 .. Len(box) : q[1 + i] = box[i]
    BY <2>1, <2>2 DEF h
  <2>4. 1 + n = n + 1
    BY <1>1
  <2> QED BY <2>1, <2>2, <2>3, <2>4
<1> HIDE DEF q, n
<1>3. ASSUME NEW i \in 1 .. n PROVE IsTelegram(box[i]) /\ box[i][1] <= b /\ box[i][1] \in Nat
  <2>1. IsTelegram(box[i]) /\ box[i][1] <= b
    BY DEF Inbox, n
  <2>2. box[i] \in Seq(Nat) /\ Len(box[i]) > 0
    BY <2>1 DEF IsTelegram
  <2> QED BY <2>1, <2>2
<1>4. \A i \in 2 .. n + 1 : q[i] = box[i - 1] /\ i - 1 \in 1 .. n
  <2> TAKE i \in 2 .. n + 1
  <2>1. i - 1 \in 1 .. n /\ 1 + (i - 1) = i
    BY <1>1
  <2> QED BY <1>2, <2>1
<1>5. \A i \in 1 .. n + 1 : i = 1 \/ i \in 2 .. n + 1
  BY <1>1
<1>6. ASSUME NEW i \in 1 .. n + 1 PROVE IsTelegram(q[i]) /\ q[i][1] <= e
  <2>1. CASE i = 1
    BY <1>2, <2>1
  <2>2. CASE i \in 2 .. n + 1
    <3>1. IsTelegram(q[i]) /\ q[i][1] <= b /\ q[i][1] \in Nat
      BY <1>3, <1>4, <2>2
    <3>2. b <= e
      BY <1>1
    <3> QED BY <3>1, <3>2
  <2> QED BY <1>5, <2>1, <2>2
<1>7. ASSUME NEW i \in 1 .. n + 1, NEW j \in 1 .. n + 1, i < j PROVE q[i][1] > q[j][1]
  <2>1. j \in 2 .. n + 1
    BY <1>1, <1>7
  <2>2. q[j] = box[j - 1] /\ j - 1 \in 1 .. n
    BY <1>4, <2>1
  <2>3. CASE i = 1
    <3>1. q[j][1] <= b /\ q[j][1] \in Nat /\ q[i][1] = t[1]
      BY <1>2, <1>3, <2>2, <2>3
    <3> QED BY <1>1, <3>1
  <2>4. CASE i \in 2 .. n + 1
    <3>1. q[i] = box[i - 1] /\ i - 1 \in 1 .. n /\ i - 1 < j - 1
      BY <1>1, <1>4, <1>7, <2>1, <2>4
    <3>2. box[i - 1][1] > box[j - 1][1]
      BY <2>2, <3>1 DEF Inbox, n
    <3> QED BY <2>2, <3>1, <3>2
  <2> QED BY <1>5, <2>3, <2>4
<1>8. Inbox(q, e)
  BY <1>2, <1>6, <1>7 DEF Inbox
<1> QED BY <1>8 DEF q

LEMMA StuffKeeps ==
    ASSUME NEW acc \in Seq(Nat), NEW b \in Nat, RunFrom(acc, b), NEW k \in Nat, k + 1 <= Len(acc),
           NEW c, IsCut(c, acc, b, k), acc[k + 1] \in Terminators
    PROVE  IsCut(Stuff(c, acc, k + 1), acc, b, k + 1)
<1> DEFINE o == c.off
           t == SubSeq(acc, o + 1, k + 1)
           d == Stuff(c, acc, k + 1)
<1>1. o \in Nat /\ o <= k /\ Len(acc) \in Nat
  BY DEF IsCut
<1>2. d.off = k + 1 /\ d.box = <<t>> \o c.box
  BY DEF Stuff
<1>3. (\A i \in o + 1 .. k : acc[i] \notin Terminators) /\ Inbox(c.box, b + o)
  BY DEF IsCut
<1> HIDE DEF o, d
<1>4. /\ t \in Seq(Nat) /\ Len(t) = k + 1 - o
      /\ \A i \in 1 .. k + 1 - o : t[i] = acc[o + i]
  BY <1>1, SubSeqProperties
<1> HIDE DEF t
<1>5. \A i \in 1 .. k + 1 - o : t[i] = b + o + i
  <2> TAKE i \in 1 .. k + 1 - o
  <2>1. o + i \in 1 .. Len(acc)
    BY <1>1
  <2>2. acc[o + i] = b + (o + i)
    BY <2>1 DEF RunFrom
  <2> QED BY <1>1, <1>4, <2>2
<1>6. t[1] = b + o + 1 /\ Len(t) > 0
  BY <1>1, <1>4, <1>5
<1>7. IsTelegram(t)
  <2>1. RunFrom(t, t[1] - 1)
    BY <1>1, <1>4, <1>5, <1>6 DEF RunFrom
  <2>2. t[Len(t)] \in Terminators
    <3>1. k + 1 - o \in 1 .. k + 1 - o /\ o + (k + 1 - o) = k + 1
      BY <1>1
    <3> QED BY <1>4, <3>1
  <2>3. ASSUME NEW i \in 1 .. Len(t) - 1 PROVE t[i] \notin Terminators
    <3>0. Len(t) = k + 1 - o
      BY <1>4
    <3>1. Len(t) - 1 = k - o /\ k - o \in Nat
      BY <1>1, <3>0
    <3>2. i \in 1 .. k - o
      BY <3>1
    <3>3. i \in 1 .. k + 1 - o /\ o + i \in o + 1 .. k
      BY <1>1, <3>2
    <3> QED BY <1>3, <1>4, <3>3
  <2> QED BY <1>4, <1>6, <2>1, <2>2, <2>3 DEF IsTelegram
<1>8. Inbox(<<t>> \o c.box, b + (k + 1))
  <2>1. b + o \in Nat /\ b + (k + 1) \in Nat /\ t[1] > b + o /\ t[1] <= b + (k + 1)
    BY <1>1, <1>6
  <2> QED BY <1>3, <1>7, <2>1, InboxGrows
<1>9. k + 1 \in 0 .. k + 1 /\ \A i \in k + 1 + 1 .. k + 1 : FALSE
  OBVIOUS
<1>10. IsCut(d, acc, b, k + 1)
  BY <1>2, <1>8, <1>9 DEF IsCut
<1> QED BY <1>10 DEF d

\* Whatever is in the accumulator, what is put into the inbox is telegrams, newest first, and
\* what stays begins behind the last of them and has no terminator.
LEMMA TelegramsAreCut ==
    ASSUME NEW acc \in Seq(Nat), NEW b \in Nat, RunFrom(acc, b), NEW box, Inbox(box, b)
    PROVE  IsCut(Telegrams(acc, box), acc, b, Len(acc))
<1> DEFINE n == Len(acc)
           P(f) == Cuts(f, acc, box, n)
           F == CHOOSE f : P(f)
           S == {k \in Nat : k <= n => IsCut(F[k], acc, b, k)}
<1>1. n \in Nat
  OBVIOUS
<1>2. Telegrams(acc, box) = F[n]
  BY DEF Telegrams, Cuts
<1>3. \E f : P(f)
  BY <1>1, CutsExist
<1> HIDE DEF P, F
<1>4. P(F)
  BY <1>3 DEF F
<1>5. \A k \in 0 .. n : F[k] = IF k = 0 THEN [box |-> box, off |-> 0]
                               ELSE IF acc[k] \in Terminators THEN Stuff(F[k - 1], acc, k) ELSE F[k - 1]
  BY <1>4 DEF P, Cuts
<1>6. 0 \in S
  <2>1. 0 \in 0 .. n
    BY <1>1
  <2>2. F[0] = [box |-> box, off |-> 0]
    BY <1>5, <2>1
  <2>3. F[0].off = 0 /\ F[0].box = box
    BY <2>2
  <2>4. b + 0 = b /\ 0 \in 0 .. 0 /\ \A i \in 0 + 1 .. 0 : FALSE
    OBVIOUS
  <2>5. IsCut(F[0], acc, b, 0)
    BY <2>3, <2>4 DEF IsCut
  <2> QED BY <2>5
<1>7. ASSUME NEW k \in Nat, k \in S PROVE k + 1 \in S
  <2> SUFFICES ASSUME k + 1 <= n PROVE IsCut(F[k + 1], acc, b, k + 1)
    OBVIOUS
  <2>1. k + 1 \in 0 .. n /\ k + 1 # 0 /\ (k + 1) - 1 = k /\ k <= n
    BY <1>1
  <2>2. IsCut(F[k], acc, b, k)
    BY <1>7, <2>1
  <2>3. CASE acc[k + 1] \in Terminators
    <3>1. F[k + 1] = Stuff(F[k], acc, k + 1)
      BY <1>5, <2>1, <2>3
    <3>2. IsCut(Stuff(F[k], acc, k + 1), acc, b, k + 1)
      BY <2>2, <2>3, StuffKeeps
    <3> QED BY <3>1, <3>2
  <2>4. CASE acc[k + 1] \notin Terminators
    <3>1. F[k + 1] = F[k]
      BY <1>5, <2>1, <2>4
    <3> DEFINE o == F[k].off
    <3>2. o \in 0 .. k /\ (\A i \in o + 1 .. k : acc[i] \notin Terminators)
      BY <2>2 DEF IsCut
    <3>3. o \in 0 .. k + 1 /\ \A i \in o + 1 .. k + 1 : i \in o + 1 .. k \/ i = k + 1
      BY <3>2
    <3>4. \A i \in o + 1 .. k + 1 : acc[i] \notin Terminators
      BY <2>4, <3>2, <3>3
    <3> QED BY <2>2, <3>1, <3>3, <3>4 DEF IsCut
  <2> QED BY <2>3, <2>4
<1> HIDE DEF S
<1>8. Nat \subseteq S
  BY <1>6, <1>7, NatSetInduction
<1>9. IsCut(F[n], acc, b, n)
  BY <1>1, <1>8 DEF S
<1> QED BY <1>2, <1>9

LEMMA RunsJoin ==
    ASSUME NEW s \in Seq(Nat), NEW t \in Seq(Nat), NEW b \in Nat, RunFrom(s, b), RunFrom(t, b + Len(s))
    PROVE  s \o t \in Seq(Nat) /\ Len(s \o t) = Len(s) + Len(t) /\ RunFrom(s \o t, b)
<1>1. /\ s \o t \in Seq(Nat) /\ Len(s \o t) = Len(s) + Len(t)
      /\ \A i \in 1 .. Len(s) : (s \o t)[i] = s[i]
      /\ \A i \in 1 .. Len(t) : (s \o t)[Len(s) + i] = t[i]
  BY TwoTexts
<1>2. Len(s) \in Nat /\ Len(t) \in Nat
  OBVIOUS
<1>3. ASSUME NEW i \in 1 .. Len(s) + Len(t) PROVE (s \o t)[i] = b + i
  <2>1. CASE i \in 1 .. Len(s)
    BY <1>1, <2>1 DEF RunFrom
  <2>2. CASE i > Len(s)
    <3>1. i - Len(s) \in 1 .. Len(t) /\ Len(s) + (i - Len(s)) = i
      BY <1>2, <2>2
    <3>2. t[i - Len(s)] = b + Len(s) + (i - Len(s))
      BY <3>1 DEF RunFrom
    <3>3. b + Len(s) + (i - Len(s)) = b + i
      BY <1>2
    <3> QED BY <1>1, <3>1, <3>2, <3>3
  <2> QED BY <1>2, <2>1, <2>2
<1> QED BY <1>1, <1>3 DEF RunFrom

LEMMA GrabbedIs ==
    ASSUME NEW n \in Nat, spFed \in Nat
    PROVE  Grabbed(n) \in Seq(Nat) /\ Len(Grabbed(n)) = n /\ RunFrom(Grabbed(n), spFed)
BY DEF Grabbed, RunFrom

\* What stays behind the first o bytes of the accumulator.
LEMMA RunBehind ==
    ASSUME NEW s \in Seq(Nat), NEW b \in Nat, RunFrom(s, b), NEW o \in 0 .. Len(s)
    PROVE  From(s, o + 1) \in Seq(Nat) /\ Len(From(s, o + 1)) = Len(s) - o /\ RunFrom(From(s, o + 1), b + o)
<1> DEFINE t == SubSeq(s, o + 1, Len(s))
<1>1. From(s, o + 1) = t
  BY DEF From
<1>2. t \in Seq(Nat) /\ Len(t) = Len(s) - o /\ \A i \in 1 .. Len(s) - o : t[i] = s[o + i]
  <2> DEFINE m == o + 1
             l == Len(s)
  <2>1. m \in Int /\ l \in Int /\ m >= 1 /\ o <= l /\ m = o + 1 /\ o \in Nat /\ l \in Nat
    OBVIOUS
  <2>2. \A i \in m .. l : s[i] \in Nat
    OBVIOUS
  <2> HIDE DEF m, l
  <2>3. /\ SubSeq(s, m, l) \in Seq(Nat) /\ Len(SubSeq(s, m, l)) = IF m <= l THEN l - m + 1 ELSE 0
        /\ \A i \in 1 .. l - m + 1 : SubSeq(s, m, l)[i] = s[m + i - 1]
    BY <2>1, <2>2, SubSeqProperties
  <2>4. /\ (IF m <= l THEN l - m + 1 ELSE 0) = l - o /\ l - m + 1 = l - o
        /\ \A i \in 1 .. l - o : m + i - 1 = o + i
    BY <2>1
  <2>5. /\ SubSeq(s, m, l) \in Seq(Nat) /\ Len(SubSeq(s, m, l)) = l - o
        /\ \A i \in 1 .. l - o : SubSeq(s, m, l)[i] = s[o + i]
    BY <2>3, <2>4
  <2> QED BY <2>5 DEF m, l
<1> HIDE DEF t
<1>3. ASSUME NEW i \in 1 .. Len(s) - o PROVE t[i] = b + o + i
  <2>1. o + i \in 1 .. Len(s)
    OBVIOUS
  <2>2. s[o + i] = b + (o + i)
    BY <2>1 DEF RunFrom
  <2> QED BY <1>2, <2>2
<1> QED BY <1>1, <1>2, <1>3 DEF RunFrom

\* The polled port's byte: it ends a telegram, or nothing has ended one yet.
LEMMA GrabKeeps ==
    ASSUME NEW d \in Seq(Nat), NEW b \in Nat, RunFrom(d, b), Endless(d), spFed = b + Len(d)
    PROVE  /\ Grab(d) \in Seq(Nat) /\ Len(Grab(d)) = Len(d) + 1 /\ RunFrom(Grab(d), b)
           /\ IsCompleteReply(Grab(d)) => IsTelegram(Grab(d)) /\ spFed + 1 \in Terminators
           /\ ~IsCompleteReply(Grab(d)) => Endless(Grab(d))
<1> DEFINE e == Grab(d)
           n == Len(d)
<1>1. n \in Nat /\ spFed \in Nat /\ spFed + 1 = b + (n + 1)
  OBVIOUS
<1>2. e \in Seq(Nat) /\ Len(e) = n + 1 /\ e[n + 1] = spFed + 1 /\ \A i \in 1 .. n : e[i] = d[i]
  BY <1>1 DEF Grab
<1>3. e # <<>>
  BY <1>1, <1>2
<1> HIDE DEF e
<1>4. \A i \in 1 .. n : e[i] = b + i /\ e[i] \notin Terminators
  BY <1>2 DEF RunFrom, Endless
<1> HIDE DEF n
<1>0. \A i \in 1 .. n + 1 : i \in 1 .. n \/ i = n + 1
  BY <1>1
<1>5. \A i \in 1 .. n + 1 : e[i] = b + i
  BY <1>1, <1>2, <1>4, <1>0
<1>6. RunFrom(e, b)
  BY <1>2, <1>5 DEF RunFrom
<1>7. ASSUME IsCompleteReply(e) PROVE IsTelegram(e) /\ spFed + 1 \in Terminators
  <2>1. e[n + 1] \in Terminators
    BY <1>2, <1>7 DEF IsCompleteReply
  <2>2. e[1] - 1 = b
    <3>1. 1 \in 1 .. n + 1
      BY <1>1
    <3> QED BY <1>5, <3>1
  <2>3. (n + 1) - 1 = n /\ n + 1 > 0
    BY <1>1
  <2> QED BY <1>2, <1>4, <1>6, <2>1, <2>2, <2>3 DEF IsTelegram
<1>8. ASSUME ~IsCompleteReply(e) PROVE Endless(e)
  <2>1. e[n + 1] \notin Terminators
    BY <1>2, <1>3, <1>8 DEF IsCompleteReply
  <2>2. \A i \in 1 .. n + 1 : e[i] \notin Terminators
    BY <1>0, <1>4, <2>1
  <2> QED BY <1>2, <2>2 DEF Endless
<1> QED BY <1>2, <1>6, <1>7, <1>8 DEF e, n

\* An inbox without its oldest, without its newest, and seen from further on.
LEMMA InboxIsShortened ==
    ASSUME NEW box, NEW b \in Nat, Inbox(box, b), NEW k \in 0 .. Len(box)
    PROVE  Inbox(SubSeq(box, 1, k), b) /\ Len(SubSeq(box, 1, k)) = k
<1> DEFINE q == SubSeq(box, 1, k)
<1>1. box \in Seq(Seq(Nat)) /\ Len(box) \in Nat
  BY DEF Inbox
<1>2. q \in Seq(Seq(Nat)) /\ Len(q) = k /\ \A i \in 1 .. k : q[i] = box[i]
  BY <1>1, SubSeqProperties
<1> HIDE DEF q
<1>3. \A i \in 1 .. k : i \in 1 .. Len(box)
  BY <1>1
<1>4. /\ \A i \in 1 .. k : IsTelegram(q[i]) /\ q[i][1] <= b
      /\ \A i, j \in 1 .. k : i < j => q[i][1] > q[j][1]
  BY <1>2, <1>3 DEF Inbox
<1> QED BY <1>2, <1>4 DEF Inbox, q

LEMMA InboxIsTailed ==
    ASSUME NEW box, NEW b \in Nat, Inbox(box, b), box # <<>>
    PROVE  Inbox(Tail(box), b) /\ Len(Tail(box)) = Len(box) - 1 /\ IsTelegram(Head(box)) /\ IsTelegram(box[Len(box)])
<1> DEFINE q == Tail(box)
           n == Len(box)
<1>1. box \in Seq(Seq(Nat)) /\ n \in Nat /\ n > 0
  BY DEF Inbox
<1>2. q \in Seq(Seq(Nat)) /\ Len(q) = n - 1 /\ \A i \in 1 .. n - 1 : q[i] = box[i + 1]
  BY <1>1
<1>3. Head(box) = box[1]
  BY <1>1
<1> HIDE DEF q
<1>4. /\ \A i \in 1 .. n : IsTelegram(box[i]) /\ box[i][1] <= b
      /\ \A i, j \in 1 .. n : i < j => box[i][1] > box[j][1]
  BY DEF Inbox
<1> HIDE DEF n
<1>5. 1 \in 1 .. n /\ n \in 1 .. n /\ \A i \in 1 .. n - 1 : i + 1 \in 1 .. n
  BY <1>1
<1>6. \A i, j \in 1 .. n - 1 : i < j => i + 1 < j + 1
  BY <1>1
<1>7. \A i \in 1 .. n - 1 : IsTelegram(q[i]) /\ q[i][1] <= b
  BY <1>2, <1>4, <1>5
<1>8. \A i, j \in 1 .. n - 1 : i < j => q[i][1] > q[j][1]
  BY <1>2, <1>4, <1>5, <1>6
<1>9. Inbox(q, b)
  BY <1>2, <1>7, <1>8 DEF Inbox
<1> QED BY <1>2, <1>3, <1>4, <1>5, <1>9 DEF q, n

LEMMA InboxLater ==
    ASSUME NEW box, NEW b \in Nat, Inbox(box, b), NEW e \in Nat, b <= e
    PROVE  Inbox(box, e)
<1>1. ASSUME NEW i \in 1 .. Len(box) PROVE box[i][1] <= e
  <2>1. box[i][1] <= b /\ IsTelegram(box[i])
    BY DEF Inbox
  <2>2. box[i][1] \in Nat
    BY <2>1 DEF IsTelegram
  <2> QED BY <2>1, <2>2
<1> QED BY <1>1 DEF Inbox

LEMMA NewestIs ==
    ASSUME NEW box, NEW b \in Nat, Inbox(box, b)
    PROVE  Inbox(Newest(box), b) /\ Len(Newest(box)) <= InboxMax
<1> DEFINE k == IF Len(box) > InboxMax THEN InboxMax ELSE Len(box)
<1>1. Len(box) \in Nat
  BY DEF Inbox
<1>2. k \in 0 .. Len(box) /\ k <= InboxMax
  BY <1>1, SerialAssumption
<1>3. Newest(box) = SubSeq(box, 1, k)
  BY DEF Newest
<1> HIDE DEF k
<1> QED BY <1>2, <1>3, InboxIsShortened

\* From byte b of the stream on, what is kept and what has just been read follow one another.
Gathered(b, store, tmp, fed, reset) ==
    /\ store \in Seq(Nat) /\ tmp \in Seq(Nat) /\ fed = b + Len(store) + Len(tmp) /\ reset \in Nat
    /\ RunFrom(store, b) /\ RunFrom(tmp, b + Len(store))
    /\ b \in Terminators \cup {reset}

\* The polled port uses one of its two buffers, and takes a telegram out as soon as it is whole.
Polled(store, tmp) == Endless(store) /\ Endless(tmp) /\ (store = <<>> \/ tmp = <<>>)

\* The inductive invariant.
SPInv ==
    /\ spState = "open" => ~spSettings.streaming
    /\ spState \in {"streaming", "joining"} => spSettings.streaming
    /\ spFed \in Nat
    /\ \E b \in Nat : Gathered(b, spStore, spTmp, spFed, spReset) /\ Inbox(spInBox, b)
    /\ ~spSettings.streaming => Polled(spStore, spTmp)
    /\ Len(spInBox) <= InboxMax
    /\ spGot = <<>> \/ IsTelegram(spGot)

LEMMA SPInvAtStart == SPInit => SPInv
<1> SUFFICES ASSUME SPInit PROVE SPInv
  OBVIOUS
<1>1. /\ spState = "closed" /\ spFed = 0 /\ spTmp = <<>> /\ spStore = <<>> /\ spInBox = <<>>
      /\ spGot = <<>> /\ spReset = 0
  BY DEF SPInit
<1>2. /\ <<>> \in Seq(Nat) /\ <<>> \in Seq(Seq(Nat)) /\ Len(<<>>) = 0 /\ \A i \in 1 .. 0 : FALSE
  OBVIOUS
<1>3. Gathered(0, spStore, spTmp, spFed, spReset) /\ Inbox(spInBox, 0)
  BY <1>1, <1>2 DEF Gathered, Inbox, RunFrom
<1>4. Polled(spStore, spTmp)
  BY <1>1, <1>2 DEF Polled, Endless
<1>5. Len(spInBox) <= InboxMax
  BY <1>1, <1>2, SerialAssumption
<1> QED BY <1>1, <1>3, <1>4, <1>5 DEF SPInv

LEMMA ReadKeeps ==
    ASSUME SPInv, NEW n \in 1 .. 2, ReadNWithTimeOut(n)
    PROVE  SPInv'
<1>1. /\ spState \in {"streaming", "joining"} /\ spTmp' = spTmp \o Grabbed(n) /\ spFed' = spFed + n
      /\ UNCHANGED <<spState, spSettings, spStore, spInBox, spGot, spReset>>
  BY DEF ReadNWithTimeOut
<1>2. spSettings.streaming /\ spFed \in Nat
  BY <1>1 DEF SPInv
<1>3. PICK b \in Nat : Gathered(b, spStore, spTmp, spFed, spReset) /\ Inbox(spInBox, b)
  BY DEF SPInv
<1>4. Grabbed(n) \in Seq(Nat) /\ Len(Grabbed(n)) = n /\ RunFrom(Grabbed(n), spFed)
  BY <1>2, GrabbedIs
<1>5. /\ spTmp \o Grabbed(n) \in Seq(Nat) /\ Len(spTmp \o Grabbed(n)) = Len(spTmp) + n
      /\ RunFrom(spTmp \o Grabbed(n), b + Len(spStore))
  <2> DEFINE g == Grabbed(n)
             c == b + Len(spStore)
  <2>1. /\ spTmp \in Seq(Nat) /\ RunFrom(spTmp, c) /\ c \in Nat /\ spFed = c + Len(spTmp)
    BY <1>3 DEF Gathered
  <2>2. g \in Seq(Nat) /\ RunFrom(g, c + Len(spTmp)) /\ Len(g) = n
    BY <1>4, <2>1
  <2> HIDE DEF g, c
  <2>3. spTmp \o g \in Seq(Nat) /\ Len(spTmp \o g) = Len(spTmp) + Len(g) /\ RunFrom(spTmp \o g, c)
    BY <2>1, <2>2, RunsJoin
  <2> QED BY <2>2, <2>3 DEF g, c
<1> DEFINE u == spTmp \o Grabbed(n)
<1> HIDE DEF u
<1>6. Gathered(b, spStore, u, spFed + n, spReset)
  <2>1. u \in Seq(Nat) /\ Len(u) = Len(spTmp) + n /\ RunFrom(u, b + Len(spStore))
    BY <1>5 DEF u
  <2>2. Len(spTmp) \in Nat /\ Len(spStore) \in Nat /\ spFed = b + Len(spStore) + Len(spTmp)
    BY <1>3 DEF Gathered
  <2>3. spFed + n = b + Len(spStore) + Len(u)
    BY <2>1, <2>2
  <2> QED BY <1>3, <2>1, <2>3 DEF Gathered
<1>7. \E a \in Nat : (Gathered(a, spStore, spTmp, spFed, spReset) /\ Inbox(spInBox, a))'
  <2>1. Gathered(b, spStore', spTmp', spFed', spReset') /\ Inbox(spInBox', b)
    BY <1>1, <1>3, <1>6 DEF u
  <2> QED BY <2>1
<1>8. spFed' \in Nat
  BY <1>1, <1>2
<1> QED BY <1>1, <1>2, <1>7, <1>8 DEF SPInv

LEMMA LoopKeeps ==
    ASSUME SPInv, CommsLoop
    PROVE  SPInv'
<1>1. /\ spState \in {"streaming", "joining"} /\ spTmp' = <<>>
      /\ UNCHANGED <<spState, spSettings, spFed, spGot>>
  BY DEF CommsLoop
<1>2. spSettings.streaming /\ spFed \in Nat
  BY <1>1 DEF SPInv
<1>3. PICK b \in Nat : Gathered(b, spStore, spTmp, spFed, spReset) /\ Inbox(spInBox, b)
  BY DEF SPInv
<1>4. /\ <<>> \in Seq(Nat) /\ Len(<<>>) = 0 /\ \A c \in Nat : RunFrom(<<>>, c)
  BY DEF RunFrom
<1>5. /\ \E a \in Nat : (Gathered(a, spStore, spTmp, spFed, spReset) /\ Inbox(spInBox, a))'
      /\ Len(spInBox') <= InboxMax
  <2>1. CASE spStore' = AfterOverflow /\ spReset' = spFed /\ UNCHANGED spInBox
    <3>1. spFed >= b
      <4>1. Len(spStore) \in Nat /\ Len(spTmp) \in Nat /\ spFed = b + Len(spStore) + Len(spTmp)
        BY <1>3 DEF Gathered
      <4> QED BY <4>1
    <3>2. Inbox(spInBox, spFed)
      BY <1>2, <1>3, <3>1, InboxLater
    <3>3. spFed = spFed + 0 + 0 /\ spFed + 0 = spFed
      BY <1>2
    <3>4. Gathered(spFed, <<>>, <<>>, spFed, spFed)
      BY <1>2, <1>4, <3>3 DEF Gathered
    <3>5. Gathered(spFed, spStore', spTmp', spFed', spReset') /\ Inbox(spInBox', spFed)
      BY <1>1, <2>1, <3>2, <3>4 DEF AfterOverflow
    <3>6. Len(spInBox') <= InboxMax
      BY <2>1 DEF SPInv
    <3> QED BY <1>2, <3>5, <3>6
  <2>2. CASE /\ LET acc == spStore \o spTmp
                    cut == Telegrams(acc, spInBox) IN
                spStore' = From(acc, cut.off + 1) /\ spInBox' = Newest(cut.box)
             /\ UNCHANGED spReset
    <3> DEFINE acc == spStore \o spTmp
               cut == Telegrams(acc, spInBox)
               o == cut.off
    <3>1. spStore' = From(acc, o + 1) /\ spInBox' = Newest(cut.box) /\ UNCHANGED spReset
      BY <2>2
    <3>2. acc \in Seq(Nat) /\ Len(acc) = Len(spStore) + Len(spTmp) /\ RunFrom(acc, b)
      <4>1. /\ spStore \in Seq(Nat) /\ spTmp \in Seq(Nat) /\ RunFrom(spStore, b)
            /\ RunFrom(spTmp, b + Len(spStore))
        BY <1>3 DEF Gathered
      <4> QED BY <4>1, RunsJoin
    <3> HIDE DEF acc
    <3>3. IsCut(cut, acc, b, Len(acc))
      BY <1>3, <3>2, TelegramsAreCut
    <3> HIDE DEF cut
    <3>4. o \in 0 .. Len(acc) /\ (o = 0 \/ acc[o] \in Terminators) /\ Inbox(cut.box, b + o)
      BY <3>3 DEF IsCut
    <3>5. o \in Nat /\ b + o \in Nat /\ Len(acc) \in Nat
      BY <3>2, <3>4
    <3> DEFINE s == From(acc, o + 1)
               box == cut.box
    <3>6. s \in Seq(Nat) /\ Len(s) = Len(acc) - o /\ RunFrom(s, b + o)
      BY <3>2, <3>4, RunBehind
    <3>7. Inbox(Newest(box), b + o) /\ Len(Newest(box)) <= InboxMax
      BY <3>4, <3>5, NewestIs
    <3> HIDE DEF s, box, o
    <3>8. spFed = (b + o) + Len(s) + 0
      <4>1. spFed = b + Len(spStore) + Len(spTmp) /\ Len(spStore) \in Nat /\ Len(spTmp) \in Nat
        BY <1>3 DEF Gathered
      <4> QED BY <3>2, <3>5, <3>6, <4>1
    <3>9. b + o \in Terminators \cup {spReset} /\ spReset \in Nat
      <4>1. o # 0 => acc[o] = b + o
        <5>1. o # 0 => o \in 1 .. Len(acc)
          BY <3>4
        <5> QED BY <3>2, <5>1 DEF RunFrom
      <4>2. o = 0 => b + o = b
        OBVIOUS
      <4>3. b \in Terminators \cup {spReset} /\ spReset \in Nat
        BY <1>3 DEF Gathered
      <4> QED BY <3>4, <4>1, <4>2, <4>3
    <3>10. (b + o) + Len(s) \in Nat
      BY <3>5, <3>6
    <3>11. Gathered(b + o, s, <<>>, spFed, spReset)
      BY <1>4, <3>6, <3>8, <3>9, <3>10 DEF Gathered
    <3>12. Gathered(b + o, spStore', spTmp', spFed', spReset') /\ Inbox(spInBox', b + o)
      BY <1>1, <3>1, <3>7, <3>11 DEF s, box
    <3>13. Len(spInBox') <= InboxMax
      BY <3>1, <3>7 DEF box
    <3> QED BY <3>5, <3>12, <3>13
  <2> QED BY <2>1, <2>2 DEF CommsLoop
<1> QED BY <1>1, <1>2, <1>5 DEF SPInv

LEMMA GetKeeps ==
    ASSUME SPInv, GetLatest \/ GetEarliest
    PROVE  SPInv'
<1>1. /\ UNCHANGED <<spState, spSettings, spFed, spTmp, spStore, spReset>>
      /\ spInBox # <<>>
      /\ \/ spGot' = Head(spInBox) /\ spInBox' = Tail(spInBox)
         \/ spGot' = spInBox[Len(spInBox)] /\ spInBox' = SubSeq(spInBox, 1, Len(spInBox) - 1)
  BY DEF GetLatest, GetEarliest, Give
<1>2. PICK b \in Nat : Gathered(b, spStore, spTmp, spFed, spReset) /\ Inbox(spInBox, b)
  BY DEF SPInv
<1>3. /\ Inbox(Tail(spInBox), b) /\ Len(Tail(spInBox)) = Len(spInBox) - 1
      /\ IsTelegram(Head(spInBox)) /\ IsTelegram(spInBox[Len(spInBox)])
  BY <1>1, <1>2, InboxIsTailed
<1> DEFINE n == Len(spInBox)
<1>4. n \in Nat /\ n > 0 /\ n <= InboxMax
  <2>1. spInBox \in Seq(Seq(Nat))
    BY <1>2 DEF Inbox
  <2> QED BY <1>1, <2>1 DEF SPInv
<1>5. n - 1 \in 0 .. n
  BY <1>4
<1>6. Inbox(SubSeq(spInBox, 1, n - 1), b) /\ Len(SubSeq(spInBox, 1, n - 1)) = n - 1
  BY <1>2, <1>5, InboxIsShortened
<1>7. Inbox(spInBox', b) /\ Len(spInBox') = n - 1 /\ IsTelegram(spGot')
  BY <1>1, <1>3, <1>6
<1>8. n - 1 <= InboxMax
  BY <1>4, SerialAssumption
<1>9. \E a \in Nat : (Gathered(a, spStore, spTmp, spFed, spReset) /\ Inbox(spInBox, a))'
  <2>1. Gathered(b, spStore', spTmp', spFed', spReset') /\ Inbox(spInBox', b)
    BY <1>1, <1>2, <1>7
  <2> QED BY <2>1
<1> HIDE DEF n
<1> QED BY <1>1, <1>7, <1>8, <1>9 DEF SPInv

\* A buffer of the polled port, alone: d is the one in use.
LEMMA PollBegins ==
    ASSUME SPInv, spState = "open"
    PROVE  /\ ~spSettings.streaming /\ spFed \in Nat
           /\ \E b \in Nat :
                 /\ Inbox(spInBox, b) /\ b \in Terminators \cup {spReset} /\ spReset \in Nat /\ b <= spFed
                 /\ spStore \in Seq(Nat) /\ spTmp \in Seq(Nat) /\ Endless(spStore) /\ Endless(spTmp)
                 /\ spStore = <<>> => spFed = b + Len(spTmp) /\ RunFrom(spTmp, b)
                 /\ spTmp = <<>> => spFed = b + Len(spStore) /\ RunFrom(spStore, b)
<1>1. ~spSettings.streaming /\ spFed \in Nat
  BY DEF SPInv
<1>2. PICK b \in Nat : Gathered(b, spStore, spTmp, spFed, spReset) /\ Inbox(spInBox, b)
  BY DEF SPInv
<1>3. /\ spStore \in Seq(Nat) /\ spTmp \in Seq(Nat) /\ spFed = b + Len(spStore) + Len(spTmp) /\ spReset \in Nat
      /\ RunFrom(spStore, b) /\ RunFrom(spTmp, b + Len(spStore)) /\ b \in Terminators \cup {spReset}
  BY <1>2 DEF Gathered
<1>4. Endless(spStore) /\ Endless(spTmp)
  BY <1>1 DEF SPInv, Polled
<1>5. Len(spStore) \in Nat /\ Len(spTmp) \in Nat
  BY <1>3
<1>6. b <= spFed
  BY <1>3, <1>5
<1>7. ASSUME spStore = <<>> PROVE spFed = b + Len(spTmp) /\ RunFrom(spTmp, b)
  <2>1. Len(spStore) = 0
    BY <1>7
  <2>2. b + Len(spStore) = b
    BY <2>1
  <2> QED BY <1>3, <2>2
<1>8. ASSUME spTmp = <<>> PROVE spFed = b + Len(spStore) /\ RunFrom(spStore, b)
  <2>1. Len(spTmp) = 0
    BY <1>8
  <2> QED BY <1>3, <1>5, <2>1
<1> QED BY <1>1, <1>2, <1>3, <1>4, <1>6, <1>7, <1>8

\* What is left when one buffer is empty and the other is a run that nothing has ended.
LEMMA PollLeaves ==
    ASSUME NEW b \in Nat, NEW d \in Seq(Nat), RunFrom(d, b), Endless(d), NEW r \in Nat, b \in Terminators \cup {r}
    PROVE  /\ Gathered(b, <<>>, d, b + Len(d), r) /\ Gathered(b, d, <<>>, b + Len(d), r)
           /\ Polled(<<>>, d) /\ Polled(d, <<>>)
<1>1. /\ <<>> \in Seq(Nat) /\ Len(<<>>) = 0 /\ \A i \in 1 .. 0 : FALSE
  OBVIOUS
<1>2. \A c \in Nat : RunFrom(<<>>, c)
  BY <1>1 DEF RunFrom
<1>3. Endless(<<>>)
  BY <1>1 DEF Endless
<1>4. b + Len(d) \in Nat /\ b + 0 + Len(d) = b + Len(d) /\ b + Len(d) + 0 = b + Len(d) /\ b + 0 = b
  OBVIOUS
<1>5. Gathered(b, <<>>, d, b + Len(d), r)
  BY <1>1, <1>2, <1>4 DEF Gathered
<1>6. Gathered(b, d, <<>>, b + Len(d), r)
  BY <1>1, <1>2, <1>4 DEF Gathered
<1> QED BY <1>3, <1>5, <1>6 DEF Polled

LEMMA PollKeeps ==
    ASSUME SPInv, GetTelegram \/ GetTelegramOrAccumulate
    PROVE  SPInv'
<1>1. spState = "open" /\ UNCHANGED <<spState, spSettings, spInBox>>
  BY DEF GetTelegram, GetTelegramOrAccumulate
<1>2. /\ ~spSettings.streaming /\ spFed \in Nat
      /\ \E b \in Nat :
            /\ Inbox(spInBox, b) /\ b \in Terminators \cup {spReset} /\ spReset \in Nat /\ b <= spFed
            /\ spStore \in Seq(Nat) /\ spTmp \in Seq(Nat) /\ Endless(spStore) /\ Endless(spTmp)
            /\ spStore = <<>> => spFed = b + Len(spTmp) /\ RunFrom(spTmp, b)
            /\ spTmp = <<>> => spFed = b + Len(spStore) /\ RunFrom(spStore, b)
  BY <1>1, PollBegins
<1>3. PICK b \in Nat :
            /\ Inbox(spInBox, b) /\ b \in Terminators \cup {spReset} /\ spReset \in Nat /\ b <= spFed
            /\ spStore \in Seq(Nat) /\ spTmp \in Seq(Nat) /\ Endless(spStore) /\ Endless(spTmp)
            /\ spStore = <<>> => spFed = b + Len(spTmp) /\ RunFrom(spTmp, b)
            /\ spTmp = <<>> => spFed = b + Len(spStore) /\ RunFrom(spStore, b)
  BY <1>2
<1>4. <<>> \in Seq(Nat) /\ Len(<<>>) = 0 /\ Endless(<<>>) /\ \A c \in Nat : RunFrom(<<>>, c) /\ c + Len(<<>>) = c
  BY DEF Endless, RunFrom
\* It is enough to say where the buffers begin now.
<1>5. SUFFICES /\ \E a \in Nat : Gathered(a, spStore', spTmp', spFed', spReset') /\ b <= a
               /\ Polled(spStore', spTmp') /\ spFed' \in Nat
               /\ spGot' = spGot \/ IsTelegram(spGot')
  <2>1. ASSUME NEW a \in Nat, Gathered(a, spStore', spTmp', spFed', spReset'), b <= a
        PROVE  \E e \in Nat : (Gathered(e, spStore, spTmp, spFed, spReset) /\ Inbox(spInBox, e))'
    <3>1. Inbox(spInBox, a)
      BY <1>3, <2>1, InboxLater
    <3> QED BY <1>1, <2>1, <3>1
  <2>2. (Len(spInBox) <= InboxMax)' /\ (spGot = <<>> \/ IsTelegram(spGot))
    BY <1>1 DEF SPInv
  <2> QED BY <1>1, <1>2, <2>1, <2>2 DEF SPInv
\* What a byte does to the buffer d in use.
<1>6. ASSUME NEW d \in Seq(Nat), spFed = b + Len(d), RunFrom(d, b), Endless(d)
      PROVE  /\ IsCompleteReply(Grab(d)) =>
                    IsTelegram(Grab(d)) /\ Gathered(spFed + 1, <<>>, <<>>, spFed + 1, spReset)
             /\ ~IsCompleteReply(Grab(d)) =>
                    /\ Gathered(b, <<>>, Grab(d), spFed + 1, spReset) /\ Polled(<<>>, Grab(d))
                    /\ Gathered(b, Grab(d), <<>>, spFed + 1, spReset) /\ Polled(Grab(d), <<>>)
  <2> DEFINE e == Grab(d)
  <2>1. /\ e \in Seq(Nat) /\ Len(e) = Len(d) + 1 /\ RunFrom(e, b)
        /\ IsCompleteReply(e) => IsTelegram(e) /\ spFed + 1 \in Terminators
        /\ ~IsCompleteReply(e) => Endless(e)
    BY <1>6, GrabKeeps
  <2>2. b + Len(e) = spFed + 1 /\ spFed + 1 \in Nat
    BY <1>2, <1>6, <2>1
  <2> HIDE DEF e
  <2>3. spFed + 1 \in Terminators => Gathered(spFed + 1, <<>>, <<>>, spFed + 1, spReset)
    <3> DEFINE c == spFed + 1
    <3>1. c \in Nat /\ spReset \in Nat /\ RunFrom(<<>>, c) /\ c + Len(<<>>) = c
      BY <1>3, <1>4, <2>2
    <3> HIDE DEF c
    <3>2. c \in Terminators => Gathered(c, <<>>, <<>>, c + Len(<<>>), spReset)
      BY <1>4, <3>1, PollLeaves
    <3>3. c \in Terminators => Gathered(c, <<>>, <<>>, c, spReset)
      BY <3>1, <3>2
    <3> QED BY <3>3 DEF c
  <2>4. Endless(e) => /\ Gathered(b, <<>>, e, b + Len(e), spReset) /\ Gathered(b, e, <<>>, b + Len(e), spReset)
                      /\ Polled(<<>>, e) /\ Polled(e, <<>>)
    BY <1>3, <2>1, PollLeaves
  <2>5. Endless(e) => /\ Gathered(b, <<>>, e, spFed + 1, spReset) /\ Gathered(b, e, <<>>, spFed + 1, spReset)
                      /\ Polled(<<>>, e) /\ Polled(e, <<>>)
    BY <2>2, <2>4
  <2> QED BY <2>1, <2>3, <2>5 DEF e
<1>7. Polled(<<>>, <<>>)
  BY <1>4 DEF Polled
<1>8. spFed + 1 \in Nat /\ b <= spFed + 1
  BY <1>2, <1>3
<1>9. CASE GetTelegram
  <2>1. spStore = <<>> /\ spStore' = <<>>
    BY <1>9 DEF GetTelegram
  <2>2. spFed = b + Len(spTmp) /\ RunFrom(spTmp, b) /\ Endless(spTmp) /\ spTmp \in Seq(Nat)
    BY <1>3, <2>1
  <2>3. CASE spFed' = spFed + 1 /\ IsCompleteReply(Grab(spTmp)) /\ Give(Grab(spTmp)) /\ spTmp' = <<>> /\ UNCHANGED spReset
    <3>1. IsTelegram(Grab(spTmp)) /\ Gathered(spFed + 1, <<>>, <<>>, spFed + 1, spReset)
      BY <1>6, <2>2, <2>3
    <3>2. Gathered(spFed + 1, spStore', spTmp', spFed', spReset') /\ Polled(spStore', spTmp') /\ IsTelegram(spGot')
      BY <1>7, <2>1, <2>3, <3>1 DEF Give
    <3> QED BY <1>8, <2>3, <3>2
  <2>4. CASE spFed' = spFed + 1 /\ ~IsCompleteReply(Grab(spTmp)) /\ spTmp' = Grab(spTmp) /\ UNCHANGED spGot /\ UNCHANGED spReset
    <3>1. Gathered(b, <<>>, Grab(spTmp), spFed + 1, spReset) /\ Polled(<<>>, Grab(spTmp))
      BY <1>6, <2>2, <2>4
    <3>2. Gathered(b, spStore', spTmp', spFed', spReset') /\ Polled(spStore', spTmp')
      BY <2>1, <2>4, <3>1
    <3>3. b <= b
      OBVIOUS
    <3> QED BY <1>8, <2>4, <3>2, <3>3
  <2>5. CASE spTmp' = <<>> /\ spReset' = spFed /\ UNCHANGED <<spFed, spGot>>
    <3>1. Gathered(spFed, <<>>, <<>>, spFed + Len(<<>>), spFed)
      BY <1>2, <1>4, PollLeaves
    <3>2. spFed + Len(<<>>) = spFed
      BY <1>2, <1>4
    <3>3. Gathered(spFed, spStore', spTmp', spFed', spReset') /\ Polled(spStore', spTmp')
      BY <1>7, <2>1, <2>5, <3>1, <3>2
    <3> QED BY <1>2, <1>3, <2>5, <3>3
  <2> QED BY <1>9, <2>3, <2>4, <2>5 DEF GetTelegram
<1>10. CASE GetTelegramOrAccumulate
  <2>1. /\ spTmp = <<>> /\ spTmp' = <<>> /\ spFed' = spFed + 1 /\ spReset' = spReset
        /\ \/ IsCompleteReply(Grab(spStore)) /\ spGot' = Grab(spStore) /\ spStore' = <<>>
           \/ ~IsCompleteReply(Grab(spStore)) /\ spStore' = Grab(spStore) /\ spGot' = spGot
    BY <1>10 DEF GetTelegramOrAccumulate, Give
  <2>2. spFed = b + Len(spStore) /\ RunFrom(spStore, b) /\ Endless(spStore) /\ spStore \in Seq(Nat)
    BY <1>3, <2>1
  <2>3. CASE IsCompleteReply(Grab(spStore)) /\ spGot' = Grab(spStore) /\ spStore' = <<>>
    <3>1. IsTelegram(Grab(spStore)) /\ Gathered(spFed + 1, <<>>, <<>>, spFed + 1, spReset)
      BY <1>6, <2>2, <2>3
    <3>2. Gathered(spFed + 1, spStore', spTmp', spFed', spReset') /\ Polled(spStore', spTmp') /\ IsTelegram(spGot')
      BY <1>7, <2>1, <2>3, <3>1
    <3> QED BY <1>8, <2>1, <3>2
  <2>4. CASE ~IsCompleteReply(Grab(spStore)) /\ spStore' = Grab(spStore) /\ spGot' = spGot
    <3>1. Gathered(b, Grab(spStore), <<>>, spFed + 1, spReset) /\ Polled(Grab(spStore), <<>>)
      BY <1>6, <2>2, <2>4
    <3>2. Gathered(b, spStore', spTmp', spFed', spReset') /\ Polled(spStore', spTmp')
      BY <2>1, <2>4, <3>1
    <3>3. b <= b
      OBVIOUS
    <3> QED BY <1>8, <2>1, <2>4, <3>2, <3>3
  <2> QED BY <2>1, <2>3, <2>4
<1> QED BY <1>9, <1>10
LEMMA PortKeeps ==
    ASSUME SPInv, CreatePort \/ ClosePort \/ Joined
    PROVE  SPInv'
<1>1. /\ UNCHANGED <<spSettings, spFed, spTmp, spStore, spInBox, spGot, spReset>>
      /\ \/ spState' \in {Configured, "exited"}
         \/ spState = "open" /\ spState' = "closing"
         \/ spState = "streaming" /\ spState' = "joining"
         \/ spState' = "closing"
  BY DEF CreatePort, ClosePort, Joined
<1>2. /\ spState' = "open" => ~spSettings.streaming
      /\ spState' \in {"streaming", "joining"} => spSettings.streaming
  BY <1>1 DEF Configured, SPInv
<1> DEFINE G == \E b \in Nat : Gathered(b, spStore, spTmp, spFed, spReset) /\ Inbox(spInBox, b)
<1>3. G
  BY DEF SPInv
<1>4. G'
  BY <1>1, <1>3
<1> QED BY <1>1, <1>2, <1>4 DEF SPInv

LEMMA SPInvIsKept == SPInv /\ [SPNext]_spVars => SPInv'
<1> SUFFICES ASSUME SPInv, [SPNext]_spVars PROVE SPInv'
  OBVIOUS
<1>1. CASE CreatePort \/ ClosePort \/ Joined
  BY <1>1, PortKeeps
<1>2. ASSUME NEW n \in 1 .. 2, ReadNWithTimeOut(n) PROVE SPInv'
  BY <1>2, ReadKeeps
<1>3. CASE CommsLoop
  BY <1>3, LoopKeeps
<1>4. CASE GetLatest \/ GetEarliest
  BY <1>4, GetKeeps
<1>5. CASE GetTelegram \/ GetTelegramOrAccumulate
  BY <1>5, PollKeeps
<1>6. CASE UNCHANGED spVars
  <2> DEFINE G == \E b \in Nat : Gathered(b, spStore, spTmp, spFed, spReset) /\ Inbox(spInBox, b)
  <2>1. G
    BY DEF SPInv
  <2>2. UNCHANGED <<spState, spSettings, spFed, spTmp, spStore, spInBox, spGot, spReset>>
    BY <1>6 DEF spVars
  <2>3. G'
    BY <2>1, <2>2
  <2> QED BY <2>2, <2>3 DEF SPInv
<1> QED BY <1>1, <1>2, <1>3, <1>4, <1>5, <1>6 DEF SPNext

LEMMA SPInvIsEnough == SPInv => TelegramsAreTrue
<1> SUFFICES ASSUME SPInv PROVE TelegramsAreTrue
  OBVIOUS
<1>1. PICK b \in Nat : Gathered(b, spStore, spTmp, spFed, spReset) /\ Inbox(spInBox, b)
  BY DEF SPInv
<1>2. \A t \in Received : IsTelegram(t)
  BY <1>1 DEF Received, SPInv, Inbox
<1>3. ASSUME NEW t \in Received
      PROVE  /\ \A i \in 1 .. Len(t) - 1 : t[i + 1] = t[i] + 1 /\ t[i] \notin Terminators
             /\ t[Len(t)] \in Terminators
             /\ t[1] - 1 \in Terminators \cup {0} => DoNMEACheckSum(Text(t))
  <2>1. IsTelegram(t)
    BY <1>2, <1>3
  <2>2. t[1] - 1 \in Terminators \cup {0} => DoNMEACheckSum(Text(t))
    BY <2>1, TelegramChecks
  <2>3. /\ t \in Seq(Nat) /\ t[Len(t)] \in Terminators
        /\ (\A i \in 1 .. Len(t) : t[i] = (t[1] - 1) + i) /\ \A i \in 1 .. Len(t) - 1 : t[i] \notin Terminators
    BY <2>1 DEF IsTelegram, RunFrom
  <2>4. ASSUME NEW i \in 1 .. Len(t) - 1 PROVE t[i + 1] = t[i] + 1
    <3>1. Len(t) \in Nat
      BY <2>3
    <3>2. 1 \in 1 .. Len(t) /\ i \in 1 .. Len(t) /\ i + 1 \in 1 .. Len(t)
      BY <3>1
    <3> DEFINE p == t[1] - 1
    <3>3. p \in Int
      BY <2>3, <3>2
    <3>4. \A k \in 1 .. Len(t) : t[k] = p + k
      BY <2>3
    <3> HIDE DEF p
    <3>5. t[i] = p + i /\ t[i + 1] = p + (i + 1)
      BY <3>2, <3>4
    <3> QED BY <3>3, <3>5
  <2> QED BY <2>2, <2>3, <2>4
<1>4. /\ spStore \in Seq(Nat) /\ spTmp \in Seq(Nat) /\ RunFrom(spStore, b) /\ RunFrom(spTmp, b + Len(spStore))
      /\ b \in Terminators \cup {spReset}
  BY <1>1 DEF Gathered
<1>5. ASSUME NEW d \in Seq(Nat), RunFrom(d, b) PROVE InboxFront(d)
  <2>1. ASSUME d # <<>> PROVE d[1] - 1 = b
    <3>1. 1 \in 1 .. Len(d)
      BY <2>1
    <3>2. d[1] = b + 1
      BY <1>5, <3>1 DEF RunFrom
    <3> QED BY <3>2
  <2> QED BY <1>4, <2>1 DEF InboxFront
<1>6. spStore \o spTmp \in Seq(Nat) /\ RunFrom(spStore \o spTmp, b)
  BY <1>4, RunsJoin
<1>7. InboxFront(IF spSettings.streaming THEN spStore ELSE spStore \o spTmp)
  <2>1. InboxFront(spStore)
    BY <1>4, <1>5
  <2>2. InboxFront(spStore \o spTmp)
    BY <1>5, <1>6
  <2> QED BY <2>1, <2>2
<1>8. \A i, j \in 1 .. Len(spInBox) : i < j => spInBox[i][1] > spInBox[j][1]
  BY <1>1 DEF Inbox
<1>9. Len(spInBox) <= InboxMax
  BY DEF SPInv
<1> QED BY <1>3, <1>7, <1>8, <1>9 DEF TelegramsAreTrue

(* However the device's bytes are cut up by ReadNWithTimeOut and by the polled port's byte by byte *)
(* reading, whatever is thrown away when the accumulator is full or the time is up, and for every  *)
(* size of the buffers and of the inbox: what GetLatest, GetEarliest, GetTelegram and              *)
(* GetTelegramOrAccumulate give is one run of the device's bytes up to its terminator, whose check *)
(* sum is right where it begins with the sentence, and the inbox holds the newest, in order.       *)
THEOREM TelegramsAreWhole == SPSpec => []TelegramsAreTrue
<1>1. SPInit => SPInv
  BY SPInvAtStart
<1>2. SPInv /\ [SPNext]_spVars => SPInv'
  BY SPInvIsKept
<1>3. SPInv => TelegramsAreTrue
  BY SPInvIsEnough
<1> QED BY <1>1, <1>2, <1>3, PTL DEF SPSpec
=============================================================================
