-------------------------------- MODULE MOOSDB --------------------------------
(***************************************************************************)
(* The database at the centre of a MOOS community (class CMOOSDB): the map *)
(* of named variables, who subscribes to each, the wildcard filters every  *)
(* client has left, and the mail held for a client until it next calls in. *)
(*                                                                         *)
(* The communications server calls CMOOSDB from two threads: its server    *)
(* thread delivers packets, fetches mail and reports disconnections, its   *)
(* listen thread reports connections.  A packet is a list of messages and  *)
(* OnRxPkt is a loop over it, so one packet is a BeginPkt, one action per  *)
(* message, and the end of the loop; a connection may be reported between  *)
(* any two of those steps.                                                 *)
(*                                                                         *)
(* Data.  The value of a notification is the number of the write that      *)
(* carries it, counted per variable since the last DB_CLEAR, so that a     *)
(* stale value is told apart from a fresh one.  A wildcard pattern is the  *)
(* set of names it matches (MOOSWildCmp).  Times are whole units; the      *)
(* community, the auxiliary source and the time stamp of a message are     *)
(* left out.                                                               *)
(***************************************************************************)
EXTENDS Integers, Sequences

CONSTANTS
    Clients,        \* names a client may connect under
    Sources,        \* every m_sSrc a message may carry: clients, bridged names, the DB
    NoSource,       \* the empty m_sWhoChangedMe of a variable nobody has written
    DBName,         \* m_sDBName
    Vars,           \* names of variables
    Types,          \* MOOS_DOUBLE, MOOS_STRING, MOOS_BINARY_STRING
    NotSet,         \* MOOS_NOT_SET
    OwnVars,        \* the DB_* variables the constructor makes
    OwnType,        \* the type of what the database writes to each of them
    MadeType,       \* the type the constructor gives each of them
    EventVar,       \* DB_EVENT
    SummaryVars,    \* the DB_* variables OnRxPkt refreshes, in order
    QosVar,         \* DB_QOS, the one of them that may be left out
    SummaryPeriod,  \* the 2.0 seconds between two refreshes
    FilterIds,      \* numbers of the wildcard filters, in the order of std::set
    FilterApp,      \* the sources the application pattern of a filter matches
    FilterVar,      \* the variables the variable pattern of a filter matches
    Periods,        \* intervals a client may register with
    Nobody,         \* no packet is being processed
    StartTime,      \* the clock when the database starts
    MaxTime,        \* bound: the clock stops here
    MaxWrites,      \* bound: writes to one variable between two DB_CLEARs
    MaxHeld         \* bound: messages held for one client

ASSUME NamesAssumption ==
    /\ Clients \subseteq Sources
    /\ DBName \in Sources
    /\ NoSource \notin Sources
    /\ Nobody \notin Clients
    /\ NotSet \notin Types

ASSUME OwnVarsAssumption ==
    /\ OwnVars \subseteq Vars
    /\ EventVar \in OwnVars
    /\ SummaryVars \in Seq(OwnVars)
    /\ OwnType \in [OwnVars -> Types]
    /\ MadeType \in [OwnVars -> Types]

ASSUME FilterAssumption ==
    /\ FilterIds \subseteq Nat
    /\ FilterApp \in [FilterIds -> SUBSET (Sources \cup {NoSource})]
    /\ FilterVar \in [FilterIds -> SUBSET Vars]
    /\ \A M \in SUBSET FilterIds : M # {} => \E f \in M : \A g \in M : g <= f

ASSUME TimeAssumption ==
    /\ Periods \subseteq Nat
    /\ SummaryPeriod \in Nat
    /\ StartTime \in Nat
    /\ MaxTime \in Nat
    /\ MaxWrites \in Nat
    /\ MaxHeld \in Nat

\* The clock is seconds since 1970: it is past every interval when the database starts.
ASSUME ClockAssumption ==
    \A p \in Periods : p <= StartTime

VARIABLES
    exists,       \* the keys of m_VarMap
    type,         \* m_cDataType of each variable
    written,      \* m_nWrittenTo
    val,          \* m_dfVal or m_sVal
    who,          \* m_sWhoChangedMe
    writers,      \* m_Writers
    wtime,        \* m_dfWrittenTime
    subs,         \* m_Subscribers of each variable: interval and time last sent
    filters,      \* m_ClientFilters: the interval of each filter a client left, or -1
    held,         \* m_HeldMailMap
    connected,    \* the clients the communications server serves
    phase,        \* where the server thread is in OnRxPkt
    cur,          \* the client whose packet is being processed
    todo,         \* the next summary variable to refresh
    summaryTime,  \* m_dfSummaryTime
    now,          \* the clock
    seen,         \* history: the newest value of a variable a client was sent
    wild,         \* history: the interval a client last asked for with a filter, or -1
    declined      \* history: the variables a client has unregistered

varState == <<type, written, val, who, writers, wtime>>
pktState == <<phase, cur, todo, summaryTime>>
history  == <<seen, wild, declined>>
vars == <<exists, varState, subs, filters, held, connected, pktState, now, history>>

NoSub == [period |-> -1, last |-> 0]

RegisterInfo == [period : Periods, last : Nat]

Msg == [var : Vars, src : Sources, type : Types, val : Nat]

-------------------------------------------------------------------------------
(* CMOOSDBVar, CMOOSRegisterInfo and MsgFilter                             *)

Subscribed(v, c) == subs[v][c] # NoSub

\* A new subscription forgets when the old one was last served.
NewSubscriber(p) == [period |-> p, last |-> 0]

\* Mutant: a subscriber that is exactly one interval old has to wait for the next write.
ExpiredLate(info) == info.period = 0 \/ now - info.last > info.period

SetLastTimeSent(info) == [period |-> info.period, last |-> now]

Expired(info) == info.period = 0 \/ now - info.last >= info.period

Matches(f, src, v) == src \in FilterApp[f] /\ v \in FilterVar[f]

MatchingFilters(F, c, src, v) == {f \in FilterIds : F[c][f] >= 0 /\ Matches(f, src, v)}

\* The filters are tried in order and each match overwrites the subscription: the last wins.
WildcardPeriod(F, c, src, v) ==
    LET M == MatchingFilters(F, c, src, v)
    IN  F[c][CHOOSE f \in M : \A g \in M : g <= f]

Var2Msg(v) == [var |-> v, src |-> who[v], type |-> type[v], val |-> val[v]]

-------------------------------------------------------------------------------
(* OnNotify.  S, F and H are the subscriptions, filters and held mail that *)
(* the handler finds: OnDisconnect calls it after changing them.           *)

\* Mutant: the filters are not consulted when a new variable turns up.
SubscribersOnly(m, S, F) == S[m.var]

\* The first write to a variable subscribes every client with a filter that matches it.
SubscribersAtWrite(m, S, F) ==
    [c \in Clients |->
        IF written[m.var] = 0 /\ MatchingFilters(F, c, m.src, m.var) # {}
        THEN NewSubscriber(WildcardPeriod(F, c, m.src, m.var))
        ELSE S[m.var][c]]

Due(S1) == {c \in Clients : S1[c] # NoSub /\ Expired(S1[c])}

\* Mutant: the new message goes to the front of the box.
AddMessageToFront(D, m, H) == [c \in Clients |-> IF c \in D THEN <<m>> \o H[c] ELSE H[c]]

AddMessageToClientBox(D, m, H) == [c \in Clients |-> IF c \in D THEN Append(H[c], m) ELSE H[c]]

\* The first write decides the type of a variable; later ones must have it.
Accepts(m) == written[m.var] = 0 \/ type[m.var] = m.type

Store(m) ==
    /\ type'    = [type EXCEPT ![m.var] = m.type]
    /\ written' = [written EXCEPT ![m.var] = @ + 1]
    /\ val'     = [val EXCEPT ![m.var] = m.val]
    /\ who'     = [who EXCEPT ![m.var] = m.src]
    /\ writers' = [writers EXCEPT ![m.var] = @ \cup {m.src}]
    /\ wtime'   = [wtime EXCEPT ![m.var] = now]

Notify(m, S, F, H) ==
    LET S1 == SubscribersAtWrite(m, S, F)
        D  == IF Accepts(m) THEN Due(S1) ELSE {}
    IN  /\ exists' = exists \cup {m.var}
        /\ IF Accepts(m) THEN Store(m) ELSE UNCHANGED varState
        /\ subs' = [S EXCEPT ![m.var] =
                       [c \in Clients |-> IF c \in D THEN SetLastTimeSent(S1[c]) ELSE S1[c]]]
        /\ filters' = F
        /\ held' = AddMessageToClientBox(D, m, H)

\* A notification of variable v: its value is the number of this write.
Notification(v, src, t) == [var |-> v, src |-> src, type |-> t, val |-> written[v] + 1]

OwnNotification(v) == Notification(v, DBName, OwnType[v])

\* Room for one more write of v and one more message in every box.
Room(v) == written[v] < MaxWrites /\ \A c \in Clients : Len(held[c]) < MaxHeld

-------------------------------------------------------------------------------
(* OnRxPkt: the messages of one packet, each handled by ProcessMsg         *)

BeginPkt(c) ==
    /\ phase = "idle"
    /\ c \in connected
    /\ phase' = "rx"
    /\ cur' = c
    /\ UNCHANGED <<exists, varState, subs, filters, held, connected, todo, summaryTime, now, history>>

InPkt == phase = "rx"

\* A subscription made by a write lifts the refusal that history recorded.
Undecline(v, S1) == [c \in Clients |-> IF S1[c] # subs[v][c] THEN declined[c] \ {v} ELSE declined[c]]

OnNotify(v, src, t) ==
    LET m == Notification(v, src, t)
    IN  /\ InPkt
        /\ Room(v)
        /\ Notify(m, subs, filters, held)
        /\ declined' = Undecline(v, SubscribersAtWrite(m, subs, filters))
        /\ UNCHANGED <<connected, pktState, now, seen, wild>>

\* Mutant: a variable that exists is taken to have a value.
HasName(v) == v \in exists

\* There is a value of v to send to a client that registers.
HasValue(v) == v \in exists /\ written[v] # 0

\* What OnRegister leaves of a subscription of the client to v with interval p.
Registration(v, p) == [period |-> p, last |-> IF HasValue(v) THEN now ELSE 0]

OnRegister(v, p) ==
    /\ InPkt
    /\ Room(v)
    /\ exists' = exists \cup {v}
    /\ subs' = [subs EXCEPT ![v][cur] = Registration(v, p)]
    /\ held' = IF HasValue(v)
               THEN [held EXCEPT ![cur] = Append(@, Var2Msg(v))]
               ELSE held
    /\ declined' = [declined EXCEPT ![cur] = @ \ {v}]
    /\ UNCHANGED <<varState, filters, connected, pktState, now, seen, wild>>

\* The existing variables a filter matches, by the source that last wrote them.
Matched(f) == {v \in exists : Matches(f, who[v], v)}

\* Mutant: the client is subscribed but the present values are not sent.
NoOrders(S) == {<<>>}

\* The orders in which the hash map may hand out the variables of S.
Orders(S) ==
    {o \in UNION {[1 .. n -> S] : n \in 0 .. MaxHeld} :
        /\ \A v \in S : \E i \in DOMAIN o : o[i] = v
        /\ \A i, j \in DOMAIN o : o[i] = o[j] => i = j}

\* The filter is put in a std::set that ignores the interval: an equal one stays as it was.
OnWildcardRegister(f, p) ==
    /\ InPkt
    /\ filters' = [filters EXCEPT ![cur][f] = IF @ = -1 THEN p ELSE @]
    /\ wild' = [wild EXCEPT ![cur][f] = p]
    /\ subs' = [v \in Vars |->
                   IF v \in Matched(f) THEN [subs[v] EXCEPT ![cur] = Registration(v, p)] ELSE subs[v]]
    /\ \E o \in Orders({v \in Matched(f) : written[v] # 0}) :
           /\ Len(held[cur]) + Len(o) <= MaxHeld
           /\ held' = [held EXCEPT ![cur] = @ \o [i \in DOMAIN o |-> Var2Msg(o[i])]]
    /\ declined' = [declined EXCEPT ![cur] = @ \ Matched(f)]
    /\ UNCHANGED <<exists, varState, connected, pktState, now, seen>>

OnUnRegister(v) ==
    /\ InPkt
    /\ subs' = IF v \in exists THEN [subs EXCEPT ![v][cur] = NoSub] ELSE subs
    /\ declined' = [declined EXCEPT ![cur] = @ \cup {v}]
    /\ UNCHANGED <<exists, varState, filters, held, connected, pktState, now, seen, wild>>

\* Every matching variable is unregistered; the filter itself stays in m_ClientFilters.
OnWildcardUnRegister(f) ==
    /\ InPkt
    /\ subs' = [v \in Vars |->
                   IF v \in Matched(f) THEN [subs[v] EXCEPT ![cur] = NoSub] ELSE subs[v]]
    /\ wild' = [wild EXCEPT ![cur][f] = -1]
    /\ declined' = [declined EXCEPT ![cur] = @ \cup Matched(f)]
    /\ UNCHANGED <<exists, varState, filters, held, connected, pktState, now, seen>>

\* Mutant: DB_CLEAR leaves the notification queues alone.
KeptBoxes == held

ClearedBoxes == [c \in Clients |-> <<>>]

\* DB_CLEAR: every variable is Reset (not its type, not its subscribers), every box emptied.
OnClearRequested ==
    /\ InPkt
    /\ written' = [v \in Vars |-> 0]
    /\ val'     = [v \in Vars |-> 0]
    /\ who'     = [v \in Vars |-> NoSource]
    /\ writers' = [v \in Vars |-> {}]
    /\ wtime'   = [v \in Vars |-> 0]
    /\ held'    = ClearedBoxes
    /\ seen'    = [c \in Clients |-> [v \in Vars |-> 0]]
    /\ UNCHANGED <<exists, type, subs, filters, connected, pktState, now, wild, declined>>

-------------------------------------------------------------------------------
(* The end of OnRxPkt, and OnFetchAllMail                                  *)

\* The position of the last message about v in box s.
LastAbout(s, v) == CHOOSE i \in DOMAIN s : s[i].var = v /\ \A j \in DOMAIN s : s[j].var = v => j <= i

\* The newest value of v known to a client that last saw old and is then sent box s.
NewestIn(s, v, old) ==
    IF \E i \in DOMAIN s : s[i].var = v THEN s[LastAbout(s, v)].val ELSE old

\* The newest value of v that client c was sent or will be sent.
Newest(c, v) == NewestIn(held[c], v, seen[c][v])

\* Mutant: the box is emptied and its messages are lost.
Discard(c) ==
    /\ held' = [held EXCEPT ![c] = <<>>]
    /\ UNCHANGED seen

\* The whole box is spliced into the reply.
Deliver(c) ==
    /\ held' = [held EXCEPT ![c] = <<>>]
    /\ seen' = [seen EXCEPT ![c] = [v \in Vars |-> Newest(c, v)]]

EndRx ==
    /\ phase = "rx"
    /\ IF now - summaryTime > SummaryPeriod
       THEN /\ summaryTime' = now
            /\ phase' = "summary"
            /\ todo' = 1
            /\ UNCHANGED <<held, seen, cur>>
       ELSE /\ Deliver(cur)
            /\ phase' = "idle"
            /\ cur' = Nobody
            /\ UNCHANGED <<todo, summaryTime>>
    /\ UNCHANGED <<exists, varState, subs, filters, connected, now, wild, declined>>

\* UpdateDBTimeVars, UpdateDBClientsVar, UpdateSummaryVar, UpdateQoSVar, UpdateReadWriteSummaryVar.
UpdateSummary ==
    /\ phase = "summary"
    /\ todo <= Len(SummaryVars)
    /\ Room(SummaryVars[todo])
    /\ LET m == OwnNotification(SummaryVars[todo])
       IN  /\ Notify(m, subs, filters, held)
           /\ declined' = Undecline(m.var, SubscribersAtWrite(m, subs, filters))
    /\ todo' = todo + 1
    /\ UNCHANGED <<connected, phase, cur, summaryTime, now, seen, wild>>

\* UpdateQoSVar returns early while the server has no timing statistics.
SkipSummary ==
    /\ phase = "summary"
    /\ todo <= Len(SummaryVars)
    /\ SummaryVars[todo] = QosVar
    /\ todo' = todo + 1
    /\ UNCHANGED <<exists, varState, subs, filters, held, connected, phase, cur, summaryTime, now, history>>

EndSummary ==
    /\ phase = "summary"
    /\ todo > Len(SummaryVars)
    /\ Deliver(cur)
    /\ phase' = "idle"
    /\ cur' = Nobody
    /\ todo' = 0
    /\ UNCHANGED <<exists, varState, subs, filters, connected, summaryTime, now, wild, declined>>

OnFetchAllMail(c) ==
    /\ phase = "idle"
    /\ c \in connected
    /\ held[c] # <<>>
    /\ Deliver(c)
    /\ UNCHANGED <<exists, varState, subs, filters, connected, pktState, now, wild, declined>>

-------------------------------------------------------------------------------
(* Connections                                                             *)

\* Called on the listen thread, between any two steps of the server thread.
OnConnect(c) ==
    /\ c \notin connected
    /\ Room(EventVar)
    /\ connected' = connected \cup {c}
    /\ LET m == OwnNotification(EventVar)
       IN  /\ Notify(m, subs, filters, held)
           /\ declined' = Undecline(EventVar, SubscribersAtWrite(m, subs, filters))
    /\ UNCHANGED <<pktState, now, seen, wild>>

\* Mutant: the filters of a client outlive its connection.
KeepFilters(c) == filters

ClearFilters(c) == [filters EXCEPT ![c] = [f \in FilterIds |-> -1]]

\* Mutant: the departure of a client ends everybody's subscriptions.
RemoveSubscribers(c) == [v \in Vars |-> [d \in Clients |-> NoSub]]

RemoveSubscriber(c) == [v \in Vars |-> [subs[v] EXCEPT ![c] = NoSub]]

EraseBox(c) == [held EXCEPT ![c] = <<>>]

\* Subscriptions, filters and mail go first, then everybody else is told.
OnDisconnect(c) ==
    /\ phase = "idle"
    /\ c \in connected
    /\ Room(EventVar)
    /\ connected' = connected \ {c}
    /\ LET m == OwnNotification(EventVar)
       IN  /\ Notify(m, RemoveSubscriber(c), ClearFilters(c), EraseBox(c))
           /\ declined' = [Undecline(EventVar, SubscribersAtWrite(m, subs, ClearFilters(c))) EXCEPT ![c] = {}]
    /\ seen' = [seen EXCEPT ![c] = [v \in Vars |-> 0]]
    /\ wild' = [wild EXCEPT ![c] = [f \in FilterIds |-> -1]]
    /\ UNCHANGED <<pktState, now>>

Tick ==
    /\ now < MaxTime
    /\ now' = now + 1
    /\ UNCHANGED <<exists, varState, subs, filters, held, connected, pktState, history>>

-------------------------------------------------------------------------------

Init ==
    /\ exists = OwnVars
    /\ type = [v \in Vars |-> IF v \in OwnVars THEN MadeType[v] ELSE NotSet]
    /\ written = [v \in Vars |-> 0]
    /\ val = [v \in Vars |-> 0]
    /\ who = [v \in Vars |-> IF v \in OwnVars THEN DBName ELSE NoSource]
    /\ writers = [v \in Vars |-> {}]
    /\ wtime = [v \in Vars |-> IF v \in OwnVars THEN StartTime ELSE 0]
    /\ subs = [v \in Vars |-> [c \in Clients |-> NoSub]]
    /\ filters = [c \in Clients |-> [f \in FilterIds |-> -1]]
    /\ held = [c \in Clients |-> <<>>]
    /\ connected = {}
    /\ phase = "idle"
    /\ cur = Nobody
    /\ todo = 0
    /\ summaryTime = StartTime
    /\ now = StartTime
    /\ seen = [c \in Clients |-> [v \in Vars |-> 0]]
    /\ wild = [c \in Clients |-> [f \in FilterIds |-> -1]]
    /\ declined = [c \in Clients |-> {}]

ProcessMsg ==
    \/ \E v \in Vars, s \in Sources, t \in Types : OnNotify(v, s, t)
    \/ \E v \in Vars, p \in Periods : OnRegister(v, p)
    \/ \E f \in FilterIds, p \in Periods : OnWildcardRegister(f, p)
    \/ \E v \in Vars : OnUnRegister(v)
    \/ \E f \in FilterIds : OnWildcardUnRegister(f)
    \/ OnClearRequested

Next ==
    \/ \E c \in Clients : BeginPkt(c) \/ OnFetchAllMail(c) \/ OnConnect(c) \/ OnDisconnect(c)
    \/ ProcessMsg
    \/ EndRx \/ UpdateSummary \/ SkipSummary \/ EndSummary
    \/ Tick

Spec == Init /\ [][Next]_vars

-------------------------------------------------------------------------------
(* Properties                                                              *)

TypeOK ==
    /\ exists \subseteq Vars
    /\ type \in [Vars -> Types \cup {NotSet}]
    /\ written \in [Vars -> Nat]
    /\ val \in [Vars -> Nat]
    /\ who \in [Vars -> Sources \cup {NoSource}]
    /\ writers \in [Vars -> SUBSET Sources]
    /\ wtime \in [Vars -> Nat]
    /\ subs \in [Vars -> [Clients -> RegisterInfo \cup {NoSub}]]
    /\ filters \in [Clients -> [FilterIds -> Periods \cup {-1}]]
    /\ held \in [Clients -> Seq(Msg)]
    /\ connected \subseteq Clients
    /\ phase \in {"idle", "rx", "summary"}
    /\ cur \in Clients \cup {Nobody}
    /\ todo \in Nat
    /\ summaryTime \in Nat
    /\ now \in Nat
    /\ seen \in [Clients -> [Vars -> Nat]]
    /\ wild \in [Clients -> [FilterIds -> Periods \cup {-1}]]
    /\ declined \in [Clients -> SUBSET Vars]

\* NothingForTheDeparted: a client that is not connected has no subscription, no wildcard
\* filter and no held mail, so a later client of the same name starts clean (OnDisconnect).
NothingForTheDeparted ==
    \A c \in Clients \ connected :
        /\ \A v \in Vars : ~Subscribed(v, c)
        /\ \A f \in FilterIds : filters[c][f] = -1
        /\ held[c] = <<>>

\* MailIsGenuine: every message waiting in a box is about a variable that exists, has the type
\* that variable has now, names one of its recorded writers and carries a value written to it
\* since the last DB_CLEAR (OnNotify, OnRegister, OnClearRequested).
MailIsGenuine ==
    \A c \in Clients : \A i \in DOMAIN held[c] :
        LET m == held[c][i]
        IN  /\ m.var \in exists
            /\ m.type = type[m.var]
            /\ m.src \in writers[m.var]
            /\ m.val \in 1 .. val[m.var]

\* MailInWriteOrder: a client is sent the values of a variable in the order they were written:
\* no held message is older than one before it, or than one already sent.
MailInWriteOrder ==
    \A c \in Clients : \A i \in DOMAIN held[c] :
        /\ seen[c][held[c][i].var] <= held[c][i].val
        /\ \A j \in DOMAIN held[c] :
               i < j /\ held[c][i].var = held[c][j].var => held[c][i].val <= held[c][j].val

\* StaleOnlyWhenThrottled: the newest value a subscriber was or will be sent is the current
\* one, unless the last write fell inside the interval it registered with (OnNotify,
\* OnRegister): in particular a subscriber without an interval misses nothing.
StaleOnlyWhenThrottled ==
    \A c \in Clients, v \in Vars :
        (Subscribed(v, c) /\ written[v] # 0 /\ Newest(c, v) # val[v])
            => wtime[v] - subs[v][c].last \in 0 .. subs[v][c].period - 1

\* WildcardsCover: a client that holds a wildcard filter is subscribed to every variable the
\* filter matches by name and whose writers all match, unless it has unregistered from it
\* (OnNotify for variables written later, OnRegister for those written before).
WildcardsCover ==
    \A c \in Clients, f \in FilterIds, v \in Vars :
        ( /\ wild[c][f] # -1
          /\ v \in FilterVar[f]
          /\ written[v] # 0
          /\ writers[v] \subseteq FilterApp[f] )
            => Subscribed(v, c) \/ v \in declined[c]

\* A write of v makes client c a subscriber.
SubscribedByWrite(c, v) ==
    /\ written[v] = 0
    /\ written'[v] # 0
    /\ subs[v][c] = NoSub
    /\ subs'[v][c] # NoSub

\* WildcardUnRegisterHolds: a write subscribes a client only through a filter the client has
\* not unregistered (OnUnRegister with MOOS_WILDCARD_UNREGISTER).
WildcardUnRegisterHolds ==
    [][\A c \in Clients, v \in Vars :
          SubscribedByWrite(c, v) => \E f \in FilterIds : wild[c][f] # -1 /\ v \in FilterVar[f]]_vars

\* LatestIntervalCounts: while a client has unregistered none of its filters, a write
\* subscribes it with the interval it last asked for with one of them (OnRegister with
\* MOOS_WILDCARD_REGISTER, which re-registers the variables that exist with the new interval).
LatestIntervalCounts ==
    [][\A c \in Clients, v \in Vars :
          (SubscribedByWrite(c, v) /\ \A f \in FilterIds : filters[c][f] # -1 => wild[c][f] # -1)
              => \E f \in FilterIds : wild[c][f] = subs'[v][c].period]_vars

===============================================================================
