-------------------------------- MODULE Audit --------------------------------
(***************************************************************************)
(* What the system measures of itself.  The server thread enters traffic   *)
(* and latencies into ServerAudit, whose own thread takes and clears the   *)
(* recent figures once a second and then sends them, row by row, until a   *)
(* row cannot be sent; the database publishes the latencies as             *)
(* DB_QOS and a client that monitors keeps a ClientCommsStatus for each    *)
(* name.  EndToEndAudit collects a record of each message a client gets    *)
(* and a thread of its own multicasts them.  Latencies are whole           *)
(* milliseconds; the average is kept as its sum, a fifth of which it is.   *)
(***************************************************************************)
EXTENDS Integers, Sequences, SequencesExt

CONSTANTS AuditClients,     \* client names
          Latencies,        \* measured latencies; negative when clocks differ
          NoLatencyYet,     \* 1e9, more than any latency
          Window,           \* messages the moving average is over (5)
          MaxTraffic,       \* bound: bytes entered for a client, and records of end to end delays
          MaxTimings        \* bound: timing messages

ASSUME AuditAssumption ==
    /\ Latencies \subseteq Int /\ NoLatencyYet \in Int
    /\ \A l \in Latencies : l < NoLatencyYet
    /\ Window \in Nat \ {0}

VARIABLES audits,           \* Audits_
          auditor,          \* the thread of ServerAudit: "waits", "sends", or "gave up" when it could not send
          auditTable,       \* the rows of the report being sent that were not sent yet: client to bytes
          dbQos,            \* DB_QOS: the last summary published
          statuses,         \* m_ClientStatuses of a monitoring client
          delays,           \* message_statistics_
          sending,          \* message_stats_to_send
          auditSeen,        \* history: per client, latencies entered since its entry was made
          auditEntered,     \* history: per client, bytes entered
          auditTold,        \* history: per client, bytes in reports that were sent
          auditErased,      \* history: per client, bytes that went with its entry
          multicast         \* history: records multicast

bytesTold == <<auditEntered, auditTold, auditErased>>
auditVars == <<audits, auditor, auditTable, dbQos, statuses, delays, sending, auditSeen, bytesTold, multicast>>

NewAudit == [recently |-> 0, n |-> 0, max |-> 0, min |-> NoLatencyYet, recent |-> 0, sum |-> 0, avg |-> 0]

AuditInit ==
    /\ audits = <<>> /\ auditor = "waits" /\ auditTable = <<>> /\ dbQos = <<>> /\ statuses = <<>>
    /\ delays = <<>> /\ sending = <<>> /\ multicast = <<>>
    /\ auditSeen = [c \in AuditClients |-> <<>>]
    /\ auditEntered = [c \in AuditClients |-> 0] /\ auditTold = auditEntered /\ auditErased = auditEntered

\* Audits_[c], which makes the entry if there is none.
Entry(c) == IF c \in DOMAIN audits THEN audits[c] ELSE NewAudit
WithEntry(c, a) == [d \in DOMAIN audits \cup {c} |-> IF d = c THEN a ELSE audits[d]]

----------------------------------------------------------------------------
(* ServerAudit. *)

AddStatistic(c) ==
    /\ auditEntered[c] < MaxTraffic
    /\ audits' = WithEntry(c, [Entry(c) EXCEPT !.recently = @ + 1])
    /\ auditEntered' = [auditEntered EXCEPT ![c] = @ + 1]
    /\ UNCHANGED <<auditor, auditTable, dbQos, statuses, delays, sending, auditSeen, auditTold, auditErased, multicast>>

\* Mutant: the sum of latencies only grows.
KeepAdding(a) == a.sum

\* What is left of the sum when the window is full: the last latency makes way for the new one.
SumWithoutLast(a) == a.sum - a.recent

AddTimingStatistic(c, l) ==
    /\ Entry(c).n < MaxTimings
    /\ LET a == Entry(c)
           b == [a EXCEPT !.n = @ + 1, !.sum = @ + l,
                          !.max = IF l > @ THEN l ELSE @, !.min = IF l < @ THEN l ELSE @]
       IN audits' = WithEntry(c, IF b.n < Window THEN b
                                 ELSE [b EXCEPT !.sum = SumWithoutLast(b), !.recent = l, !.avg = SumWithoutLast(b)])
    /\ auditSeen' = [auditSeen EXCEPT ![c] = Append(@, l)]
    /\ UNCHANGED <<auditor, auditTable, dbQos, statuses, delays, sending, bytesTold, multicast>>

\* A client is gone, and with it the figures of it that no report has taken.
RemoveAudit(c) ==
    /\ c \in DOMAIN audits
    /\ audits' = [d \in DOMAIN audits \ {c} |-> audits[d]]
    /\ auditSeen' = [auditSeen EXCEPT ![c] = <<>>]
    /\ auditErased' = [auditErased EXCEPT ![c] = @ + audits[c].recently]
    /\ UNCHANGED <<auditor, auditTable, dbQos, statuses, delays, sending, auditEntered, auditTold, multicast>>

\* Mutant: the report leaves the recent figures as they are.
NotCleared(a) == a

ClearRecents(a) == [a EXCEPT !.recently = 0]

\* Work: under the lock the table is composed and the recent figures are cleared.
ComposeReport ==
    /\ auditor = "waits"
    /\ auditor' = "sends"
    /\ auditTable' = [c \in DOMAIN audits |-> audits[c].recently]
    /\ audits' = [c \in DOMAIN audits |-> ClearRecents(audits[c])]
    /\ UNCHANGED <<dbQos, statuses, delays, sending, auditSeen, bytesTold, multicast>>

\* The bytes that wait in the table for their row to be sent.
InTable(c) == IF c \in DOMAIN auditTable THEN auditTable[c] ELSE 0

\* The rows rs are sent, after the lock was given back.
SendRows(rs) ==
    /\ auditor = "sends"
    /\ auditTold' = [c \in AuditClients |-> IF c \in rs THEN auditTold[c] + InTable(c) ELSE auditTold[c]]
    /\ UNCHANGED <<audits, dbQos, statuses, delays, sending, auditSeen, auditEntered, auditErased, multicast>>

SendReport == SendRows(DOMAIN auditTable) /\ auditor' = "waits" /\ auditTable' = <<>>

\* A chunk cannot be sent: the thread ends, and the rows not sent by then are told nowhere.
SendFails(rs) == SendRows(rs) /\ auditor' = "gave up" /\ auditTable' = <<>>

----------------------------------------------------------------------------
(* DB_QOS and the clients that watch it. *)

GetTimingStatisticSummary == [c \in DOMAIN audits |-> [recent |-> audits[c].recent, max |-> audits[c].max,
                                                       min |-> audits[c].min, avg |-> audits[c].avg]]

UpdateQoSVar ==
    /\ dbQos' = GetTimingStatisticSummary
    /\ UNCHANGED <<audits, auditor, auditTable, statuses, delays, sending, auditSeen, bytesTold, multicast>>

\* A name in the summary is added or updated; nothing removes one.
StatusNames == DOMAIN statuses \cup DOMAIN dbQos

ProcessClientCommsStatusSummary ==
    /\ dbQos # <<>>
    /\ statuses' = [c \in StatusNames |-> IF c \in DOMAIN dbQos THEN dbQos[c] ELSE statuses[c]]
    /\ UNCHANGED <<audits, auditor, auditTable, dbQos, delays, sending, auditSeen, bytesTold, multicast>>

----------------------------------------------------------------------------
(* EndToEndAudit.  A record is its number. *)

AddForAudit ==
    /\ Len(multicast) + Len(sending) + Len(delays) < MaxTraffic
    /\ delays' = Append(delays, Len(multicast) + Len(sending) + Len(delays) + 1)
    /\ UNCHANGED <<audits, auditor, auditTable, dbQos, statuses, sending, auditSeen, bytesTold, multicast>>

\* Mutant: the records are copied, not swapped.
Copied == delays

Swapped == <<>>

TakeRecords ==
    /\ sending = <<>> /\ delays # <<>>
    /\ sending' = delays /\ delays' = Swapped
    /\ UNCHANGED <<audits, auditor, auditTable, dbQos, statuses, auditSeen, bytesTold, multicast>>

TransmitRecord ==
    /\ sending # <<>>
    /\ multicast' = Append(multicast, Head(sending)) /\ sending' = Tail(sending)
    /\ UNCHANGED <<audits, auditor, auditTable, dbQos, statuses, delays, auditSeen, bytesTold>>

AuditNext ==
    \/ \E c \in AuditClients : AddStatistic(c) \/ RemoveAudit(c) \/ \E l \in Latencies : AddTimingStatistic(c, l)
    \/ ComposeReport \/ SendReport \/ (\E rs \in SUBSET DOMAIN auditTable : SendFails(rs))
    \/ UpdateQoSVar \/ ProcessClientCommsStatusSummary
    \/ AddForAudit \/ TakeRecords \/ TransmitRecord

AuditSpec == AuditInit /\ [][AuditNext]_auditVars

----------------------------------------------------------------------------
(* AddTimingStatistic: the average the database publishes lies between the extremes it publishes with
   it, and these are the extremes of what was measured (or 0, for the largest), also for latencies that
   come out negative. *)
AverageWithinExtremes ==
    \A c \in DOMAIN audits :
        LET a == audits[c]
            seen == ToSet(auditSeen[c]) IN
        /\ \A l \in seen : a.min <= l /\ l <= a.max
        /\ seen # {} => a.min \in seen /\ a.max \in seen \cup {0}
        /\ a.n >= Window => Window * a.min <= a.avg /\ a.avg <= Window * a.max

(* Work, AddStatistic, Remove: bytes are added while a report is composed and sent.  None is told twice,
   and until a report cannot be sent each is in one report, waits for one, or went with the entry of a
   client that was removed between two reports. *)
BytesReportedOnce ==
    \A c \in AuditClients :
        LET known == auditTold[c] + InTable(c) + Entry(c).recently + auditErased[c] IN
        /\ known <= auditEntered[c]
        /\ auditor # "gave up" => known = auditEntered[c]

(* TransmitWorker, AddForAudit: each record is multicast once and in order, although records are added
   while others are sent. *)
RecordsSentOnce ==
    LET all == multicast \o sending \o delays IN \A i \in 1 .. Len(all) : all[i] = i

(* The moving average of the latency (ServerAudit.h) is the mean of the last Window latencies. *)
AverageMoves ==
    \A c \in DOMAIN audits :
        LET s == auditSeen[c]
            k == Len(s) IN
        k >= Window => audits[c].avg = FoldLeft(LAMBDA x, y : x + y, 0, SubSeq(s, k - Window + 1, k))

(* All that is promised of the audit: what it tells is what happened, and once. *)
AuditIsTrue == AverageWithinExtremes /\ BytesReportedOnce /\ RecordsSentOnce
=============================================================================
