------------------------------ MODULE Topology ------------------------------
(***************************************************************************)
(* Who publishes what to whom: the database's summary of the readers and   *)
(* writers of its variables, the table of client statuses that a           *)
(* monitoring client builds from it, and gtm, which samples the table and  *)
(* draws the routes of a community.                                        *)
(***************************************************************************)
EXTENDS Strings, FiniteSets

CONSTANTS TopClients,    \* the clients' names, in order, each one character
          TopVars,       \* variables, each one character
          StatusVar,     \* a variable that every client publishes
          Gtm,           \* the name gtm runs under
          MaxChanges,    \* bound: changes of the community
          MaxSamples     \* bound: times gtm samples before it draws

VARIABLES topPresent,    \* the clients of the server
          topSub, topPub,\* per client: the variables it reads and writes
          topMail,       \* messages in the queue "_ClientSummaries"
          topQueue,      \* that queue exists
          topTable,      \* m_ClientStatuses
          topStatuses,   \* statuses_ of gtm
          topKnown,      \* known_messages_: the producers and consumers of each variable
          topFile,       \* the edges of moos.dot, and its red nodes
          topCount,      \* changes and samples so far
          topShown,      \* history: readings and writings summarised ever, in the table, at the last sample
          topNameless    \* history: a status without a name was sampled

topVars == <<topPresent, topSub, topPub, topMail, topQueue, topTable, topStatuses, topKnown, topFile,
             topCount, topShown, topNameless>>

TopNames == {TopClients[i] : i \in DOMAIN TopClients}
Nameless == <<>>
NoStatus == [name |-> Nameless, sub |-> <<>>, pub |-> <<>>]
NotDrawn == [edges |-> {}, red |-> {}, drawn |-> FALSE]
Elements(s) == {s[i] : i \in DOMAIN s}

TopInit ==
    /\ topPresent = {Gtm} /\ topSub = [c \in TopNames |-> IF c = Gtm THEN TopVars ELSE {}]
    /\ topPub = [c \in TopNames |-> {StatusVar}]
    /\ topMail = <<>> /\ topQueue = FALSE /\ topTable = <<>> /\ topStatuses = <<>> /\ topKnown = <<>>
    /\ topFile = NotDrawn /\ topCount = [changes |-> 0, samples |-> 0] /\ topShown = [ever |-> {}, now |-> {}, last |-> {}] /\ topNameless = FALSE

\* The community changes: a client comes with a reading or a writing, or leaves.
Change(c) ==
    /\ ~topFile.drawn /\ topCount.changes < MaxChanges
    /\ topCount' = [topCount EXCEPT !.changes = @ + 1]
    /\ \/ \E x \in TopVars : \/ topSub' = [topSub EXCEPT ![c] = @ \cup {x}] /\ UNCHANGED topPub
                             \/ topPub' = [topPub EXCEPT ![c] = @ \cup {x}] /\ UNCHANGED topSub
          /\ topPresent' = topPresent \cup {c}
       \/ topPresent' = topPresent \ {c} /\ topSub' = [topSub EXCEPT ![c] = {}] /\ UNCHANGED topPub
    /\ UNCHANGED <<topMail, topQueue, topTable, topStatuses, topKnown, topFile, topShown, topNameless>>

----------------------------------------------------------------------------
\* The summaries of the database, which go to the queue if gtm has one.
InOrder(S, order) == SelectSeq(order, LAMBDA x : x \in S)
VarOrder == LET V == TopVars \cup {StatusVar} IN CHOOSE s \in [1 .. Cardinality(V) -> V] : Elements(s) = V

PrintCollection(s, delim) == [i \in 1 .. 2 * Len(s) - 1 |-> IF i % 2 = 1 THEN s[(i + 1) \div 2] ELSE delim]
Concat(ss, delim) ==
    LET upto[n \in Nat] == IF n = 0 THEN <<>> ELSE upto[n - 1] \o (IF n = 1 THEN <<>> ELSE <<delim>>) \o ss[n]
    IN  upto[Len(ss)]

ReadWriteSummary ==
    LET clients == InOrder(topPresent, TopClients)
        of(c) == <<c, "=">> \o PrintCollection(InOrder(topSub[c], VarOrder), ":") \o <<"&">>
                            \o PrintCollection(InOrder(topPub[c], VarOrder), ":")
    IN  Concat([i \in DOMAIN clients |-> of(clients[i])], ",")

(* The replies to a client's requests, which only read; the reply made last stands first.  DB_CLEAR and
   what the variables hold are the subject of MOOSDB. *)
Reversed(s) == [i \in 1 .. Len(s) |-> s[Len(s) + 1 - i]]
Listed(S) == LET s == InOrder(S, VarOrder) IN [i \in 1 .. 2 * Len(s) |-> IF i % 2 = 1 THEN "," ELSE s[i \div 2]]

OnProcessSummaryRequested ==
    LET clients == InOrder(topPresent, TopClients)
        of(c) == <<c, ":", "SUBSCRIBED=">> \o Listed(topSub[c]) \o <<",", "PUBLISHED=">> \o Listed(topPub[c])
    IN  Reversed([i \in DOMAIN clients |-> of(clients[i])])

OnServerAllRequested == Reversed([i \in DOMAIN VarOrder |-> <<VarOrder[i]>>])
OnVarSummaryRequested == <<PrintCollection(VarOrder, ",")>>

DoServerRequest(key) ==
    CASE key = "ALL" -> OnServerAllRequested
      [] key = "PROC_SUMMARY" -> OnProcessSummaryRequested
      [] key = "VAR_SUMMARY" -> OnVarSummaryRequested
      [] OTHER -> <<>>

Truth == UNION {{<<<<c>>, "sub", <<x>>>> : x \in topSub[c]} : c \in topPresent}
         \cup UNION {{<<<<c>>, "pub", <<x>>>> : x \in topPub[c]} : c \in topPresent}

Summarised(key, val) ==
    /\ topQueue /\ topMail = <<>> /\ ~topFile.drawn
    /\ topMail' = <<[key |-> key, val |-> val, truth |-> Truth]>>
    /\ UNCHANGED <<topPresent, topSub, topPub, topQueue, topTable, topStatuses, topKnown, topFile, topCount,
                   topShown, topNameless>>

UpdateReadWriteSummaryVar == \E s \in {ReadWriteSummary} : Summarised("DB_RWSUMMARY", s)

\* The latencies of the clients there are statistics of.
QoSOf(C) == Summarised("DB_QOS", Concat([i \in 1 .. Len(InOrder(C, TopClients)) |->
                                                   <<InOrder(C, TopClients)[i], "=", "0">>], ","))

----------------------------------------------------------------------------
\* Monitoring begins when the client has connected: two subscriptions, a queue and its two routes.
ControlClientCommsStatusMonitoring ==
    /\ ~topQueue /\ topQueue' = TRUE
    /\ UNCHANGED <<topPresent, topSub, topPub, topMail, topTable, topStatuses, topKnown, topFile, topCount,
                   topShown, topNameless>>

StatusOf(table, c) == IF c \in DOMAIN table THEN table[c] ELSE NoStatus
WithStatus(table, c, status) == [k \in DOMAIN table \cup {c} |-> IF k = c THEN status ELSE table[k]]

\* One entry of DB_QOS gives its client a name in the table; the latencies are left out here.
AbsorbQoS(table, entry) ==
    LET c == MOOSChomp(entry, <<"=">>).head IN
    WithStatus(table, c, [StatusOf(table, c) EXCEPT !.name = c])

\* One entry of DB_RWSUMMARY replaces the two lists of its client.
AbsorbSummary(table, entry) ==
    LET c == MOOSChomp(entry, <<"=">>)
        lists == MOOSChomp(c.rest, <<"&">>)
    IN  WithStatus(table, c.head,
            [StatusOf(table, c.head) EXCEPT !.sub = StringListToVector(lists.head, <<":">>),
                                            !.pub = StringListToVector(MOOSChomp(lists.rest, <<"&">>).head, <<":">>)])

\* Entry by entry, under m_ClientStatusLock, on the queue's thread; clients that left keep their entry.
Absorb(key, table, entries) ==
    LET upto[n \in Nat] ==
            IF n = 0 THEN table
            ELSE IF key = "DB_QOS" THEN AbsorbQoS(upto[n - 1], entries[n]) ELSE AbsorbSummary(upto[n - 1], entries[n])
    IN  upto[Len(entries)]

TopProcessSummary ==
    /\ topMail # <<>> /\ topMail' = <<>>
    /\ topTable' = Absorb(topMail[1].key, topTable, StringListToVector(topMail[1].val, <<",">>))
    /\ topShown' = IF topMail[1].key = "DB_QOS" THEN topShown
                   ELSE [topShown EXCEPT !.ever = @ \cup topMail[1].truth, !.now = topMail[1].truth]
    /\ UNCHANGED <<topPresent, topSub, topPub, topQueue, topStatuses, topKnown, topFile, topCount, topNameless>>

----------------------------------------------------------------------------
(* GetClientCommsStatuses, and gtm keeps each status under the name it carries: of several with the
   same name the one whose client comes last. *)
StatusNamed(n) ==
    LET S == {i \in DOMAIN TopClients : <<TopClients[i]>> \in DOMAIN topTable /\ topTable[<<TopClients[i]>>].name = n}
    IN  IF S = {} THEN topStatuses[n] ELSE topTable[<<TopClients[LastOf(S)]>>]

Sampled == [n \in DOMAIN topStatuses \cup {topTable[c].name : c \in DOMAIN topTable} |-> StatusNamed(n)]

\* UpdateTopology adds the producers and consumers of every status but gtm's own, and takes none away.
Producers(x) == IF x \in DOMAIN topKnown THEN topKnown[x].producers ELSE {}
Consumers(x) == IF x \in DOMAIN topKnown THEN topKnown[x].consumers ELSE {}
UpdateTopology(statuses) ==
    LET others == DOMAIN statuses \ {<<Gtm>>}
        heard == UNION {Elements(statuses[n].sub) \cup Elements(statuses[n].pub) : n \in others}
    IN  topKnown' = [x \in DOMAIN topKnown \cup heard |->
                        [producers |-> Producers(x) \cup {n \in others : x \in Elements(statuses[n].pub)},
                         consumers |-> Consumers(x) \cup {n \in others : x \in Elements(statuses[n].sub)}]]

Sample ==
    /\ ~topFile.drawn /\ topCount.samples < MaxSamples /\ topCount' = [topCount EXCEPT !.samples = @ + 1]
    /\ \E statuses \in {Sampled} : topStatuses' = statuses /\ UpdateTopology(statuses)
    /\ topShown' = [topShown EXCEPT !.last = topShown.now]
    /\ topNameless' = (topNameless \/ \E c \in DOMAIN topTable : topTable[c].name = Nameless)
    /\ UNCHANGED <<topPresent, topSub, topPub, topMail, topQueue, topTable, topFile>>

----------------------------------------------------------------------------
NoConsumer == <<"no consumer">>
NoProducer == <<"no producer">>

\* Variables whose name matches "*_STATUS" are left out; here the pattern is "*" and StatusVar.
IsIgnoredMessage(x) == MOOSWildCmp(<<"*", StatusVar>>, x)

\* Mutant: the links that were made are remembered from client to client.
FirstLink(p, x) == \A q \in Producers(x) \ {p} : \E i, j \in DOMAIN TopClients :
                       p = <<TopClients[i]>> /\ q = <<TopClients[j]>> /\ i < j

\* The first route of a client's variable draws both legs, the others the second leg only.
MakesLink(p, x) == p \in DOMAIN topStatuses

PrintMessageRoute(p, x, c, both, style) ==
    IF IsIgnoredMessage(x) THEN {}
    ELSE (IF both THEN {<<p, x, style>>} ELSE {}) \cup {<<x, c, style>>}

Routes == UNION {UNION {PrintMessageRoute(p, x, c, MakesLink(p, x), "solid") : c \in Consumers(x)} :
                    <<p, x>> \in UNION {{n} \X Elements(topStatuses[n].pub) : n \in DOMAIN topStatuses}}
Orphans == UNION {(IF topKnown[x].consumers = {}
                   THEN UNION {PrintMessageRoute(p, x, NoConsumer, TRUE, "dotted") : p \in topKnown[x].producers}
                   ELSE {})
                  \cup
                  (IF topKnown[x].producers = {}
                   THEN UNION {PrintMessageRoute(NoProducer, x, c, TRUE, "dotted") : c \in topKnown[x].consumers}
                   ELSE {}) : x \in DOMAIN topKnown}

(* When it has sampled long enough gtm draws and exits.  The two flags of a variable that tell it has
   no consumer or no producer are never initialised, so any other variable may come out red as well. *)
PrintTopologyToFile(junk) ==
    /\ ~topFile.drawn /\ topCount.samples = MaxSamples
    /\ LET lone == {x \in DOMAIN topKnown : topKnown[x].consumers = {} \/ topKnown[x].producers = {}}
           shown == {x \in DOMAIN topKnown : ~IsIgnoredMessage(x)}
       IN  topFile' = [edges |-> Routes \cup Orphans, red |-> shown \cap (lone \cup junk), drawn |-> TRUE]
    /\ UNCHANGED <<topPresent, topSub, topPub, topMail, topQueue, topTable, topStatuses, topKnown, topCount,
                   topShown, topNameless>>

TopNext ==
    \/ \E c \in TopNames \ {Gtm} : Change(c)
    \/ UpdateReadWriteSummaryVar
    \/ \E c \in topPresent : QoSOf(topPresent) \/ QoSOf(topPresent \ {c})
    \/ ControlClientCommsStatusMonitoring \/ TopProcessSummary \/ Sample
    \/ \E junk \in {{}, DOMAIN topKnown} : PrintTopologyToFile(junk)

TopSpec == TopInit /\ [][TopNext]_topVars

----------------------------------------------------------------------------
Told(s, c, how, x) == <<c, how, x>> \in s

(* What gtm draws is the community: a route for every publication and subscription of the last
   summary it sampled, and none that no summary told of; a statement about communities all of whose
   statuses have a name, see StatusesAreNamed. *)
RoutesAreDrawn ==
    topFile.drawn /\ ~topNameless =>
        \A x \in {<<v>> : v \in TopVars} : ~IsIgnoredMessage(x) =>
            LET drawn(e) == e \in topFile.edges
                others == {<<c>> : c \in TopNames \ {Gtm}}
            IN  /\ \A p, c \in others :
                      Told(topShown.last, p, "pub", x) /\ Told(topShown.last, c, "sub", x)
                          => drawn(<<p, x, "solid">>) /\ drawn(<<x, c, "solid">>)
                /\ \A c \in others : /\ drawn(<<c, x, "solid">>) => Told(topShown.ever, c, "pub", x)
                                     /\ drawn(<<x, c, "solid">>) => Told(topShown.ever, c, "sub", x)

(* ClientCommsStatus has the name of its client, which GetClientCommsStatuses hands out ("get all
   client statuses"): a status in the table is filed under the name it carries. *)
StatusesAreNamed == \A c \in DOMAIN topTable : topTable[c].name = c

(* Whoever asks the database can read off its replies each client that is present, once, with the
   variables it reads and writes, all of them variables the database has. *)
RequestsAreAnswered ==
    LET replies == DoServerRequest("PROC_SUMMARY")
        words(list) == Elements(StringListToVector(list, <<",">>)) \ {<<>>}
        told(r) == LET who == MOOSChomp(r, <<":">>)
                       lists == MOOSChomp(MOOSChomp(who.rest, <<"SUBSCRIBED=">>).rest, <<"PUBLISHED=">>)
                   IN  <<who.head, words(lists.head), words(lists.rest)>>
        names(S) == {<<x>> : x \in S}
    IN  /\ {told(replies[i]) : i \in DOMAIN replies} = {<<<<c>>, names(topSub[c]), names(topPub[c])>> : c \in topPresent}
        /\ Len(replies) = Cardinality(topPresent)
        /\ words(DoServerRequest("VAR_SUMMARY")[1]) = Elements(DoServerRequest("ALL"))
        /\ \A c \in topPresent : names(topSub[c] \cup topPub[c]) \subseteq Elements(DoServerRequest("ALL"))

(* What gtm and whoever asks are told is the community. *)
GraphIsTheCommunity == RoutesAreDrawn /\ RequestsAreAnswered
=============================================================================
