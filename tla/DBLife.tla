------------------------------- MODULE DBLife -------------------------------
(***************************************************************************)
(* The life of the database process: CMOOSDB::Run takes its settings from  *)
(* the mission file and then from the command line, starts the threads of  *)
(* the communications server, and the destructor stops them while clients  *)
(* are still connecting.  The settings are those on which a test is made   *)
(* (time warp, client timeout, web server port and --response); what the   *)
(* threads do while they run is the subject of ThreadedCommServer.         *)
(***************************************************************************)
EXTENDS Strings

CONSTANTS DBNames,        \* names of clients, as sequences of characters
          Responses,      \* arguments of --response, as sequences of characters
          WarpLimit,      \* MAX_TIME_WARP
          MaxJoins        \* bound: connections that are made

DefaultResponse == <<"0">>                      \* when --response is not given

ASSUME DBAssumption == WarpLimit \in Nat /\ Responses \cup {DefaultResponse} \subseteq Seq(STRING)

VARIABLES given,          \* what the mission file and the command line say
          warp,           \* gdfMOOSTimeWarp
          timeout,        \* m_dfClientTimeout
          web,            \* a web server has been made
          timing,         \* m_ClientTimingVector
          dbOwner,        \* main: configure, start, run, listen, server, clients, base, stopped
          running,        \* m_bRunning of the listen, server and timer threads
          quit,           \* m_bQuitRequested of these threads
          bQuit,          \* m_bQuit of the server
          listener,       \* the listen thread: unborn, bind, select, accept or ended
          calling,        \* clients whose connection waits to be accepted
          joins,          \* number of connections made so far
          clients,        \* m_ClientThreads: the consolidation time of each client's thread
          readers,        \* clients whose reading thread runs
          sockets         \* m_ClientSocketList, by the name of the client

settings == <<given, warp, timeout, web, timing>>
threads == <<running, quit, bQuit, listener>>
dbVars == <<given, warp, timeout, web, timing, dbOwner, running, quit, bQuit, listener, calling, joins,
            clients, readers, sockets>>

Threads == {"listen", "server", "timer"}
Absent == -9                                    \* not given
Warps == {Absent, 0, 2, WarpLimit + 1}
Nothing == [warp |-> Absent, timeout |-> Absent, web |-> Absent]
DefaultTimeout == 5
DefaultWarp == 1

DBInit ==
    /\ \/ given \in [file : {[Nothing EXCEPT !.warp = w] : w \in Warps},
                     cmd : {[Nothing EXCEPT !.warp = w] : w \in Warps}, response : {DefaultResponse}]
       \/ given \in [file : {[warp |-> Absent, timeout |-> 3, web |-> 80]},
                     cmd : [warp : {Absent}, timeout : {Absent, -1}, web : {Absent, 0}],
                     response : {DefaultResponse}]
       \/ given \in [file : {Nothing}, cmd : {Nothing}, response : Responses]
    /\ warp = DefaultWarp /\ timeout = DefaultTimeout /\ web = FALSE /\ timing = <<>>
    /\ dbOwner = "configure"
    /\ running = [t \in Threads |-> FALSE] /\ quit = [t \in Threads |-> FALSE]
    /\ bQuit = FALSE /\ listener = "unborn"
    /\ calling = {} /\ joins = 0 /\ clients = <<>> /\ readers = {} /\ sockets = {}

----------------------------------------------------------------------------
(* CMOOSDB::Run. *)

\* GetValue and then GetVariable leave a variable as it is when nothing is given.
Else(v, default) == IF v = Absent THEN default ELSE v
Chosen(field, default) == Else(given.cmd[field], Else(given.file[field], default))

SetMOOSTimeWarp(w, old) == IF w > 0 /\ w <= WarpLimit THEN w ELSE old

\* Mutant: the value of the command line is stored without a look at its range.
StoreWarp(w, old) == w

\* The value of the mission file is set first, the command line's only when it is positive.
OverrideWarp(w, old) == IF w > 0 THEN SetMOOSTimeWarp(w, old) ELSE old

SetClientTimeout(t, old) == IF t < 0 THEN old ELSE t

ReadSettings ==
    /\ dbOwner = "configure" /\ dbOwner' = "start"
    /\ warp' = OverrideWarp(Chosen("warp", DefaultWarp),
                            SetMOOSTimeWarp(Else(given.file.warp, DefaultWarp), warp))
    /\ timeout' = SetClientTimeout(Chosen("timeout", DefaultTimeout), timeout)
    /\ web' = (Chosen("web", -1) > 0)
    /\ UNCHANGED <<given, timing, running, quit, bQuit, listener, calling, joins, clients, readers,
                   sockets>>

\* One entry of --response: "[client:]ms", for every client when none is named.
Entry(s) ==
    LET named == FindChar(s, ":", 1) # NoPos
        num == IF named THEN MOOSChomp(s, <<":">>).rest ELSE s IN
    [client |-> IF named THEN MOOSChomp(s, <<":">>).head ELSE <<"*">>,
     ms |-> Atof(num), ok |-> MOOSIsNumeric(num)]
HasWild(name) == \E i \in 1 .. Len(name) : name[i] \in {"*", "?"}
Entries[r \in Seq(STRING)] ==
    LET words == StringListToVector(r, <<",">>) IN [i \in 1 .. Len(words) |-> Entry(words[i])]

\* Mutant: every entry goes to the back.
AtTheBack(q, e) == Append(q, e)

\* A name with a wildcard goes to the front of the list and any other name to the back.
PushEntry(q, e) == IF HasWild(e.client) THEN <<e>> \o q ELSE Append(q, e)

\* An entry whose time is no number is reported and passed over.
TimingVector(es) ==
    LET push[n \in 0 .. Len(es)] == IF n = 0 THEN <<>>
                                    ELSE IF es[n].ok THEN PushEntry(push[n - 1], es[n]) ELSE push[n - 1]
    IN  push[Len(es)]

\* CMOOSCommServer::Run and StartThreads.
RunServer ==
    /\ dbOwner = "start" /\ dbOwner' = "run"
    /\ timing' = TimingVector(Entries[given.response])
    /\ running' = [t \in Threads |-> TRUE] /\ quit' = [t \in Threads |-> FALSE]
    /\ bQuit' = FALSE /\ listener' = "bind"
    /\ UNCHANGED <<given, warp, timeout, web, calling, joins, clients, readers, sockets>>

----------------------------------------------------------------------------
(* The listen thread. *)

ListenEnds == listener' = "ended" /\ running' = [running EXCEPT !["listen"] = FALSE]

BindListener ==
    /\ listener = "bind"
    /\ \/ listener' = "select" /\ UNCHANGED <<running, bQuit>>
       \/ ListenEnds /\ bQuit' = TRUE                    \* the port is taken
    /\ UNCHANGED <<settings, dbOwner, quit, calling, joins, clients, readers, sockets>>

\* A connection is accepted even when the thread has been told to quit; the flag is looked at when
\* select times out, and after a client has been dealt with.
Select ==
    /\ listener = "select"
    /\ \/ calling # {} /\ listener' = "accept" /\ UNCHANGED running
       \/ calling = {} /\ quit["listen"] /\ ListenEnds
    /\ UNCHANGED <<settings, dbOwner, quit, bQuit, calling, joins, clients, readers, sockets>>

\* The first entry that matches, and no delay at all without one.
ConsolidationTime(name) ==
    LET hits == {i \in 1 .. Len(timing) : MOOSWildCmp(timing[i].client, name)} IN
    IF hits = {} THEN 0 ELSE timing[FirstOf(hits)].ms

AfterClient == IF quit["listen"] THEN ListenEnds ELSE listener' = "select" /\ UNCHANGED running

\* Accept and OnNewClient, with m_SocketListLock held: a name that is present is refused.
OnNewClient ==
    /\ listener = "accept" /\ AfterClient
    /\ \E n \in calling :
         /\ calling' = calling \ {n}
         /\ IF n \in sockets THEN UNCHANGED <<clients, readers, sockets>>
            ELSE /\ clients' = [m \in DOMAIN clients \cup {n} |->
                                    IF m = n THEN ConsolidationTime(n) ELSE clients[m]]
                 /\ readers' = readers \cup {n} /\ sockets' = sockets \cup {n}
    /\ UNCHANGED <<settings, dbOwner, quit, bQuit, joins>>

Call(n) ==
    /\ listener \in {"select", "accept"} /\ n \notin calling /\ joins < MaxJoins
    /\ calling' = calling \cup {n} /\ joins' = joins + 1
    /\ UNCHANGED <<settings, dbOwner, threads, clients, readers, sockets>>

\* The server thread sees a client off: its thread is joined and its socket closed.
ClientLeaves(n) ==
    /\ running["server"] /\ n \in DOMAIN clients
    /\ clients' = [m \in DOMAIN clients \ {n} |-> clients[m]]
    /\ readers' = readers \ {n} /\ sockets' = sockets \ {n}
    /\ UNCHANGED <<settings, dbOwner, threads, calling, joins>>

\* The server and timer threads look at their flag at least once in a second.
LoopEnds(t) ==
    /\ t # "listen" /\ running[t] /\ quit[t] /\ running' = [running EXCEPT ![t] = FALSE]
    /\ UNCHANGED <<settings, dbOwner, quit, bQuit, listener, calling, joins, clients, readers, sockets>>

----------------------------------------------------------------------------
(* The destructor: ThreadedCommServer::Stop and then CMOOSCommServer::Stop. *)

\* Mutant: the clients are cut off before the listen thread has been stopped.
ClientsFirst(s) == CASE s = "run" -> "clients" [] s = "clients" -> "listen" [] s = "listen" -> "server"
                     [] s = "server" -> "base" [] s = "base" -> "stopped"

AfterStage(s) == CASE s = "run" -> "listen" [] s = "listen" -> "server" [] s = "server" -> "clients"
                   [] s = "clients" -> "base" [] s = "base" -> "stopped"

\* main looks at IsRunning and leaves, or the owner of the object destroys it.
IsRunning == ~bQuit
Leave ==
    /\ dbOwner = "run" /\ dbOwner' = AfterStage("run")
    /\ UNCHANGED <<settings, threads, calling, joins, clients, readers, sockets>>

\* The flag of the thread is set and pthread_join waits for it; a thread that has ended is left.
QuitThread(t) ==
    /\ dbOwner = t /\ running[t] /\ ~quit[t] /\ quit' = [quit EXCEPT ![t] = TRUE]
    /\ UNCHANGED <<settings, dbOwner, running, bQuit, listener, calling, joins, clients, readers, sockets>>
ThreadJoined(t) ==
    /\ dbOwner = t /\ ~running[t] /\ dbOwner' = AfterStage(t)
    /\ UNCHANGED <<settings, threads, calling, joins, clients, readers, sockets>>

\* The destructor of a client's thread waits for its reader.
ClearClients ==
    /\ dbOwner = "clients" /\ dbOwner' = AfterStage("clients")
    /\ clients' = <<>> /\ readers' = readers \ DOMAIN clients
    /\ UNCHANGED <<settings, threads, calling, joins, sockets>>

\* The timer thread is stopped, every socket closed and the tables emptied.
RequestTimerQuit ==
    /\ dbOwner = "base" /\ running["timer"] /\ ~quit["timer"] /\ quit' = [quit EXCEPT !["timer"] = TRUE]
    /\ UNCHANGED <<settings, dbOwner, running, bQuit, listener, calling, joins, clients, readers, sockets>>
BaseStop ==
    /\ dbOwner = "base" /\ ~running["timer"] /\ dbOwner' = AfterStage("base")
    /\ sockets' = {} /\ timing' = <<>>
    /\ UNCHANGED <<given, warp, timeout, web, threads, calling, joins, clients, readers>>

Owner == \/ ReadSettings \/ RunServer \/ (dbOwner = "run" /\ ~IsRunning /\ Leave)
         \/ \E t \in {"listen", "server"} : QuitThread(t) \/ ThreadJoined(t)
         \/ ClearClients \/ RequestTimerQuit \/ BaseStop

ListenLoop == BindListener \/ Select \/ OnNewClient

DBNext == \/ Owner \/ Leave \/ ListenLoop
          \/ \E t \in Threads : LoopEnds(t)
          \/ \E n \in DBNames : Call(n) \/ ClientLeaves(n)

\* The scheduler runs every thread; whether a client calls or leaves, and whether the object is
\* destroyed while it works, is left open.
DBSpec == /\ DBInit /\ [][DBNext]_dbVars /\ WF_dbVars(Owner) /\ WF_dbVars(ListenLoop)
          /\ WF_dbVars(\E t \in Threads : LoopEnds(t))

----------------------------------------------------------------------------
(* When Stop has returned, no client is left that connected while it ran: at every moment a
   thread that reads has a socket to read from, and at the end there is neither.  The comment in
   ThreadedCommServer::Stop gives the order as the reason. *)
StopLeavesNobody ==
    /\ readers \subseteq sockets
    /\ dbOwner = "stopped" => clients = <<>> /\ sockets = {}

\* Stop returns, whoever calls in or leaves while the threads are stopped one after another.
StopEnds == dbOwner \in {"listen", "clients"} ~> dbOwner = "stopped"

(* The settings in force are in range, and a value of the command line that is in range wins: a bad
   one (CMOOSDB::Run) does not undo a good one of the mission file. *)
Ranged(v, lo, hi) == v # Absent /\ v >= lo /\ v <= hi
SettingsInForce ==
    dbOwner # "configure" =>
        /\ warp = IF Ranged(given.cmd.warp, 1, WarpLimit) THEN given.cmd.warp
                  ELSE IF Ranged(given.file.warp, 1, WarpLimit) THEN given.file.warp ELSE DefaultWarp
        /\ timeout >= 0

(* The delay of a client's thread is one that --response asked for: of the entries with a wildcard
   that match the last one given, and without any the first that names the client. *)
ResponseIsAsked ==
    \A n \in DOMAIN clients :
        LET es == Entries[given.response]
            hits == {i \in 1 .. Len(es) : es[i].ok /\ MOOSWildCmp(es[i].client, n)}
            wild == {i \in hits : HasWild(es[i].client)} IN
        clients[n] = IF wild # {} THEN es[LastOf(wild)].ms
                     ELSE IF hits # {} THEN es[FirstOf(hits)].ms ELSE 0

(* What the comment in CMOOSCommServer::Run says: the special entries stand before the wildcards, so
   that a client named in --response gets the delay it is named with. *)
SpecialismsFirst ==
    \A n \in DOMAIN clients :
        LET es == Entries[given.response]
            own == {i \in 1 .. Len(es) : es[i].ok /\ es[i].client = n} IN
        own # {} => \E i \in own : clients[n] = es[i].ms

(* The safety of starting and stopping the database. *)
DatabaseComesAndGoes == SettingsInForce /\ ResponseIsAsked /\ StopLeavesNobody
=============================================================================
