# A TLA+ verification project for core-moos

MOOS is a publish/subscribe middleware for robots.  A community has one server
process, the MOOSDB; every other process is a client that connects to it over
TCP, publishes values of named variables and subscribes to the variables of
others.  This directory models the parts of that code whose correctness depends
on the order in which things happen, or on inputs nobody writes tests for, checks
the models with TLC and proves theorems about them with TLAPS.  Paths are relative
to `src/Core/libMOOS/`, those of the tools to `src/Core/tools/`.

## 1. The system

| Component | State it keeps | Operations | Talks to |
|---|---|---|---|
| **MOOSDB** (`DB/MOOSDB.cpp`, `MOOSDBVar.cpp`, `MOOSRegisterInfo.cpp`, `MsgFilter.cpp`) | `m_VarMap` (value, type, writers, subscribers with interval and time last sent), `m_ClientFilters`, `m_HeldMailMap`, `m_dfSummaryTime` | notify, register, unregister, both again with wildcards, DB_CLEAR, the DB_* publications, connect, disconnect, fetch mail | called back by the server from two threads |
| **Database process** (`DB/MOOSDB.cpp` `Run`, `Comms/MOOSCommServer.cpp` `Run`, `Stop`) | settings of mission file and command line, the three threads | start, stop | the server |
| **Threaded server** (`Comms/ThreadedCommServer.cpp`) | `m_Socket2ClientMap`, `m_AsynchronousClientSet`, `m_ClientThreads`, `m_ClientSocketList` under `m_SocketListLock` (mostly), one incoming list, one outgoing list per client, a list of threads to destroy | accept and handshake, read, process, write, disconnect, dispose | sockets; the MOOSDB through callbacks |
| **Single threaded server** (`Comms/MOOSCommServer.cpp`) | the list of sockets, the table of names, when each was last heard | select, process, drop the absent | as above |
| **SafeList and event** (`Utils/.../SafeList.h`, `Thirdparty/PocoBits`) | a list and an auto-reset event | Push, Pull, WaitForPush | all threads |
| **Clients** (`Comms/MOOSCommClient.cpp`, `MOOSAsyncCommClient.cpp`) | inbox, outbox, registrations, connection flag, clock skew | Post, Fetch, Register, Flush, ServerRequest, reconnect, Close | the server over a socket; the application |
| **Active queues** (`Comms/ActiveMailQueue.cpp`, `MOOSCommClient.cpp`) | queues with threads of their own, routes from names and wildcards to queues | add, remove, route, dispatch | the client |
| **Packets and messages** (`Comms/MOOSCommPkt.cpp`, `MOOSMsg.cpp`, `MOOSCommObject.cpp`, `XPCTcpSocket.cpp`) | a byte stream, how much of it has arrived | serialise, fill, send, receive | clients and server |
| **Clock and skew** (`Comms/MOOSSkewFilter.cpp`, the `UpdateMOOSSkew`s) | envelopes of clock differences, the skew in force | filter, correct | the client |
| **Application framework** (`App/MOOSApp.cpp`, `App/MOOSInstrument.cpp`) | iterate mode, timing, start-up state, dynamic variables | Run, OnNewMail, Iterate, commands, quitting | the client |
| **Appcasting** (`Thirdparty/AppCasting`) | warnings, events, who asked for reports until when | report, post, read an appcast | the framework |
| **Audit** (`Comms/ServerAudit.cpp`, `EndToEndAudit.cpp`, `ClientCommsStatus.cpp`) | bytes and latencies per client | add, report, publish, multicast | server, clients, gtm |
| **Web server, logger** (`DB/MOOSDBHTTPServer.cpp`, `HTTPConnection.cpp`, `MOOSDBLogger.cpp`) | one handler and thread per browser on one shared client; a list of events | serve, poke; add, write | the database |
| **Suicidal sleeper, multicast** (`Comms/SuicidalSleeper.cpp`, `MulticastNode.cpp`) | an inbox and an outbox of datagrams | send, read, die | the tool ktm |
| **Threads** (`Utils/MOOSThread.cpp`, `PeriodicEvent.cpp`) | running and quit flags | start, stop, call back | everything |
| **Strings, mission file, command line, serial port** (`Utils/`, `Thirdparty/getpot`) | a stream per thread; a cursor; an accumulator | read, ask, cut telegrams | applications |
| **Tools umm, gtm** | a schedule; the graph of a community | publish, bounce, ping; sample, draw | ordinary clients |

`PROJECT.json` lists every component with its status.

### What is hard here

* The database is called from two threads.  The server thread runs packets,
  fetches and disconnections; the listen thread runs `OnConnect`, which performs
  a full `OnNotify`, in the middle of whatever packet is being processed.
* Subscriptions come from four places (registration, wildcard registration, the
  first write to a new variable, re-registration) and go in three; mail is put in
  a box by three handlers and taken out by two.  Whether a subscriber finally has
  the current value depends on all of them and on the clock.
* DB_CLEAR resets some of the state in the middle of a packet and keeps the rest.
* A client may go at any moment, including inside the handshake, and come back
  under the same name while packets of its former connection are still queued.
  Everything the server passes between its threads carries the name, not the
  connection.
* A lock is held during a blocking read; an event is used as if it counted.  A hand
  shake that fails has already changed the tables.
* What a client has to say at every connection goes through the same bounded outbox as
  what the user posts.
* The asynchronous client has two threads over one socket pointer, one flag and one
  time of connection, none of them under a lock.  The reading thread cannot close a
  connection: it asks the writing thread to by a message in the queue of outgoing
  mail, which says nothing about the connection that is meant.
* Packets arrive in pieces cut anywhere, multicast loses and repeats, a serial line
  delivers what it likes.
* Queues and their routes are added and removed while mail is being routed; a lock
  is held across the join of a queue's thread; a client is closed and run again.
* Clocks: a skew measured through two delays, periods with late calls, intervals,
  a schedule that corrects itself.
* Parsers with state: a cursor that every question moves, a stream shared by name,
  a wildcard matcher with one point of return.

The `hazards` of `PROJECT.json` give each of these its line and the property that
would notice it going wrong, with a note where a part of it is out of reach.

### What makes each component correct

* MOOSDB: a client that leaves leaves nothing; mail is genuine, in write order,
  and lacks the current value only while the client's own interval holds it back;
  a wildcard filter covers old and new variables.
* Servers: the tables and the database's idea of who is connected agree; whatever
  is queued belongs to the connection now known under its name; a departed client
  is dropped; a client that waits for an answer gets one; stopping leaves nobody.
* Clients: what is posted is sent once and in order on a connection, or reported
  lost; what is registered is registered again after a reconnection, within the limit of
  the outbox; a queue gets
  every message it is registered for, and none after its removal; the clock is that
  of the database within a delay of the network.
* Packets: a connection is a channel of packets, wherever its bytes are cut.
* Lists: a list with an event behaves as if each operation happened at once, and no
  wake-up is lost.
* Applications: mail wakes the loop, Iterate is neither early nor starved, a request
  to quit ends it; what a viewer sees is what the application last said.
* Parsers: an answer is what the file or the command line says, whoever asked what
  before.

## 2. Modules

| Module | Contents | Checked by |
|---|---|---|
| `MOOSDB` | the database | `MCMOOSDB_*.cfg` |
| `ThreadedCommServer` | the server's threads | `MCThreadedCommServer_*.cfg` |
| `AsyncCommClient` | the client's two threads, posting, fetching, closing | `AsyncCommClient_*.cfg` |
| `MOOSMsg`, `Wire`; `PacketChannel` | serialisation; one direction of a connection; what it implements | `MCClients` |
| `SafeList`; `WaitableList` | list, mutex, condition and flag; what they implement | `MCClients` |
| `ActiveQueues`, `SyncClient` | queues and routes; the synchronous client | `MCClients` |
| `MOOSApp`, `SuicidalSleeper`, `PeriodicEvent`, `UMM` | what runs in an application's process | `MCApplications` |
| `DBLife`, `SingleServer`, `DBLogger`, `WebServer`, `AppCasting` | what serves others | `MCServices` |
| `SkewFilter`, `Clock`, `Audit`, `Strings`, `StringChecks`, `MissionFile`, `CommandLine`, `SerialPort`, `DynamicVariables`, `Topology` | what other threads call | `MCSequential` |
| `MOOSDBProofs`, `ThreadedCommServerProofs`, `AsyncCommClientProofs` | inductive invariants and theorems about the module of the name | TLAPS |
| `WireProofs` | the same for `MOOSMsg` and `Wire`, with the refinement of `PacketChannel` | TLAPS |
| `ClientProofs` | the same for `ActiveQueues` and `SyncClient` | TLAPS |
| `ApplicationProofs` | the same for `MOOSApp`, `DynamicVariables`, `PeriodicEvent`, `SuicidalSleeper`, `UMM`, `DBLife`, `CommandLine`, `SerialPort` | TLAPS |
| `ServiceProofs` | the same for `SafeList`, `DBLogger`, `SingleServer` | TLAPS |
| `MeasurementProofs` | the same for `Clock`, `Audit` and `SkewFilter` | TLAPS |

Composition.  `Wire` uses `MOOSMsg` for what it sends; `AppCasting`, `DBLife`, `SerialPort`, `UMM`,
`WebServer`, `Topology`, `MissionFile` and `StringChecks` use the operators of `Strings`.  The other
modules meet at interfaces: `ThreadedCommServer`, `AsyncCommClient` and `ActiveQueues` use
lists that behave as `WaitableList` and packets that behave as `PacketChannel`, which
`SafeList` and `Wire` are shown to implement; `MOOSApp` sees the client as
`AsyncCommClient` presents it (mail, an event, connections that come and go).

`MCClients`, `MCApplications`, `MCServices` and `MCSequential` put independent modules
side by side.  A variable `part` is chosen at the start and never changes, every action
belongs to one part, and the variables of the others keep their initial values, so a
behaviour of the sum is a behaviour of one module and each property is about one.  Each
module also has a specification of its own (`WireSpec`, `SLSpec`, ...).

### MOOSDB

Each variable of the module is named after, and commented with, the member it
models.  A subscription is a record `[period, last]` (`CMOOSRegisterInfo`) or
`NoSub`; a filter is a number with an interval or -1, the two patterns of it being
the sets of sources and variables they match.  The **value** of a notification is
the number of the write since the last DB_CLEAR: two values are equal exactly when
they come from the same write, which is what the properties have to tell apart.

One packet is `BeginPkt`, any number of messages (`ProcessMsg`), and `EndRx`, which
either hands over the mail or, when `SummaryPeriod` has passed, first runs the
refresh of the DB_* variables (`UpdateSummary`, once per variable, and
`EndSummary`).  `OnConnect` is enabled between any two of these steps, since the
listen thread calls it; `OnFetchAllMail` and `OnDisconnect` run on the server
thread and only between packets.  `Notify` is the whole of `OnNotify`: filters on
first write, type check, store, time stamps, boxes.  `OnDisconnect` removes
subscriptions, filters and mail and then calls `Notify` for `DB_EVENT`, in the
order of the code.

A message's source is the client that sends it for registrations (`cur`), because
`CMOOSCommClient::Post` stamps it; for notifications it is any source, because
`pShare`-like clients publish under other names.

History variables: `seen` (newest value a client was sent), `wild` (interval last
asked for with a filter), `declined` (variables a client has unregistered).  They
appear in no guard.

Left out, because they change nothing the properties speak of: time stamps, the
community, auxiliary sources, the event log, write frequencies, and the
requests ALL, PROC_SUMMARY and VAR_SUMMARY, which only read (see `Topology`).

### ThreadedCommServer

A connection is the socket, the `ClientThread` and the client at the far end; a
client that returns is a second connection with the same name.  Each thread has a
program counter and a step ends where another thread can interfere: at a lock, at a
list, at a system call.

* listen thread: `Accept`, `ListenLock`, the handshake (`HandShakeFails`,
  `HandShakeThrows`, `HandShakePoisons`, `HandShakeNames`), `Welcome` or
  `WelcomeFails`, `AddAndStartClientThread`;
* reader of a connection: `ReadPkt`, `ReadFails`, `ClientTimeout`, `SelectFails`,
  `AnswerClient` (synchronous clients), `ReportClosed`, `TellWriter`;
* writer of an asynchronous connection: `WriterPull`, `WriterSend`,
  `WriterSendFails`, `WriterQuits`;
* server thread: `ServerPull`, `ProcessClient`, `ProcessNothing`, `FetchAllMail`,
  `ServerLock`, `OnClientDisconnect`;
* waste disposal thread: `DisposalWakes`, `DisposalPulls`, `DisposalDestroys`.

Queued items carry the client's name as in the code; the connection they come from
is history (only `ProcessNothing` looks at it, to say which packets hold nothing).
Descriptors are reused: `Accept` may take any that no open socket has.  System
calls that fail are choices, allowed on the connections named by `RecvErrors`,
`SelectErrors`, `SendErrors`; a client that connects and says nothing is in `Mute`.
What the database answers is a choice: a synchronous client always gets a packet
(the server adds a null message), an asynchronous one perhaps.

A client that has gone is one whose end is closed and whose close reaches the
server.  `ReadPkt` reads a whole packet in one step.

### AsyncCommClient

`MOOSAsyncCommClient` with what it inherits from `CMOOSCommClient`.  Posted messages
are numbered in the order of their `m_nID` and the queues hold the numbers; mail is
numbered in the order in which the database sends it; connections are numbered, and
the number is also `m_dfLastConnectionTime`.

* writing thread: `NewSocket`, `Connect`, `BeginHandShake` and the outcomes of the
  handshake, `Stamp` (the time of the connection, set after the flag),
  `ApplyRecurrentSubscription` per variable, `DoWriting` and `SendPkt`, and the three
  steps of `OnCloseConnection`: `CloseSocket`, `Disconnect`, `ClearAfterClose`;
* reading thread: `ReaderLoops` (the test of the flag), `CallReadPkt` (the use of the
  pointer), `ReadPkt`, `ReadPktThrows`, `Deliver`, and after a failure
  `NoteConnection`, `RequestTerminate`, `ReaderWaits`;
* whoever posts, the writing thread with its recurrent subscriptions included:
  `CallPost` (the test of the flag), `Box` (first lock), `Splice` (second lock),
  `NoteRegistration`;
* the application: `Fetch`, and one thread that closes the client (`Close`,
  `JoinReader`, `StopWriter`, `JoinWriter`) and may run it again (`Run`, which keeps
  `OutGoingQueue_`).

Undefined behaviour is a choice.  Reading through a null or dangling socket may end
the process (`ReadPktCrashes`); a dangling one may also read from the next
connection, which is likely to have its descriptor.  A process that has died
(`crashed`) takes no step.  What is sent on a broken connection is lost whether or
not the send reports it.

Left out: the speed limit, byte counters and the clock skew, `m_bPostNewestToFront`
(off unless asked for) and the second `close` of a descriptor by the destructor.
Dispatch to active queues is in `ActiveQueues`, `ServerRequest` and `Peek` in `SyncClient`.

### Wire, MOOSMsg, PacketChannel

A byte is a cell, a field of a message a number of cells, so that lengths and
offsets are those of the code with small sizes for `int` and `double`.  `SendPkt`
serialises into a buffer of the room computed beforehand and calls `send` until all is
accepted (`SendRest`); `ReadPkt` asks for what the packet lacks (`ToReceive`), grows the
buffer once the length is known and unpacks.  `Drain` is a `recv` that returns any number
of the cells asked for.  Either end may fail or close at any point.  `WireIsAChannel` is the
refinement: the packets sent, those read, and a connection that breaks.

### SafeList, WaitableList

Producers push one element or splice several; the consumer tests, waits and pulls, one
element or all.  Poco's event is its mutex, condition and flag (`SetEvent`, the
consumer's steps of `wait`).  In the mapping a push takes place when the element is in
the list and the event set, so an unlocked state never shows half of an operation.

### ActiveQueues, SyncClient

`ActiveQueues`: `Dispatch` walks the inbox under `ActiveQueuesLock_` and pushes to the
queues that the exact and the wildcard routes name; queues are added with a name, a message
or a wildcard, removed (stopped, joined, forgotten), and each queue's thread pulls and calls
back. `QueueClose`, `CloseStop`, `CloseDelete`, `QueuesClosed` and `ReaderStopped` are
`Close`, which stops and deletes one queue after the other and forgets the routes but not
`WildcardQueuePatterns_`; the synchronous client stops the thread that dispatches first, the
asynchronous one last (`aqOpen`). `QueueRun` opens the client again. A pattern left behind
routes mail to a queue that is not there; `DispatchThrows` is then the `std::runtime_error`
of `:889`, which no thread catches (`DoClientWork` catches `CMOOSException` only), and ends
the process. When `Flush` dispatches, the exception reaches the user, who could catch it,
with `m_InLock` held for good; the model does not go on there. `Sifted` is what the walk
does to the order of the inbox: it keeps it, for what each queue is pushed and for what
stays.

Order is per name, not per queue.  After `RemoveActiveQueue` a name keeps an empty entry in
`Msg2ActiveQueueName_`, so its mail stays in the inbox while the walk goes on and later mail
of other names is pushed; when the name is routed again, a queue gets its old message
after newer ones of other names.  `QueueKeepsOrder` therefore says that no message is
handled twice and that messages of one name are handled in the order of their arrival.

`SyncClient`: the thread's connect, handshake, recurrent subscriptions and `DoClientWork` at
its rate. A registration is posted (`ApplyRecurrentSubscriptions`, one step for each), waits
in the outbox with everything else, may be discarded there (`Discarded`) and reaches the
database with the packet (`RegisteredIn`); the user's `Post`, `Fetch`, `Peek`, `Flush`,
`ExpectOutboxOverflow`, which changes the limit of the outbox to one of `OutLimits` while
mail is waiting in it, `ServerRequest` with its polling, and `Close` and `Run` again; a
database that answers each packet. A post tests the connection and appends in one step, the
order in which recurrent subscriptions are registered is left open, and
`m_bPostNewestToFront`, which nothing sets, is left out.

### MOOSApp, SuicidalSleeper, PeriodicEvent, UMM

`MOOSApp` keeps times as ages (since the last pass, Iterate and status), capped at the
largest period they are compared with. The loop's wait, the test for unread mail and the
event are separate steps against a thread that delivers. `SuicidalSleeper` composes two
multicast nodes with a network that loses, repeats and reorders; the reading thread looks at
the size of its inbox (`LookAtSize`) and pops it (`Pop`) in two steps, since `SafeList` is
locked for each. `PeriodicEvent` counts half milliseconds, so that the truncated sleep is
visible, and lets a worker end by itself while its owner stops or starts it. `UMM` keeps its
jobs' due times relative to now, by the local clock, and tests them against MOOSTime,
which is `umSkew` ahead; `SetMOOSSkew` moves the skew at any time, as the client's thread does.

### DBLife, SingleServer, DBLogger, WebServer, AppCasting

`DBLife` reads the settings in the order of `Run` and stops threads in the order of `Stop`
against clients that connect. In `SingleServer` the descriptors of a `select` may be stale
and reused when they are looked at; the timer thread drops the absent. The listen thread
accepts, locks (`ListenLock`), reads the protocol string (`CheckProtocol`, which need not
come: the read has no limit), enters the name (`HandShakeNames`), and sends the welcome and
lists the socket (`Welcome`); each step may fail (`HandShakeFails`, `HandShakePoisons`,
`WelcomeFails`, which leaves the name) or throw past the unlock (`HandShakeThrows`). A
welcomed client's packets arrive whole; `ProcessClient`'s read has no time limit either, so
a client that stops in the middle of a packet would do what the mute caller does. `DBLogger`
is a list, a flag, a thread and a file. `WebServer` has one handler per browser, a shared
client under one lock, requests to the database that fail by an exception, and the parsing
of the URL's form and of the headers. `AppCasting` contains the string of an appcast and its
reading, the viewers' requests with their durations, and the loop that decides when to cast.

### The sequential parts

`SkewFilter`: points, segments, merging, cropping in exact integers. `Clock`: handshake and
timing messages over delays, in exact fractions of `SkewUnit`. `SkewFilter` assumes that the
server's clock never goes back: a point measured before the last one is not given to it.
`Audit`: three threads over the counters; a report is composed and the counters cleared
under the lock (`ComposeReport`) and sent row by row without it (`SendReport`), until a row
cannot be sent (`SendFails`) and the thread ends; `RemoveAudit` erases what no report has
taken; latencies from `Latencies`, and a least latency that starts at `NoLatencyYet`.
`Strings` are pure operators, which `StringChecks` compares with reference definitions for
every input up to a length (a state per input). `MissionFile`: every file of a few abstract
lines, read by two threads, as a list, as text and by type. `CommandLine`: every vector of a
few arguments, asked in every order. `SerialPort`: a device's bytes in any pieces, streaming
and polled. `DynamicVariables`: mail, writes and publications of two variables. `Topology`:
the database's summary and its replies to requests, the client's statuses, gtm's graph.

## 3. Runs

All runs have `CHECK_DEADLOCK FALSE`: clocks, boxes and numbers of calls are bounded
and a connection is used once, so a model without anything left to do has reached a
bound, or is a server that waits for clients, which it may do for ever.

| Run | Shows |
|---|---|
| `plain` | `TypeOK`, `MailIsGenuine`, `MailInWriteOrder`, `StaleOnlyWhenThrottled` with two data types, an interval of 0 and one of 2, DB_CLEAR, reconnections, and the database's own publications, which a client writes as well |
| `crowd` | `NothingForTheDeparted`, `WildcardsCover` with two clients that come and go (symmetric in the clients) |
| `safety` | `TypeOK`, `FromThePresent`, `TablesAgree`, `EventMeansWork` for a client that comes back under its name and another, with every failure |
| `live` | `DepartedAreDropped`, `ClientsAreAnswered` for an asynchronous and a synchronous connection of one client |
| `traffic` | `PostsKeepTheirOrder`, `MailKeepsItsOrder`, `MailIsAnnounced` with an application thread and the writing thread's recurrent subscription posting, both queues and the inbox at their limits, a break and a reconnection |
| `threads` | `BrokenConnectionsAreLeft` and `NobodyWaitsForEver` (`ReaderComesBack`, `CloseReturns`) over two breakable connections and two runs of the client |
| `clients` | `PacketsGetAcross` (refinement of `PacketChannel`, no overrun, room enough), `SafeListIsWaitable` (refinement of `WaitableList`), `QueuesAreFaithful` (routes lead to queues, or to one that `Close` deleted and whose pattern it left; each message in one place, those of a name in order, wildcards routed, no callback after removal), `SyncClientIsSound` (mail in order and announced; a request comes back and subscriptions recur unless the outbox lost them), `ClientsGetOn` (what is sent is read, what is pushed is taken and handled, removal and Close end) |
| `applications` | `AppKeepsItsPace` (Iterate keeps its distance, commands registered), `DeathIsByOrder` (no death without an order, the inbox is cut from its oldest end), `EventIsPeriodic` (one worker, no early call), `UmmDoesAsDirected` (ahead of its frequency by no more than MOOSTime was of the clock, directives parsed), `ApplicationsGetOn` (no lost wake-up, Iterate and status keep coming, a quit ends, an order once read is obeyed, Stop returns, no job starved) |
| `services` | `DatabaseComesAndGoes` (settings in force, stop leaves nobody), `ServerTablesAgree` (sockets, names and what the database was told, with the names of failed welcomes apart), `FileFollowsEvents` (the log has every accepted event once, in order), `ViewersSeeTheTruth` (pages and pokes are what was asked, a cast has the present warnings), `ServicesGetOn` (callers are answered or dropped unless the list stays locked by a hand shake, events reach the file, browsers are served or given up, configuration warnings are cast, Stop returns) |
| `sequential` | `SkewIsBounded`, `ClockFollowsTheDatabase`, `AuditIsTrue` (no byte told twice, none lost but with a removed client or a failed report), `TextIsRead` (`StringsAreAsDefined`, `MissionIsRead`), `CommandLineIsAnswered`, `TelegramsAreTrue`, `GraphIsTheCommunity`, `PublishedIsOneWrite` |
| `mute`, `transmit` | violations, section 5 |

A property such as `QueuesAreFaithful` is a conjunction of named parts, each stated and
commented in its module.

**Bounds.**  `MaxTime - StartTime` in `plain` covers one interval and one summary period (a
write just before, at and after the end of an interval all happen); `crowd` does not depend
on the clock.  `StartTime` is not before the longest interval, since the real clock is
seconds since 1970.  Two writes per variable (`MaxWrites`) give a stale and a fresh value;
two messages in a box (`MaxHeld`) an order to get wrong.  Three connections are a client, its
return and a bystander; with two descriptors the return can reuse the first's.
`MaxPkts` of one leaves a packet that can be overtaken; in `safety` the bystander
sends none.  Mute clients are absent from `safety`, where they could only do less.

For the client, a first connection that breaks and a second are what a stale request,
a dangling socket or a missed reconnection need.  `OutLimit` of 1 in `traffic` makes
the limit of 2048 reachable with two messages; in `threads` it is 5, which the run
cannot reach, because at the limit `CloseReturns` fails (section 5).  With
`MaxMail` of 2 and `InLimit` of 1 the inbox is purged.  `MaxRuns` of 1 in `threads` is a
client that is closed and run once more.  Two threads that post, one of them the
writing thread, splice each other's messages.

In `clients`, `IntSize` of 2 lets a length be cut in the middle and `ChunkRead` of 3 lets a
read end inside, at and beyond a field; two packets are one to confuse with the next. Two
queues, two message names and two calls give a route that is removed while mail is on its
way; the message that is overtaken (section 2) takes three messages and four calls, which
the theorem covers. An outbox of two that is cut to one loses what it holds, a registration
or a request. A wildcard queue and a further run need one call and no more. Four elements
from two producers outrun a consumer that takes all at once. In `applications`, `Period`,
`MinPeriod` and `StatusPeriod` differ so that each can be the next to pass; `CorrectEvery`
of 3 stands for umm's 100, `MaxLate` is more than a period of the event late, `CountDown` is
the sleeper's grace. `MaxDatagrams` and `UnreadLimit` let an owner read between the look and
the pop and the pop take the wrong one; `UmmSkews` has a MOOSTime that is behind, equal, and
ahead by two periods of the faster job. In `services`, four accepts over two descriptors
reuse one after a welcome that failed; two browsers compete for the lock; the warp limit is
the code's. In `sequential`, inputs go up to the length at which every branch of an
algorithm is taken (patterns and texts of 4 characters, fields of 6, files of 5 lines, 4
arguments); `Window` of 2 stands for the moving average's, `CommsSpace` of 4 for the
accumulator's. `EmptyArgs = FALSE` leaves out arguments that are empty strings (section 5).
Each of the modules' actions fires in these instances.

Every property has a mutant of the code, kept beside the definition it replaces, that
its run rejects.

## 4. Fairness

`FairSpec` of the server gives weak fairness to each thread: the operating system
keeps running threads that can run, and all waits are either polled or end with an
event that is set under the list's mutex.  A thread waiting for `m_SocketListLock`
needs no more than weak fairness, because the other holder takes it once per
connection and connections are finite in number.  Clients get no fairness: they
may stop at any point.  The `live` run assumes that `select`, `recv` and `send` fail
only when the client has gone, that no client is mute and that packets are well
formed; the `mute` run shows what the first mute client does, and the hazards list
the rest.

The client's `FairSpec` runs both threads, whoever is inside `Post` or `Close`, and
nothing else: no database need ever be there to connect to (`Connect` has no
fairness), the application need not post, fetch or close.  That a thread in the
handshake goes on assumes that the database answers or goes.  Strong fairness of
`SendPktThrows` says that TCP, having swallowed some packets sent on a broken
connection, reports it in the end.  Fairness of a read on a sound connection holds
because the writing thread sends a timing message about every second
and the database answers each.

In the other modules, too, weak fairness is given to the threads of the code and, where a
property measures waiting, to the passing of time (`TimePasses`, `PETick`, `UMTick`); calls
of the user, arrivals, failures and departures have none.

* `Wire`: a sender that has begun goes on, and bytes in the stream are read.
* `SafeList`: the consumer, and a producer that is between the list and the event.
* `SyncClient`: the database answers a packet it has, as `ThreadedCommServer` shows.
* `MOOSApp`: the application's thread, time, and the comms thread inside a delivery.
* `SingleServer`: the server thread; the hand shake from the name on, whose reads have a
  time limit; and each client calls in again and again, as `ClientLoop` does. The caller
  that has not said its protocol string has none, and neither has the listen thread that
  waits for it: `CallIsAnswered` allows for a list that stays locked in one of these ways
  (`KeptLocked`) and for nothing else.
* `WebServer`: a browser in service sends the rest of its request or goes.
* `DBLife`: whoever calls `Stop`, the listen thread with its accepts of limited duration,
  and loops that test the flag.
* `AppCasting`: strong fairness of a pass of the loop in which time passes and of a report
  that is built: an application whose clock stands still, or whose `buildReport` always
  returns false, never casts.

## 5. Where the code and its comments disagree

Two runs end in a counterexample and are listed as findings:

* `mute`: `CheckProtocol` reads without a time limit under `m_SocketListLock`.  When
  another client then departs, the server thread waits for the lock, and the
  clients that wait for an answer wait for ever.
* `transmit`: the reading thread's request to terminate reaches the queue after the
  writing thread has found the break itself and reconnected; it ends the new
  connection, and the mail taken from the queue with it is lost.

The same models show more of the kind.  Each of the following is stated by a property that
the code does not have; to see TLC refute one, put its name in the place of the properties of
the configuration given.

| Property | Configuration | The code does otherwise |
|---|---|---|
| `WildcardUnRegisterHolds` | `MCMOOSDB_crowd` | a wildcard unregistration leaves the filter in `m_ClientFilters`; the next new variable that matches subscribes the client again |
| `UniqueNameMeansNoConnection` | `MCThreadedCommServer_safety` | the handshake enters the name before the welcome is sent and does not take it out when the send fails; `IsUniqueName` then refuses a name nobody holds |
| `WritesOnlyToOpenSockets` | `MCThreadedCommServer_safety` | `OnClientDisconnect` deletes the socket while the writer thread of an asynchronous client, stopped only later by the disposal thread, may be sending |
| `QuitsOnlyWhenPoisoned` | `AsyncCommClient_transmit` | a database that goes between accepting and welcoming a client makes `HandShake` return false as a refusal does, and the client quits for good |
| `RegisteredMeansAsked` | `AsyncCommClient_transmit` | `Register` notes the variable after `Post`; a reconnection in between throws the message away first and the note stays |
| `ReaderHasSocket` | `AsyncCommClient_transmit` | `OnCloseConnection` sets `m_pSocket` to NULL before it resets `m_bConnected`; the reading thread passes its test and reads from NULL |
| `MailIsKept` | `AsyncCommClient_traffic` with `OldDB = TRUE` | with a database started with `--single_threaded`, a packet that arrives while mail is unread throws away the oldest unread message in place of its null message |
| `LatestIntervalCounts` | `MCMOOSDB_crowd` with `Periods = {0, 2}`, `FilterIds = {1}` | registering an equal filter with another interval changes the variables that exist, not the filter (`DB/MOOSDB.cpp:985`) |
| `OldThreadsAreDestroyed` | `MCThreadedCommServer_live` | two departures in the second that the disposal thread pauses set its event once; one `ClientThread` stays on the list until a later departure (`Comms/ThreadedCommServer.cpp:504`) |
| `CloseReturns` | `AsyncCommClient_threads` with `OutLimit = 1` | an overflow of `OutGoingQueue_` throws away a request to terminate; the reading thread waits for a sound connection to end, and `Close` for it |
| `SpecialismsFirst` | `MCServices` | a comment says "specialisms to the front and wildcards to the back"; the test is the wrong way round (`Comms/MOOSCommServer.cpp:235`) |
| `RegularIterate` | `MCApplications` | the banner promises Iterate at the regular rate in mode 2; without mail it is not called (`App/MOOSApp.cpp:849`, banner `:658`) |
| `SkewIsEstimated` | `MCSequential` | a comment in `DoReading` imagines "it tooks as long to send to the DB as to receive"; the time of sending it computes is not that (`Comms/MOOSAsyncCommClient.cpp:471`) |
| `StatusesAreNamed` | `MCSequential` | a status filled from DB_RWSUMMARY only never gets its name (`Comms/MOOSCommClient.cpp:1920`) |
| `QuotedIsVerbatim` | `MCSequential` with `Columns = {3, 40, 62}` | "quoted strings are treated as literals": the test for a comment mark inside the quotation is written `nC<<nS2`, a shift, which is zero when the quotation ends late in the line, and the line is cut (`Utils/MOOSFileReader.cpp:154`) |
| `NumbersAreRead` | `MCSequential` | `GetValue` reads any numeric value as a double, `GetConfigurationParam` none that begins with "+" or "." (`Utils/ProcessConfigReader.cpp:265`) |
| `FlagStaysFound` | `MCSequential` | after a search that ran off the end the cursor is behind the last argument and a flag that is there is not found (`GetPot.cpp:664`) |
| `FreeParametersAreNoVariables` | `MCSequential` | "not x=8 variable form": variables are among the free parameters (`CommandLineParser.h:78`, `:85`) |
| `CommandLineIsAnswered` | `MCSequential` with `EmptyArgs = TRUE` | `GetPot` drops empty arguments from the vector but counts them in its indices |
| `TypeIsSetOnFirstWrite` | `MCSequential` | the type follows every write (`MOOSApp.h:538`) |
| `AddedVariableIsFound` | `MCSequential` | a variable that has had mail carries the name of the message, under which `SetMOOSVar(const CMOOSVariable&)` does not find it again (`MOOSApp.h:523`) |
| `LongestIsLongest`, `CropFrontReturns` | `MCSequential` | a merge does not look for the longest segment again; a crop whose first segment is not before the time loops for ever (`Comms/MOOSSkewFilter.cpp:374`) |
| `AverageMoves` | `MCSequential` | the "moving average" is not the mean of the last latencies: it keeps the first four for ever and the latest (`ServerAudit.h:57`) |
| `DispatchNeverThrows` | `MCClients` | `Close` leaves `WildcardQueuePatterns_`; after `Run`, or while the asynchronous client's reading thread has still to be stopped, mail that matches is routed to a deleted queue and the dispatch throws (`Comms/MOOSCommClient.cpp:889`, `:1649`) |
| `SubscriptionsAlwaysRecur`, `FlushAlwaysBringsTheReply` | `MCClients` | registrations and requests are posted into the outbox, which loses its oldest message at its limit; a recurrent subscription is then missing for the whole connection (`Comms/MOOSCommClient.cpp:1057`) |
| `LatestAreKept` | `MCApplications` | the owner reads between `Size` and `Pop`, and the datagram popped was within the limit (`Comms/MulticastNode.cpp:189`) |
| `AtItsFrequency` | `MCApplications` | the help says `var_name[:optional_binary_size]@frequency_hz`; jobs are scheduled by `MOOSLocalTime` and tested against `MOOS::Time`, so with a positive skew a job is published early; every hundredth time, when the schedule is not corrected, it moves ahead by as much, and with a skew of a hundred periods umm publishes without pause (`umm.cpp:652`, `:745`) |
| `NamesHaveSockets` | `MCServices` | as `UniqueNameMeansNoConnection`, in the server with one thread: after a welcome that failed the name is refused to whoever holds it (`Comms/MOOSCommServer.cpp:966`) |
| `CallIsAlwaysAnswered` | `MCServices` | the `mute` finding in the server with one thread: one caller that says nothing, or an exception past the unlock, and no client is served again (`Comms/MOOSCommServer.cpp:922`, `:506`) |

Smaller observations made while modelling, kept by the models as they are in the code: umm's
help says `-s var_name@period` and takes a frequency; `UpdateMOOSVariables` takes the oldest
message of a variable; `SetAppFreq` tests the old frequency (`App/MOOSApp.cpp:1199`);
APPTICK of the mission file overrides the command line (`:562`); the dispatch to queues
returns at the first message nobody wants (`Comms/MOOSCommClient.cpp:856`); every
`ServerRequest` has the same identifier; `CMOOSMsg::operator==` compares the source with the
auxiliary source (`MOOSMsg.cpp:103`); `PeriodicEvent::SetCallback` drops its parameter
(`:57`); `vSetRecieveBuf` sets `SO_SNDBUF`; `Reset` clears the number of writes but not its
base (`DB/MOOSDBVar.cpp:127`); `OnAbsentClient` leaves `m_AsynchronousClientSet`; a `[..]`
line hides later parameters (`ProcessConfigReader.cpp:318`); an empty shell variable
truncates its line (`MOOSFileReader.cpp:520`); `GetVariable` of a Boolean leaves it alone
for `=false` (`CommandLineParser.cpp:138`); the URL is decoded twice; `Content-Length` is
two short; `GetTelegram` may write one beyond its buffer, and the static buffer of
`GetTelegramOrAccumulate` never empties once full; the logger loses its events when the file
cannot be opened and those still listed at destruction (`MOOSDBLogger.cpp:115`); the audit
loses the bytes of a client that is removed between two reports, and those of the rows that
were not sent when sending fails, after which it reports nothing more
(`ServerAudit.cpp:230`, `:242`). The browsers of `WebServer` send no text that decoding
twice would change.

## 6. Proofs

Every theorem holds for every value of the constants that the assumptions named in the
modules allow, so for any number of clients, threads, messages and failures.  Bounds such as
`MaxWrites` are constants too: a theorem speaks of every bound.

| Module | Theorem | Property |
|---|---|---|
| `MOOSDBProofs` | `TypeCorrect`, `DepartedLeaveNothing`, `HeldMailIsGenuine`, `MailKeepsWriteOrder`, `SubscribersStayFresh`, `FiltersCover` | `TypeOK`, `NothingForTheDeparted`, `MailIsGenuine`, `MailInWriteOrder`, `StaleOnlyWhenThrottled`, `WildcardsCover` |
| `ThreadedCommServerProofs` | `ServerTypes`, `ItemsAreFromThePresent`, `TablesAlwaysAgree`, `WasteDisposalHasWork` | `TypeOK`, `FromThePresent`, `TablesAgree`, `EventMeansWork` |
| `AsyncCommClientProofs` | `ClientTypes`, `PostsAreInOrder`, `MailIsInOrder`, `MailIsNeverHidden` | `TypeOK`, `PostsKeepTheirOrder`, `MailKeepsItsOrder`, `MailIsAnnounced` |
| `ServiceProofs` | `SafeListImplements`, `LogHasEveryEvent`, `SingleServerTables` | `SafeListIsWaitable`, a refinement; `FileFollowsEvents`; `ServerTablesAgree` |
| `WireProofs` | `ConnectionIsAChannel`, `PacketsAreReadBack` | `PacketsGetAcross`, a refinement; that reading undoes writing |
| `ClientProofs` | `QueuesAreRight`, `SyncClientIsRight` | `QueuesAreFaithful`, `SyncClientIsSound` |
| `ApplicationProofs` | `LoopKeepsItsPace`, `VariablesAreTheirWrites`, `EventKeepsItsPeriod`, `SleeperDiesByOrder` | `AppKeepsItsPace`, `PublishedIsOneWrite`, an action property, `EventIsPeriodic`, `DeathIsByOrder` |
| `ApplicationProofs` | `UmmFollowsItsDirectives`, `TheDatabaseComesAndGoes`, `CommandLineAnswers`, `TelegramsAreWhole` | `UmmDoesAsDirected`, `DatabaseComesAndGoes`, `CommandLineIsAnswered`, `TelegramsAreTrue` |
| `MeasurementProofs` | `ClockIsRight`, `AuditTellsTheTruth`, `EnvelopesBoundTheSkew` | `ClockFollowsTheDatabase`, `AuditIsTrue`, `SkewIsBounded` |

Each module has the same plan: an inductive invariant, shown to hold at the start and to be
preserved by every action (a lemma per part of it, a step per action), from which the
property follows.

**Assumptions on the constants.**  `MOOSDB`: the special names are what they are called, the
intervals are natural numbers not larger than the start of the clock (seconds since 1970),
and a non-empty set of filters has a greatest one (there are finitely many).
`ThreadedCommServer`: each connection has a name, the failures are of connections.
`AsyncCommClient`: limits and bounds are natural numbers, and the writing thread is none of
the users. `SyncClient`: an outbox has a limit of at least one. `SafeList`: the consumer is
none of the pushers. `Clock`: `SkewUnit` is even, which makes half of a delay exact.
`Audit`: the moving average has a window, and every latency is less than the value the least
one starts with, 1e9 ms (`Comms/ServerAudit.cpp:91`): of clocks that differ by more than
eleven days it would say nothing. `MOOSApp`, `PeriodicEvent`, `SuicidalSleeper`: periods and
limits are natural numbers, and the period of an application is not zero (an application
without one is `flatOut`). `Wire`: the widths of `int` and `double` and a chunk are at least
one, and packets are lists of messages. `SkewFilter`: what is measured is an integer. `UMM`:
a second is a natural number of ticks, skews are integers, and the correction is left out
every so many publications, at least one. `DBLife`: the limit of the warp is a natural
number and what `--response` is given is text. `CommandLine`: `EmptyArgs` says whether empty
arguments are given; `CommandLineAnswers` has the hypothesis that they are not, since with
them the property is false (section 5). `SerialPort`: the inbox has a limit. `ActiveQueues`,
`DynamicVariables`, `DBLogger` and `SingleServer` need none.

### MOOSDB

*Type invariant.*  `TypeOK` alone is not inductive: `OnRegister` sends `who[v]` and
`type[v]`, which are proper only when `v` has been written.  `TypeInv` adds
`WrittenOK` (a written variable has a source, a type and the value `written[v]`)
and `PktOK` (a packet in progress belongs to a connected client, which no
disconnection can take away, since that runs on the same thread).

*Mail invariant.*  The four properties need each other.  That held mail carries
values up to `val[v]` makes a new write the newest message; with `SeenOK` (nothing
was sent that was not written) the order is kept across a delivery; freshness after a
delivery needs the order, because the newest message of a box is its last; and
`NothingForTheDeparted` is needed where `OnDisconnect` resets `seen`.  `TimeOK` (no
write and no delivery in the future) makes "within the interval" mean something.
`MailInv` is the conjunction of all of these, shown to hold initially
(`MailInvInit`) and to be preserved (`MailInvStep`, one step per action).  The core
is `NotifyMailInv`, which is used by all four actions that call `OnNotify`, and the lemmas
on `NewestIn`, which say what the newest message about a variable is after
appending one, appending several, and delivering.

*Wildcard invariant.*  `WildInv` adds `FiltersKept` to `WildcardsCover`: a filter a client
counts on is in `m_ClientFilters`, so that the first write to a variable finds every filter
that matters (`NotifyCovers`).  A later write has one more writer and can only take the variable
out of a filter's reach.

### ThreadedCommServer

`FromThePresent` says that what is queued under a name belongs to the connection that now
has the name. It is not inductive: that a connection has no more items once its closure has
been handled depends on its reader having stopped. `ServerInv` says where each thread can be
and what it then holds (`LockOK`, `ListenOK`, `ServerOK`, `DisposalOK`), that open sockets
have different descriptors (`FdOK`), that a reader that has not reported its closure is the
one in `m_ClientThreads` (`ReaderOK`), that the report is the last item of its connection
(`ItemsOK`), also when the server thread has it in its hand (`HandOK`). A return under the
same name must wait until `OnClientDisconnect` has taken the name out, and by then nothing
of the former connection is left; that is the argument of `TablesAgree`.

### AsyncCommClient

Four sequences hold the numbers of posted messages, and a message moves from one to the
next: `outbox`, `out`, `stuff`, `sent`. `OutOK` says that each is in order and that each
precedes the one before it; `InOK` says the same of packet, inbox and fetched mail. An
overflow clears a list or drops its oldest, a splice appends, a request to terminate (0) is
in between without a number, and a thread between the two locks of `Post` may splice the
message of another: all of them keep `Precedes`. `LinkOK` and `ThreadsOK` say where the
threads are and which socket they have. `WithoutNull`, a recursive function, removes the
null messages of a packet; that the function exists and what its result contains is shown
with `WFMin`: there is no least index at which it fails (`WithoutNullFacts`).

### Wire

`ConnectionIsAChannel` is a refinement and two invariants. Half of it is about data. The
functions of `MOOSMsg` walk over fields and messages recursively; each is reached through
the sequence of what it joins together (`Joins`), which exists and is unique. So a message
is its eleven pieces behind their length, a packet the texts of its messages behind their
count and length, and what `Serialize` writes `Deserialize` reads (`PacketsAreReadBack`),
field by field and message by message. The other half is where the cells are: the packet
being filled, the wire and what the sender has still to send are, in this order, the cells
of what was sent and not read (`OnTheWay`; after a failure also a piece of the packet that
was given up). A reader that lacks the length asks for no more than the length, and then for
no more than the packet lacks (`Reading`, `Filled`), so it never reads into the next packet.
In the mapping a packet is sent when its last cell is, and read when `ReadPkt` returns it;
the packets in between are in flight (`UnderWay`).

### SafeList

`SafeListImplements` is a refinement.  In the mapping the list of `WaitableList` is what has been
appended and announced.  `ListInv` says who holds the mutex (`MutexOK`), that what is not announced
is the end of the list and there only during a push (`NewOK`), and that the consumer takes from a
list that is not empty although it tested it without holding the mutex for both (`TakeOK`): there is
one consumer.  Each step is then a push, a take, a wait or nothing to the abstract list.

### DBLogger, SingleServer

`Pull` of an empty list leaves the logger a blank event to write, and nothing looks at what it
returns.  `LogInv` adds to `FileFollowsEvents` why that does not happen: the event is set only while
something is listed, because each pull resets it and the logger is the only one to pull.

`SSInv`: the sockets in the list are open and there once (`ListOK`), each under the name of
the client at the other end, no two under one name, and a name without a socket is that of a
welcome that failed or is being sent (`NamesOK`). `CallerOK` says what the listen thread has
in its hand at each step of the hand shake: an open socket that is not in the list, and from
the lock on the lock, so that what it enters nobody else changes; `KeptOK`, that no other
open socket is outside the list unless an exception left the lock behind. Since the server
thread holds the lock while it serves, the sockets it has yet to look at are still there
(`TodoOK`), and `OnClientDisconnect` erases one that is in the list. `ToldOK` counts the
callbacks. The lemmas say what a push to the front, the turn and an erasure do to a list
without duplicates.

### ActiveQueues

For each queue, what it has handled, the message it works on, what it holds and the inbox
follow each other: two messages of one name in the order of their numbers, and none twice
(`QueueInTurn`, for messages in sequences and across them). The inbox itself is increasing.
`EachInOnePlace` is `EachMessageOnce` without cardinalities, for all numbers, so that a
number not yet given out is nowhere. `ThreadsFollow` ties the threads to the queues that
exist, `RoutesFollow` the routes, also between the two critical sections in which a queue is
made and routed, and the patterns, which lead to queues or to `orphans`, those that `Close`
deleted: a dispatch that looks for a queue in vain has been sent there by such a pattern.
`PatternsFollow` is `WildcardsAreRouted` without its proviso on the lock.
`OnlyMailIsHandled` says that the message that ends a thread never reaches a callback. The
walk over the inbox is the recursive function `Sifted`; `SiftedFacts` says that its result
is increasing when the inbox is and has the members asked for, again by the least index.

### SyncClient

Two threads share one socket and `m_WorkLock`. `OneExchange` and `OnePacket` say that there
is one exchange at a time and one packet in it, sent, answered or read. `Ordered` says that
the mail that has reached the inbox is in order and older than that in the packet.
`RequestIsCarried` follows a `ServerRequest` through the outbox, the packet and the inbox:
until the user polls, it is in one of them on the same connection, whichever of the two
threads has carried it, or the outbox has lost it. `RegistrationIsCarried` does the same for
each recurrent subscription of an earlier connection (`Due`): it is still to be posted, in
the outbox (`Boxed`), in a packet (`Sent`), or noted by the database or lost (`Settled`),
and a little further on at each step of the client thread's first exchange, although the
user's thread may take the outbox away under its eyes.

### Applications

`AppInv` adds to `AppKeepsItsPace` that the pass that last called Iterate did not begin
after the last pass (`AgesInOrder`), which modes wait and which are throttled, and in which
order the filter for commands is switched and registered. `DYInv` says that a variable is
fresh exactly when it has a write not yet published, and that the message it would be
published with is that write, whichever of its two values counts. `PEInv` of the periodic
event says that between `Start`'s test and the creation of the thread there is no worker,
and that the worker's clock is the time since its last call. `SleepInv` says that a command
anywhere in the nodes or the network is the one ktm wrote, since replies are never commands,
and that an inbox is the end of what was received (`UnreadOK`), each datagram before it
having been read, or discarded when more than `UnreadLimit` had come and the older of the
latest were read (`MayGo`). `PopOK` says that the latter is true of the front of the inbox
all the time between the look at its size and the pop, because the owner only reads what is
older.

In umm a job's slack, the time since it was first scheduled less its publications times the
period, and the time until it is due add up to one period (`JobInStep`), or to nothing while
it is being published. `Reschedule` keeps the sum when it corrects, and starts the slack
afresh when it does not; a job is published only when its time is before MOOSTime, so the
slack is never below nought by as much as the skew has been above it (`EarlyBySkew`): that
is the frequency kept.

`DBInv` of the database process says that the settings are in range and in force once they
have been read (`SettingsOK`), how far the listen thread is when the owner waits for it
(`ListenerOK`), that each client has the delay the list of responses asks for (`DelaysOK`),
and that reading threads, sockets and clients go in the order of `Stop` (`ClientsOK`).
Entries with a wildcard are pushed to one end of the list of delays and the others to the
other; `TimingIsAsked` shows that the first that matches a name in that list has the delay
which the arguments ask for.

`CLInv` of the command line says what the parse leaves behind: the arguments with their
sections (`ArgvKept`, `SectionKept`), where `SectionOf` is the last label before an
argument; the indices of those without a minus, in order (`NominusKept`); the variables,
each with its last value (`VariablesKept`). A question may begin at any place of the cursor
and moves it: a search goes from the cursor to the end and then from the front up to the
cursor, and finds an argument exactly when there is one where it looks (`FoundIsGiven`).

`SPInv` of the serial port says that what is kept and what has just been read are one run of
the device's bytes, from a terminator or the last byte thrown away to the last byte read
(`Gathered`); that a polled port has taken a telegram out as soon as it is whole (`Polled`);
and that the inbox holds telegrams, newest first, all from before that run (`Inbox`).
`TelegramsAreCut` follows the loop of `CommsLoop` over the accumulator: whatever it holds,
each piece cut off is a telegram and the rest is a run that nothing has ended. The bound of
the accumulator plays no part in it, only that an overflow leaves nothing behind. The check
sum is that of the sentences of this device: a telegram that begins behind a terminator is a
line feed, noise and a sentence (`Enclosed`), of which `SentenceChecks` shows, for whatever
letters, that reading finds the letters and the digits that writing put there.

### Measurements

`ClkInv` adds that a client that does not correct its clock has no skew and its database is
on its host. The arithmetic is that of intervals: a skew measured through two delays is
within one delay of the true one, and halving exact because the unit is even. `AuditInv`
says of each client that the bytes told, in the table being sent, waiting and erased with an
entry are the bytes counted, or no more than those once a report could not be sent
(`BytesOK`), that the extremes are latencies seen, and (`SumOK`) what the sum contains:
until the window is full, as many latencies as were seen; afterwards the first of them, one
fewer than the window, and the latest. This is what makes the average lie between the
extremes, although it is no moving average.

`SkewInv` says that the segments of an envelope are chained, end to start, through points that were
measured (`Chained`), that their slopes are in order (`Bent`), and that they bound every point
since the last reset (`Bounding`).  A new point adds a segment from the last point;
merges replace the last two segments by one while the bend between them is the wrong way, so the
point in the middle is on the right side of the new one, and with it, because the slopes are in
order, all earlier points (`Bends`).  The merging loop is a recursive function over a
number of rounds that is enough, as each merge leaves one segment fewer.

### Only model-checked, and why

* Liveness (`DepartedAreDropped`, `ClientsAreAnswered`, `BrokenConnectionsAreLeft`,
  `NobodyWaitsForEver`, `ClientsGetOn`, `ApplicationsGetOn`, and what ends or comes in
  `services`): out of the prover's reach.
* `TextIsRead` (`StringChecks`, `MissionFile`): that loops over text compute what reference
  definitions say for every text is an induction over data.
* `ViewersSeeTheTruth` (`WebServer`, `AppCasting`), `GraphIsTheCommunity` (`Topology`): what
  they say rests on what parsing and formatting loops yield for given texts; some of these
  are recursive operators, which the provers cannot use, and the others would have to be
  unrolled for every text of an instance, which is what TLC does.

## 7. Not modelled, and why

* The tools mqos, atm and mtm print what they receive or start an ordinary application;
  consoles and `ProcInfo` are input and output with the operating system.
* `NTSerial` and `MOOSNTSerialPort` are calls into Windows; the settings of a terminal on Linux
  are, too.  Of the sockets only sending and receiving have a loop; the rest are wrappers of
  system calls whose outcomes are choices in the models of their callers.
* Headers that nothing includes or that do not compile (time journals, `InterpBuffer`,
  `MOOSMemoryMapped`); GetPot's own configuration files; Poco beyond the event.
* Matrices, random numbers, help texts, banners and layouts: nothing depends on them.
* The write statistics of the database and the byte counters and speed limit of the client,
  which nothing depends on either.
* Data races inside a handler (`OnConnect` against a packet, the walk over `m_ClientThreads`
  against an insertion, the bare flags of `CMOOSApp`) are undefined behaviour below the
  grain of these models, whose steps are handlers or end at locks.
* `ReadPkt` blocks inside a packet without a time limit; a client that stalls there is outside
  the fairness of `live`.

## 8. Plan

1. Modelled and checked: all of section 2.
2. Proved: section 6, which leaves three of the safety properties to TLC.
3. If the project grows: the lock and the handlers of `WebServer` apart from what is parsed under
   them.
