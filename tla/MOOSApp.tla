------------------------------- MODULE MOOSApp -------------------------------
(***************************************************************************)
(* CMOOSApp::Run on the application's thread: configuration, the wait for  *)
(* the database, the start-up handlers and the loop that sleeps, hands     *)
(* over mail and iterates; beside it the threads of the comms client,      *)
(* which connect, disconnect, deliver mail and run the application's       *)
(* callbacks, and any thread that asks the application to quit.  Time is   *)
(* counted since the last pass of the loop, since the last Iterate and     *)
(* since the last status message, each up to the largest period it is      *)
(* compared with.                                                          *)
(***************************************************************************)
EXTENDS Integers

CONSTANTS Period,        \* 1/m_dfFreq, in ticks
          MinPeriod,     \* 1/m_dfMaxAppTick (0: unlimited)
          StatusPeriod,  \* STATUS_PERIOD
          MaxUnread      \* bound: messages in the inbox

ASSUME AppAssumption == Period \in Nat \ {0} /\ MinPeriod \in Nat /\ StatusPeriod \in Nat

VARIABLES appPc,         \* where Run is
          appCfg,        \* what Configure has read
          sinceRun,      \* now - m_dfLastRunTime
          sinceIterate,  \* time since the pass that last called Iterate began
          sinceStatus,   \* now - m_dfLastStatusTime
          iterateDue,    \* bIterateRequired
          appMail,       \* the number of messages in the inbox of m_Comms
          announced,     \* the mail callback for the last arrival has run
          mailEvent,     \* m_pMailEvent is set
          up,            \* m_Comms.IsConnected()
          commsRun,      \* the comms threads run
          hook,          \* OnConnectToServerPrivate: "none", "called", "register"
          filter,        \* m_bCommandMessageFiltering
          toggling,      \* EnableCommandMessageFiltering: "none", "register", "unregister", "done"
          cmdKey,        \* the database has the registration for the command key
          appQuitRq,     \* m_bQuitRequested
          runResult      \* what Run returned

commsVars == <<up, commsRun, hook, cmdKey>>
clocks    == <<sinceRun, sinceIterate, sinceStatus>>
appVars   == <<appPc, appCfg, clocks, iterateDue, appMail, announced, mailEvent, commsVars,
               filter, toggling, appQuitRq, runResult>>

NoConfig == [mode |-> 0, async |-> TRUE, useComms |-> TRUE, alone |-> FALSE,
             quitOnFail |-> FALSE, flatOut |-> FALSE]
\* Bound: the mode or one other setting differs from the default.
Configs == {[NoConfig EXCEPT !.mode = m] : m \in 0 .. 2}
           \cup {[NoConfig EXCEPT !.async = FALSE, !.mode = 2], [NoConfig EXCEPT !.useComms = FALSE],
                 [NoConfig EXCEPT !.alone = TRUE], [NoConfig EXCEPT !.quitOnFail = TRUE],
                 [NoConfig EXCEPT !.flatOut = TRUE]}

AppInit ==
    /\ appPc = "configure" /\ appCfg = NoConfig
    /\ sinceRun = Period /\ sinceIterate = Period /\ sinceStatus = StatusPeriod + 1
    /\ iterateDue = TRUE /\ appMail = 0 /\ announced = TRUE /\ mailEvent = FALSE
    /\ up = FALSE /\ commsRun = FALSE /\ hook = "none" /\ filter = FALSE /\ toggling = "none"
    /\ cmdKey = FALSE /\ appQuitRq = FALSE /\ runResult = "none"

----------------------------------------------------------------------------
(* Starting. *)

\* A synchronous client has mode 0 whatever the configuration says.
SetIterateMode(c) == IF c.async THEN c.mode ELSE 0

Configure(c) ==
    /\ appPc = "configure"
    /\ appCfg' = [c EXCEPT !.mode = SetIterateMode(c)]
    /\ filter' \in BOOLEAN
    /\ appPc' = IF c.useComms THEN "comms" ELSE "startup"
    /\ UNCHANGED <<clocks, iterateDue, appMail, announced, mailEvent, commsVars, toggling,
                   appQuitRq, runResult>>

ReturnFrom(result) == appPc' = "returned" /\ runResult' = result

\* CheckSetUp may object to an empty host or port 0.
ConfigureComms ==
    /\ appPc = "comms"
    /\ \/ ReturnFrom("false") /\ UNCHANGED commsRun
       \/ appPc' = "connecting" /\ commsRun' = TRUE /\ UNCHANGED runResult
    /\ UNCHANGED <<appCfg, clocks, iterateDue, appMail, announced, mailEvent, up, hook, filter,
                   toggling, cmdKey, appQuitRq>>

\* The wait ends with a connection or after five seconds.
EndConnecting ==
    /\ appPc = "connecting"
    /\ appPc' = "startup"
    /\ UNCHANGED <<appCfg, clocks, iterateDue, appMail, announced, mailEvent, commsVars, filter,
                   toggling, appQuitRq, runResult>>

\* OnStartUpPrepare, OnStartUp, OnStartUpComplete; --moos_configuration_audit ends here too.
StartUp ==
    /\ appPc = "startup"
    /\ \/ appPc' = "loop" /\ UNCHANGED runResult
       \/ \E r \in {"false", "true"} : ReturnFrom(r)
    /\ UNCHANGED <<appCfg, clocks, iterateDue, appMail, announced, mailEvent, commsVars, filter,
                   toggling, appQuitRq>>

----------------------------------------------------------------------------
(* SleepAsRequired. *)

Late == appCfg.flatOut \/ sinceRun >= Period
Driven == appCfg.async /\ appCfg.mode # 0

\* Mutant: the request is only seen while the database is there.
QuitWhenConnected == appQuitRq /\ up

QuitSeen == appQuitRq

LoopTop ==
    /\ appPc = "loop"
    /\ IF QuitSeen
       THEN appPc' = "close"
       ELSE appPc' = CASE Late            -> "fetch"
                       [] ~Late /\ ~Driven -> "pause"
                       [] OTHER            -> IF appMail > 0 THEN "woken" ELSE "wait"
    /\ iterateDue' = TRUE
    /\ UNCHANGED <<appCfg, clocks, appMail, announced, mailEvent, commsVars, filter, toggling,
                   appQuitRq, runResult>>

\* Mutant: the event is reset before the wait.
WaitAfterReset ==
    /\ appPc = "wait"
    /\ mailEvent' = FALSE
    /\ \/ mailEvent /\ sinceRun >= Period /\ appPc' = "woken"
       \/ sinceRun >= Period /\ appPc' = "fetch"
       \/ mailEvent /\ UNCHANGED appPc
    /\ UNCHANGED <<appCfg, clocks, iterateDue, appMail, announced, commsVars, filter, toggling,
                   appQuitRq, runResult>>

\* m_pMailEvent->tryWait: the event resets itself; the time limit is the rest of the period.
TryWait ==
    /\ appPc = "wait"
    /\ \/ mailEvent /\ mailEvent' = FALSE /\ appPc' = "woken"
       \/ sinceRun >= Period /\ appPc' = "fetch" /\ UNCHANGED mailEvent
    /\ UNCHANGED <<appCfg, clocks, iterateDue, appMail, announced, commsVars, filter, toggling,
                   appQuitRq, runResult>>

\* Mutant: Iterate runs whenever mail has arrived.
AlwaysDue == TRUE

\* Mutant: mode 1 too calls Iterate at AppTick rates only.
NeverWhenWoken == sinceRun >= Period

\* Mode 2 calls Iterate at AppTick rates only; mode 1 sleeps on if the pass would come too soon.
DueWhenWoken == appCfg.mode # 2 \/ sinceRun >= Period

Woken ==
    /\ appPc = "woken"
    /\ iterateDue' = DueWhenWoken
    /\ appPc' = IF appCfg.mode = 1 /\ sinceRun < MinPeriod THEN "throttle" ELSE "fetch"
    /\ UNCHANGED <<appCfg, clocks, appMail, announced, mailEvent, commsVars, filter, toggling,
                   appQuitRq, runResult>>

PauseOver == IF appPc = "pause" THEN sinceRun >= Period ELSE sinceRun >= MinPeriod

Pause ==
    /\ appPc \in {"pause", "throttle"}
    /\ PauseOver
    /\ appPc' = "fetch"
    /\ UNCHANGED <<appCfg, clocks, iterateDue, appMail, announced, mailEvent, commsVars, filter,
                   toggling, appQuitRq, runResult>>

----------------------------------------------------------------------------
(* DoRunWork after the sleep. *)

\* Mutant: mail is only fetched for an Iterate.
FetchedForIterate == IF appCfg.useComms /\ iterateDue THEN 0 ELSE appMail

MailLeft == IF appCfg.useComms THEN 0 ELSE appMail

\* Fetch, the sort by time, OnNewMailPrivate (OnCommandMsg for the command messages), OnNewMail.
FetchMail ==
    /\ appPc = "fetch"
    /\ sinceRun' = 0
    /\ appMail' = MailLeft
    /\ appPc' = "iterate"
    /\ UNCHANGED <<appCfg, sinceIterate, sinceStatus, iterateDue, announced, mailEvent,
                   commsVars, filter, toggling, appQuitRq, runResult>>

MayIterate == ~appCfg.useComms \/ up \/ appCfg.alone
Iterating == appPc = "iterate" /\ iterateDue /\ MayIterate

\* Mutant: the status goes out with an Iterate only.
StatusWithIterate == IF iterateDue /\ sinceStatus > StatusPeriod THEN 0 ELSE sinceStatus

\* IteratePrivate: a status message if the last one is old enough; without a connection the
\* Notify fails but the time is noted.
StatusClock == IF sinceStatus > StatusPeriod THEN 0 ELSE sinceStatus

\* OnIteratePrepare, Iterate, OnIterateComplete: with m_bQuitOnIterateFail a failure ends Run.
Iterate ==
    /\ appPc = "iterate" /\ toggling \in {"none", "done"}
    /\ toggling' = "none"
    /\ IF MayIterate
       THEN /\ sinceStatus' = StatusClock
            /\ IF iterateDue
               THEN /\ sinceIterate' = sinceRun
                    /\ \/ appPc' = "loop" /\ UNCHANGED runResult
                       \/ appCfg.quitOnFail /\ ReturnFrom("false")
               ELSE appPc' = "loop" /\ UNCHANGED <<sinceIterate, runResult>>
       ELSE appPc' = "loop" /\ UNCHANGED <<sinceIterate, sinceStatus, runResult>>
    /\ UNCHANGED <<appCfg, sinceRun, iterateDue, appMail, announced, mailEvent, commsVars,
                   filter, appQuitRq>>

\* m_Comms.Close() after the loop.
CloseComms ==
    /\ appPc = "close"
    /\ hook = "none"                       \* Close joins the comms threads
    /\ ReturnFrom("true")
    /\ commsRun' = FALSE /\ up' = FALSE /\ cmdKey' = FALSE /\ appMail' = 0
    /\ UNCHANGED <<appCfg, clocks, iterateDue, announced, mailEvent, hook, filter, toggling,
                   appQuitRq>>

RequestQuit ==
    /\ ~appQuitRq /\ appPc # "returned"
    /\ appQuitRq' = TRUE
    /\ UNCHANGED <<appPc, appCfg, clocks, iterateDue, appMail, announced, mailEvent, commsVars,
                   filter, toggling, runResult>>

\* EnableCommandMessageFiltering, called from Iterate, here at most once in each: the flag,
\* then the registration.
EnableCommandMessageFiltering(b) ==
    /\ Iterating /\ toggling = "none" /\ appCfg.useComms
    /\ b # filter
    /\ filter' = b
    /\ toggling' = IF b THEN "register" ELSE "unregister"
    /\ UNCHANGED <<appPc, appCfg, clocks, iterateDue, appMail, announced, mailEvent, commsVars,
                   appQuitRq, runResult>>

RegisterCommandKey ==
    /\ toggling \in {"register", "unregister"}
    /\ cmdKey' = IF up THEN toggling = "register" ELSE cmdKey
    /\ toggling' = "done"
    /\ UNCHANGED <<appPc, appCfg, clocks, iterateDue, appMail, announced, mailEvent, up,
                   commsRun, hook, filter, appQuitRq, runResult>>

----------------------------------------------------------------------------
(* The threads of the comms client.  Failed runs leave them running; what they do once Run has
   returned is not followed. *)

Followed == appPc # "returned"

\* The hand shake succeeds; the connect callback follows.
Connect ==
    /\ commsRun /\ ~up /\ hook = "none" /\ appPc # "close" /\ Followed
    /\ up' = TRUE /\ hook' = "called"
    /\ UNCHANGED <<appPc, appCfg, clocks, iterateDue, appMail, announced, mailEvent, commsRun,
                   filter, toggling, cmdKey, appQuitRq, runResult>>

\* Mutant: the key is registered by EnableCommandMessageFiltering alone.
HookDoesNothing == hook = "called" /\ hook' = "none" /\ UNCHANGED cmdKey

\* OnConnectToServerPrivate: the flag is read, then the key registered.
OnConnectToServerPrivate ==
    \/ /\ hook = "called"
       /\ hook' = IF filter THEN "register" ELSE "none"
       /\ UNCHANGED cmdKey
    \/ /\ hook = "register"
       /\ hook' = "none"
       /\ cmdKey' = (cmdKey \/ up)

OnConnect ==
    /\ OnConnectToServerPrivate
    /\ UNCHANGED <<appPc, appCfg, clocks, iterateDue, appMail, announced, mailEvent, up,
                   commsRun, filter, toggling, appQuitRq, runResult>>

\* OnCloseConnection clears the boxes and the registrations.
Disconnect ==
    /\ up /\ hook = "none" /\ announced /\ Followed
    /\ up' = FALSE /\ cmdKey' = FALSE /\ appMail' = 0
    /\ UNCHANGED <<appPc, appCfg, clocks, iterateDue, announced, mailEvent, commsRun, hook,
                   filter, toggling, appQuitRq, runResult>>

MailArrives ==
    /\ up /\ announced /\ Followed /\ appMail < MaxUnread
    /\ appMail' = appMail + 1
    /\ announced' = FALSE
    /\ UNCHANGED <<appPc, appCfg, clocks, iterateDue, mailEvent, commsVars, filter, toggling,
                   appQuitRq, runResult>>

\* MOOSAPP_OnMail, after the inbox has been unlocked.
OnMailCallBack ==
    /\ ~announced
    /\ mailEvent' = TRUE /\ announced' = TRUE
    /\ UNCHANGED <<appPc, appCfg, clocks, iterateDue, appMail, commsVars, filter, toggling,
                   appQuitRq, runResult>>

----------------------------------------------------------------------------
SatInc(n, max) == IF n < max THEN n + 1 ELSE n

TimePasses ==
    /\ appPc # "returned"
    /\ sinceRun' = SatInc(sinceRun, Period)
    /\ sinceIterate' = SatInc(sinceIterate, Period)
    /\ sinceStatus' = SatInc(sinceStatus, StatusPeriod + 1)
    /\ clocks' # clocks
    /\ UNCHANGED <<appPc, appCfg, iterateDue, appMail, announced, mailEvent, commsVars, filter,
                   toggling, appQuitRq, runResult>>

DoRunWork == LoopTop \/ TryWait \/ Woken \/ Pause \/ FetchMail \/ Iterate
MainThread == \/ \E c \in Configs : Configure(c)
              \/ ConfigureComms \/ EndConnecting \/ StartUp \/ DoRunWork \/ CloseComms
              \/ RegisterCommandKey
CommsThread == OnConnect \/ OnMailCallBack

AppNext ==
    \/ MainThread \/ CommsThread \/ TimePasses
    \/ RequestQuit \/ \E b \in BOOLEAN : EnableCommandMessageFiltering(b)
    \/ Connect \/ Disconnect \/ MailArrives

\* Both threads run and time passes.
AppSpec == /\ AppInit /\ [][AppNext]_appVars
           /\ WF_appVars(MainThread) /\ WF_appVars(CommsThread) /\ WF_appVars(TimePasses)

----------------------------------------------------------------------------
(* The event that wakes the loop is not lost: an application that waits while there is mail
   has its event set, or the thread that put the mail there is about to set it. *)
MailWakesTheApp == appPc = "wait" /\ appMail > 0 => mailEvent \/ ~announced

(* The passes that call Iterate do not begin more often than the mode allows: one in a period
   in modes 0 and 2, one in the shorter of the two periods in mode 1. *)
Spacing == IF appCfg.mode = 1 /\ MinPeriod < Period THEN MinPeriod ELSE Period
IterateKeepsItsDistance ==
    appPc = "fetch" /\ iterateDue /\ ~appCfg.flatOut => sinceIterate >= Spacing

(* While command filtering is on and no call that changes it is under way, a connected
   application is registered for its command messages: neither a reconnection nor a change of
   the setting at the moment of the connection loses the registration. *)
CommandsAreRegistered == filter /\ up /\ hook = "none" /\ toggling \in {"none", "done"} => cmdKey

InLoop == appPc \in {"loop", "wait", "woken", "pause", "throttle", "fetch", "iterate"}

(* Mail is handed over, however busy the loop, unless the connection or the application
   goes away. *)
MailIsHandled == (InLoop /\ appMail > 0) ~> (appMail = 0 \/ ~InLoop)

(* The status message keeps coming, also in an application whose mail never pauses. *)
StatusKeepsComing ==
    (InLoop /\ sinceStatus > StatusPeriod) ~> (sinceStatus <= StatusPeriod \/ ~MayIterate \/ ~InLoop)

(* In modes 0 and 1 Iterate keeps being called. *)
IterateKeepsComing == (InLoop /\ appCfg.mode # 2) ~> (Iterating \/ ~MayIterate \/ ~InLoop)

(* A request to quit ends Run. *)
QuitEnds == (InLoop /\ appQuitRq) ~> (appPc = "returned")

(* The banner and a comment say that Iterate is called at the regular rate in mode 2. *)
RegularIterate == (InLoop /\ appCfg.mode = 2) ~> (Iterating \/ ~MayIterate \/ ~InLoop)

(* The safety of the application's loop: no wake-up and no registration is lost, and Iterate keeps
   its distance. *)
AppKeepsItsPace == MailWakesTheApp /\ IterateKeepsItsDistance /\ CommandsAreRegistered
=============================================================================
