--------------------------- MODULE PeriodicEvent ---------------------------
(***************************************************************************)
(* CMOOSThread and the PeriodicEvent that is built on it: an owner that    *)
(* starts and stops, and the threads it has created, each of which runs    *)
(* the worker function once.  The running and quit flags are read and      *)
(* written under m_APILock, one at a time; a worker may end by itself when *)
(* the callback returns false.  Time is in half milliseconds, so that the  *)
(* truncation of the sleep to whole milliseconds is visible.               *)
(***************************************************************************)
EXTENDS Integers, FiniteSets

CONSTANTS Workers,        \* threads that may be created
          PePeriod,       \* Period_, in half milliseconds
          MaxLate         \* bound: how far the clock runs before the worker catches up

ASSUME PEAssumption == PePeriod \in Nat

VARIABLES peRunning,      \* m_bRunning
          peQuit,         \* m_bQuitRequested
          peThread,       \* m_nThreadID: the thread last created, or "none"
          pePc,           \* per worker: unborn, born, sleep, call, over, gone
          peOwner,        \* the owner: idle, start, create, stop, join, joined
          peStarted,      \* the owner's last call that returned was Start
          peLast,         \* clock minus TimeLast
          peSince,        \* history: time since the last callback, or since the worker began
          peSleep         \* clock at which the worker's sleep began minus TimeLast, or -1

peVars == <<peRunning, peQuit, peThread, pePc, peOwner, peStarted, peLast, peSince, peSleep>>

PEInit ==
    /\ peRunning = FALSE /\ peQuit = FALSE
    /\ peThread = "none" /\ pePc = [w \in Workers |-> "unborn"]
    /\ peOwner = "idle" /\ peStarted = FALSE /\ peLast = 0 /\ peSince = 0 /\ peSleep = -1

WorkerGoto(w, l) == pePc' = [pePc EXCEPT ![w] = l]
OwnerStep(from, to) == peOwner = from /\ peOwner' = to

----------------------------------------------------------------------------
(* The owner. *)

\* Mutant: Start does not look whether the thread runs already.
NotAsked == TRUE

NotRunning == ~peRunning

\* Start: refused while the thread runs; otherwise the quit flag is cleared.
Start ==
    /\ OwnerStep("idle", "create") /\ NotRunning
    /\ \E w \in Workers : pePc[w] = "unborn"      \* bound: threads that may be created
    /\ peQuit' = FALSE
    /\ UNCHANGED <<peRunning, peThread, pePc, peStarted, peLast, peSince, peSleep>>

\* The running flag is set before pthread_create, which cannot fail here or takes it back.
Create ==
    /\ OwnerStep("create", "idle")
    /\ \/ \E w \in Workers : /\ pePc[w] = "unborn"
                             /\ WorkerGoto(w, "born") /\ peThread' = w
          /\ peRunning' = TRUE /\ peStarted' = TRUE
       \/ UNCHANGED <<pePc, peThread, peRunning, peStarted>>
    /\ UNCHANGED <<peQuit, peLast, peSince, peSleep>>

\* Stop: nothing to do for a thread that does not run, or that has ended by itself.
StopIdle ==
    /\ peOwner = "idle" /\ ~peRunning /\ peStarted
    /\ peStarted' = FALSE
    /\ UNCHANGED <<peRunning, peQuit, peThread, pePc, peOwner, peLast, peSince, peSleep>>

Stop ==
    /\ OwnerStep("idle", "join") /\ peRunning
    /\ peQuit' = TRUE
    /\ UNCHANGED <<peRunning, peThread, pePc, peStarted, peLast, peSince, peSleep>>

\* pthread_join, then the running flag.
Join ==
    /\ OwnerStep("join", "idle") /\ pePc[peThread] = "gone"
    /\ peRunning' = FALSE /\ peStarted' = FALSE
    /\ UNCHANGED <<peQuit, peThread, pePc, peLast, peSince, peSleep>>

----------------------------------------------------------------------------
(* The worker. *)

\* Mutant: the new thread clears the quit flag, and with it a Stop that came first.
Forgotten == FALSE

QuitAtStart == peQuit

\* Work sets the running flag, and DoWork takes the time.
ThreadWork(w) ==
    /\ pePc[w] = "born" /\ WorkerGoto(w, "sleep")
    /\ peRunning' = TRUE /\ peLast' = 0 /\ peSince' = 0 /\ peSleep' = -1
    /\ peQuit' = QuitAtStart
    /\ UNCHANGED <<peThread, peOwner, peStarted>>

MillisecondsSleep(t) == 2 * ((PePeriod - t) \div 2)

\* The loop's test, then the sleep of whole milliseconds that is left of the period.
BeginSleep(w) ==
    /\ pePc[w] = "sleep" /\ peSleep = -1 /\ ~peQuit
    /\ peSleep' = peLast
    /\ UNCHANGED <<peRunning, peQuit, peThread, pePc, peOwner, peStarted, peLast, peSince>>

Slept == peLast >= peSleep + (IF PePeriod > peSleep THEN MillisecondsSleep(peSleep) ELSE 0)

\* Mutant: TimeLast becomes the time the call was scheduled for.
AsScheduled == IF peLast > PePeriod THEN peLast - PePeriod ELSE 0

TimeLast == 0      \* TimeNow, on a clock that starts at the call

\* The callback is called, after the time was noted that becomes TimeLast.
Callback(w) ==
    /\ pePc[w] = "sleep" /\ peSleep >= 0 /\ Slept
    /\ WorkerGoto(w, "call")
    /\ peLast' = TimeLast /\ peSince' = 0 /\ peSleep' = -1
    /\ UNCHANGED <<peRunning, peQuit, peThread, peOwner, peStarted>>

\* It returns true, or false and the loop is left.
CallbackReturns(w) ==
    /\ pePc[w] = "call"
    /\ WorkerGoto(w, "sleep") \/ WorkerGoto(w, "over")
    /\ UNCHANGED <<peRunning, peQuit, peThread, peOwner, peStarted, peLast, peSince, peSleep>>

QuitRequested(w) ==
    /\ pePc[w] = "sleep" /\ peSleep = -1 /\ peQuit
    /\ WorkerGoto(w, "over")
    /\ UNCHANGED <<peRunning, peQuit, peThread, peOwner, peStarted, peLast, peSince, peSleep>>

\* Back in Work the running flag goes down, and the thread ends.
Over(w) ==
    /\ pePc[w] = "over" /\ WorkerGoto(w, "gone")
    /\ peRunning' = FALSE
    /\ UNCHANGED <<peQuit, peThread, peOwner, peStarted, peLast, peSince, peSleep>>

WorkerStep(w) == ThreadWork(w) \/ BeginSleep(w) \/ Callback(w) \/ CallbackReturns(w) \/ QuitRequested(w) \/ Over(w)

PETick ==
    /\ peSince < MaxLate /\ peLast' = peLast + 1 /\ peSince' = peSince + 1
    /\ UNCHANGED <<peRunning, peQuit, peThread, pePc, peOwner, peStarted, peSleep>>

PENext ==
    \/ Start \/ Create \/ StopIdle \/ Stop \/ Join
    \/ \E w \in Workers : WorkerStep(w)
    \/ PETick

\* Time passes, the created threads run, and an owner inside a call goes on.
PESpec == /\ PEInit /\ [][PENext]_peVars /\ WF_peVars(PETick) /\ WF_peVars(Join) /\ WF_peVars(Create)
          /\ \A w \in Workers : WF_peVars(WorkerStep(w))

----------------------------------------------------------------------------
(* Two threads never run the worker function at once, although Start overwrites the handle of a
   thread that ended by itself and never joins it, and both owner and worker write m_bRunning;
   and a thread in the function is the one that Stop would join. *)
OneWorker == \A w \in Workers : pePc[w] \in {"born", "sleep", "call", "over"} => w = peThread /\ peRunning

(* The calls do not bunch up after a late one: each begins a period after the one before, less the part of a millisecond
   that the conversion of the sleep to int throws away. *)
NotEarly == [][\A w \in Workers : Callback(w) => peSince > PePeriod - 2]_peVars

(* Stop returns, and a callback asked to go away goes. *)
StopReturns == (peOwner = "join") ~> (peOwner = "idle")

(* The safety of the periodic event: one thread, and calls that keep their distance. *)
EventIsPeriodic == []OneWorker /\ NotEarly
=============================================================================
