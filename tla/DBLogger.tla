------------------------------ MODULE DBLogger ------------------------------
(***************************************************************************)
(* The event logger of the database (MOOSDBLogger): the database adds      *)
(* events to a list while the logger's thread is running; the thread opens *)
(* the log file for appending and writes the events to it.                 *)
(***************************************************************************)
EXTENDS Integers, Sequences

CONSTANT MaxEvents     \* bound: events the database reports, and times it is run

VARIABLES logList,     \* event_list_, with the flag of its push event
          logRunning,  \* m_bRunning of thread_
          logPc,       \* the logger's thread
          logQuit,     \* m_bQuitRequested
          logFile,     \* the lines of the file
          logOffered,  \* events reported so far
          logAccepted, \* history: the events AddEvent returned true for
          logRuns

logVars == <<logList, logRunning, logPc, logQuit, logFile, logOffered, logAccepted, logRuns>>

BlankEvent == 0        \* a DBLogEvent nobody filled in

LogInit ==
    /\ logList = [events |-> <<>>, set |-> FALSE] /\ logRunning = FALSE /\ logPc = "none" /\ logQuit = FALSE
    /\ logFile = <<>> /\ logOffered = 0 /\ logAccepted = <<>> /\ logRuns = 0

\* Run: nothing is started while the thread is running, or after the logger was deleted.
Run ==
    /\ logPc \in {"none", "ended"} /\ ~logRunning /\ logRuns < MaxEvents
    /\ logRunning' = TRUE /\ logPc' = "open" /\ logQuit' = FALSE /\ logRuns' = logRuns + 1
    /\ UNCHANGED <<logList, logFile, logOffered, logAccepted>>

\* An event is time stamped and listed if the thread is running; otherwise it is refused.
AddEvent ==
    LET e == logOffered + 1 IN
    /\ logPc # "deleted" /\ ~logQuit /\ logOffered < MaxEvents
    /\ logOffered' = e
    /\ IF logRunning
       THEN /\ logList' = [events |-> Append(logList.events, e), set |-> TRUE]
            /\ logAccepted' = Append(logAccepted, e)
       ELSE UNCHANGED <<logList, logAccepted>>
    /\ UNCHANGED <<logRunning, logPc, logQuit, logFile, logRuns>>

\* The destructor asks the thread to quit and joins it.
Destroy ==
    /\ logPc # "deleted" /\ ~logQuit
    /\ IF logRunning THEN logQuit' = TRUE /\ UNCHANGED logPc
       ELSE logPc' = "deleted" /\ UNCHANGED logQuit
    /\ UNCHANGED <<logList, logRunning, logFile, logOffered, logAccepted, logRuns>>

LogStep(from, to) == logPc = from /\ logPc' = to

LoggerJoined ==
    /\ logQuit /\ logPc = "ended" /\ ~logRunning /\ logPc' = "deleted"
    /\ UNCHANGED <<logList, logRunning, logQuit, logFile, logOffered, logAccepted, logRuns>>

----------------------------------------------------------------------------
\* Work: a file that cannot be opened throws, and the thread ends with its list as it is.
OpenFile ==
    /\ logPc = "open" /\ logPc' \in {"test", "ending"}
    /\ UNCHANGED <<logList, logRunning, logQuit, logFile, logOffered, logAccepted, logRuns>>

\* Mutant: the push event is looked at before the wait, not the list.
TestFlag ==
    /\ LogStep("test", IF logQuit THEN "ending" ELSE IF ~logList.set THEN "wait" ELSE "pull")
    /\ UNCHANGED <<logList, logRunning, logQuit, logFile, logOffered, logAccepted, logRuns>>

TestQuit ==
    /\ LogStep("test", IF logQuit THEN "ending" ELSE IF logList.events = <<>> THEN "wait" ELSE "pull")
    /\ UNCHANGED <<logList, logRunning, logQuit, logFile, logOffered, logAccepted, logRuns>>

\* WaitForPush(500): it returns with the push event, or empty handed.
LogWait ==
    /\ LogStep("wait", IF logList.set THEN "pull" ELSE "test")
    /\ logList' = [logList EXCEPT !.set = FALSE]
    /\ UNCHANGED <<logRunning, logQuit, logFile, logOffered, logAccepted, logRuns>>

\* Mutant: Pull leaves the push event set.
PulledOnly(list) == [list EXCEPT !.events = IF @ = <<>> THEN @ ELSE Tail(@)]

Pulled(list) == [events |-> IF list.events = <<>> THEN <<>> ELSE Tail(list.events), set |-> FALSE]

\* Pull and Write: what Pull returns is not looked at.
LogWrite ==
    /\ LogStep("pull", "test")
    /\ logFile' = Append(logFile, IF logList.events = <<>> THEN BlankEvent ELSE Head(logList.events))
    /\ logList' = Pulled(logList)
    /\ UNCHANGED <<logRunning, logQuit, logOffered, logAccepted, logRuns>>

LogEnd ==
    /\ LogStep("ending", "ended") /\ logRunning' = FALSE
    /\ UNCHANGED <<logList, logQuit, logFile, logOffered, logAccepted, logRuns>>

LoggerThread == OpenFile \/ TestQuit \/ LogWait \/ LogWrite \/ LogEnd
LogNext == Run \/ AddEvent \/ Destroy \/ LoggerJoined \/ LoggerThread

\* The thread runs.
LogSpec == LogInit /\ [][LogNext]_logVars /\ WF_logVars(LoggerThread)

----------------------------------------------------------------------------
(* The lines of the file and the events still listed are the accepted events, each once and in the
   order they were added, and no line is of an event nobody reported, although the thread writes
   what Pull left it without looking whether Pull found anything. *)
FileFollowsEvents == logFile \o logList.events = logAccepted

(* While the logger's thread works, every event the database was told is accepted gets to the
   file, although events may be added together under one push event and each Pull clears it. *)
EventsReachTheFile ==
    \A e \in 1 .. MaxEvents :
        logPc = "test" /\ e \in {logAccepted[i] : i \in DOMAIN logAccepted}
            ~> \/ e \in {logFile[i] : i \in DOMAIN logFile}
               \/ logQuit \/ logPc \in {"open", "ending"}
=============================================================================
