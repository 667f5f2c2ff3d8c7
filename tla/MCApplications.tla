---------------------------- MODULE MCApplications ----------------------------
(***************************************************************************)
(* Small instances of what runs in the process of an application: its      *)
(* loop, the sleeper, the periodic event and umm.  They meet through the   *)
(* interfaces of other modules only, so each behaviour is one of one part, *)
(* chosen at the start.                                                    *)
(***************************************************************************)
EXTENDS MOOSApp, SuicidalSleeper, PeriodicEvent, UMM

VARIABLE part

applicationVars == <<part, appVars, ssleepVars, peVars, umVars>>

MCSkews == {-1, 0, 2}

\* A part that was not chosen rests in one of its initial states.
Init == /\ part \in {"app", "sleeper", "event", "umm"}
        /\ AppInit
        /\ SleepInit
        /\ PEInit
        /\ UMInit /\ (part # "umm" => umTx = -1)

Next == /\ UNCHANGED part
        /\ \/ /\ part = "app" /\ AppNext
              /\ UNCHANGED <<ssleepVars, peVars, umVars>>
           \/ /\ part = "sleeper" /\ SleepNext
              /\ UNCHANGED <<appVars, peVars, umVars>>
           \/ /\ part = "event" /\ PENext
              /\ UNCHANGED <<appVars, ssleepVars, umVars>>
           \/ /\ part = "umm" /\ UMNext
              /\ UNCHANGED <<appVars, ssleepVars, peVars>>

\* What the specifications of the parts say of fairness, of the part that was chosen.
AppFairness == /\ WF_appVars(part = "app" /\ MainThread) /\ WF_appVars(part = "app" /\ CommsThread)
               /\ WF_appVars(part = "app" /\ TimePasses)
SleepFairness == WF_ssleepVars(part = "sleeper" /\ Count) /\ WF_ssleepVars(part = "sleeper" /\ Exit)
PEFairness == /\ WF_peVars(part = "event" /\ PETick) /\ WF_peVars(part = "event" /\ Join)
              /\ WF_peVars(part = "event" /\ Create)
              /\ \A w \in Workers : WF_peVars(part = "event" /\ WorkerStep(w))
UMFairness == /\ WF_umVars(part = "umm" /\ UMTick) /\ WF_umVars(part = "umm" /\ Scheduler)
              /\ WF_umVars(part = "umm" /\ OnNewMail) /\ WF_umVars(part = "umm" /\ UmmIterate)

Spec == /\ Init /\ [][Next]_applicationVars
        /\ AppFairness /\ SleepFairness /\ PEFairness /\ UMFairness

(* Nothing in an application waits for ever: mail is handled, status and Iterate keep coming and a
   request to quit ends Run; an accepted kill kills; the Stop of a periodic event returns; and no
   job of umm is starved. *)
ApplicationsGetOn ==
    /\ MailIsHandled /\ StatusKeepsComing /\ IterateKeepsComing /\ QuitEnds
    /\ OrderedDeathComes /\ StopReturns /\ JobsKeepTheirTurn
=============================================================================
