--------------------------------- MODULE UMM ---------------------------------
(***************************************************************************)
(* The testing client umm: its directives (what to publish, subscribe to   *)
(* and bounce), the scheduling thread that publishes from a priority queue *)
(* of jobs, and the application's thread that bounces mail and watches the *)
(* pings.  Jobs are scheduled by the local clock and tested against        *)
(* MOOSTime, the local clock and the skew.  Times are relative to now, so  *)
(* that the schedule can run for ever; a second has UmmSecond ticks.       *)
(***************************************************************************)
EXTENDS Integers, Sequences, FiniteSets, Strings

CONSTANTS UmmSecond,        \* ticks in a second
          CorrectEvery,     \* 100: every so many publications the correction is left out
          UmmTx,            \* a value for --num_tx
          UmmSkews,         \* what the skew of MOOSTime may be
          UmmLate           \* bound: how late a publication may be

ASSUME UmmAssumption == UmmSecond \in Nat /\ CorrectEvery \in Nat \ {0} /\ UmmSkews \subseteq Int

VARIABLES umJobs,       \* _Jobs: per name, [at: _dfTimeScheduled - now, count: _nCount % CorrectEvery]
          umActive,     \* the job the loop has popped and published, or <<>>
          umSkew,       \* gdfMOOSSkew: how far MOOSTime is ahead of the local clock
          umTx,         \* _TxCount; -1 when --num_tx was not given
          umSent,       \* nSent
          umSlack,      \* history, per name: time since the start, or since the last job that was
                        \* not corrected was put back, minus period * publications since
          umMail,       \* the mail the application's thread is given: keys, with the time of each
          umPosted,     \* what it bounced
          umPing,       \* _bPingRxd
          umWatch,      \* ticks since Iterate last looked
          umState       \* running, exited

umVars == <<umJobs, umActive, umSkew, umTx, umSent, umSlack, umMail, umPosted, umPing, umWatch, umState>>
umApp == <<umMail, umPosted, umPing, umWatch>>
umSched == <<umJobs, umActive, umSkew, umTx, umSent, umSlack, umState>>

----------------------------------------------------------------------------
(* Directives.  Each is a sequence of words and separators. *)

UmmNumeric(s) == \A i \in 1 .. Len(s) : s[i] \in DigitChars
Hz(s) == ValueOf(s[1])

\* name[:binary_size][@frequency]; a frequency below 0.01 counts as 0.01, none as 1.
Publication(p) ==
    LET at == MOOSChomp(p, <<"@">>)
        name == MOOSChomp(at.head, <<":">>)
    IN  [name |-> name.head, size |-> IF name.rest = <<>> THEN 0 ELSE Hz(name.rest),
         period |-> IF at.rest = <<>> THEN UmmSecond
                    ELSE IF Hz(at.rest) = 0 THEN 100 * UmmSecond ELSE UmmSecond \div Hz(at.rest)]

\* var[@frequency].
Subscription(s) ==
    LET at == MOOSChomp(s, <<"@">>) IN
    [var |-> at.head,
     period |-> IF at.rest # <<>> /\ UmmNumeric(at.rest) /\ Hz(at.rest) > 0 THEN UmmSecond \div Hz(at.rest) ELSE 0]

Refused == [var |-> <<>>, app |-> <<>>, period |-> 0]

\* var_pattern[:app_pattern[@frequency]]: what is registered, or Refused.
AppPattern(app, rest) == IF rest = <<>> /\ app = <<>> THEN <<"*">> ELSE app

WildSubscription(w) ==
    LET var == MOOSChomp(w, <<":">>)
        app == MOOSChomp(var.rest, <<"@">>)
    IN  IF var.head = <<>> \/ ~UmmNumeric(app.rest) THEN Refused
        ELSE [var |-> var.head, app |-> AppPattern(app.head, app.rest),
              period |-> IF app.rest # <<>> /\ Hz(app.rest) > 0 THEN UmmSecond \div Hz(app.rest) ELSE 0]

\* name:new_name; without a new name the directive is passed over.
Bounce(b) == MOOSChomp(b, <<":">>)

Publications == {Publication(p) : p \in {<<"x", "@", "2">>, <<"y", ":", "3">>}}
Bounces == {<<"u", ":", "v">>, <<"w">>}
BounceMap == [k \in {Bounce(b).head : b \in {c \in Bounces : Bounce(c).rest # <<>>}} |->
                 Bounce(CHOOSE b \in Bounces : Bounce(b).head = k).rest]

Names == {p.name : p \in Publications}
JobPeriod(n) == (CHOOSE p \in Publications : p.name = n).period

----------------------------------------------------------------------------
UMInit ==
    /\ umJobs = [n \in Names |-> [at |-> JobPeriod(n), count |-> 0]]
    /\ umActive = <<>> /\ umSkew = 0 /\ umTx \in {-1, UmmTx} /\ umSent = 0 /\ umSlack = [n \in Names |-> 0] /\ umState = "running"
    /\ umMail = <<>> /\ umPosted = <<>> /\ umPing = FALSE /\ umWatch = 0

UMTick ==
    /\ umState = "running" /\ \A n \in Names : umJobs[n].at > 0 - UmmLate
    /\ umWatch <= UmmSecond + UmmLate
    /\ umJobs' = [n \in Names |-> [umJobs[n] EXCEPT !.at = @ - 1]]
    /\ umSlack' = [n \in Names |-> umSlack[n] + 1] /\ umWatch' = umWatch + 1
    /\ UNCHANGED <<umActive, umSkew, umTx, umSent, umState, umMail, umPosted, umPing>>

\* The thread of the client sets the skew as the server's timing messages come in (see Clock).
SetMOOSSkew ==
    /\ umState = "running" /\ umSkew' \in UmmSkews
    /\ UNCHANGED <<umJobs, umActive, umTx, umSent, umSlack, umState, umApp>>

\* Mutant: the queue's order is the wrong way round.
LastFirst(n) == \A k \in Names : umJobs[k].at <= umJobs[n].at

\* operator < of Job turns the priority queue's top into the job that is due first.
Top(n) == \A k \in Names : umJobs[n].at <= umJobs[k].at
IsActive(n) == umJobs[n].at < umSkew

\* The loop publishes the top job while it is active; the last of num_tx ends the process.
Publish(n) ==
    /\ umState = "running" /\ umActive = <<>> /\ Top(n) /\ IsActive(n)
    /\ umSent' = IF umTx >= 0 THEN umSent + 1 ELSE umSent
    /\ umState' = IF umTx >= 0 /\ umSent + 1 = umTx THEN "exited" ELSE "running"
    /\ umActive' = n /\ umSlack' = [umSlack EXCEPT ![n] = @ - JobPeriod(n)]
    /\ UNCHANGED <<umJobs, umSkew, umTx, umApp>>

\* Mutant: the correction takes the period with it.
Overcorrected(n, late, count) == IF count # 0 THEN 0 - late ELSE JobPeriod(n)

Rescheduled(n, late, count) == JobPeriod(n) - IF count # 0 THEN late ELSE 0

\* Reschedule, and the job goes back into the queue.
Reschedule ==
    /\ umState = "running" /\ umActive # <<>> /\ umActive' = <<>>
    /\ LET count == (umJobs[umActive].count + 1) % CorrectEvery IN
       /\ umJobs' = [umJobs EXCEPT ![umActive] = [at |-> Rescheduled(umActive, 0 - umJobs[umActive].at, count),
                                               count |-> count]]
       /\ umSlack' = IF count = 0 THEN [umSlack EXCEPT ![umActive] = 0] ELSE umSlack
    /\ UNCHANGED <<umSkew, umTx, umSent, umState, umApp>>

Scheduler == Reschedule \/ \E n \in Names : Publish(n)

----------------------------------------------------------------------------
(* The application's thread. *)
Delivered ==
    /\ umState = "running" /\ umMail = <<>>
    /\ \E k \in {<<"u">>, <<"__ping">>}, skewed \in BOOLEAN : umMail' = <<[key |-> k, skewed |-> skewed]>>
    /\ UNCHANGED <<umSched, umPosted, umPing, umWatch>>

\* OnNewMail: a message of a bounced variable is posted under its other name, a ping is noted.
OnNewMail ==
    /\ umState = "running" /\ umMail # <<>> /\ umMail' = <<>>
    /\ LET msg == Head(umMail) IN
       /\ umPosted' = IF msg.key \in DOMAIN BounceMap THEN BounceMap[msg.key] ELSE <<>>
       /\ umPing' = (umPing \/ (msg.key = <<"__ping">> /\ ~msg.skewed))
    /\ UNCHANGED <<umSched, umWatch>>

\* Iterate: once a second it prints what it is asked to print, "no route" unless umPing.
UmmIterate ==
    /\ umState = "running" /\ umWatch > UmmSecond
    /\ umPing' = FALSE /\ umWatch' = 0
    /\ UNCHANGED <<umSched, umMail, umPosted>>

UMNext == UMTick \/ SetMOOSSkew \/ Scheduler \/ Delivered \/ OnNewMail \/ UmmIterate

\* The two threads run, and time passes.
UMSpec == /\ UMInit /\ [][UMNext]_umVars
          /\ WF_umVars(UMTick) /\ WF_umVars(Scheduler) /\ WF_umVars(OnNewMail) /\ WF_umVars(UmmIterate)

----------------------------------------------------------------------------
\* So far ahead of its frequency as MOOSTime may have been of the local clock, and no further.
EarlyBySkew(slack) == slack >= 0 \/ \E s \in UmmSkews : slack > 0 - s

(* isActive, Reschedule: between two publications that are not corrected a job is never ahead of its
   frequency by as much as MOOSTime has been of the local clock, and not at all when it never was,
   however late the loop is and however the skew moves. *)
NeverTooOften == \A n \in Names : EarlyBySkew(umSlack[n])

(* What umm's help says, "var_name[:optional_binary_size]@frequency_hz": no more publications than
   the frequency asks for.  False when the skew is positive. *)
AtItsFrequency == \A n \in Names : umSlack[n] >= 0

(* Every way to write a wildcard directive asks for the variable, application and period it names. *)
DirectivesAreParsed ==
    \A p \in {<<"v">>, <<"v", "*">>}, a \in {<<"a">>, <<"*">>}, f \in {"1", "2"} :
        /\ WildSubscription(p \o <<":">> \o a \o <<"@", f>>) =
               [var |-> p, app |-> a, period |-> UmmSecond \div ValueOf(f)]
        /\ WildSubscription(p \o <<":">> \o a) = [var |-> p, app |-> a, period |-> 0]
        /\ WildSubscription(p) = [var |-> p, app |-> <<"*">>, period |-> 0]

(* A job that has fallen due is published, whatever the other jobs' frequencies and wherever the skew
   goes: the queue starves none. *)
JobsKeepTheirTurn == \A n \in Names : (umJobs[n].at < 0) ~> (umActive = n \/ umState = "exited")

(* The safety of umm: it does what its directives ask for, and not more often. *)
UmmDoesAsDirected == NeverTooOften /\ DirectivesAreParsed
=============================================================================
