----------------------------- MODULE AppCasting -----------------------------
(***************************************************************************)
(* AppCastingMOOSApp (and AppCastingMOOSInstrument, the same text): an     *)
(* application that keeps its configuration warnings, run warnings and     *)
(* events in an AppCast and publishes it, as the string APPCAST, while     *)
(* some viewer has asked for it or there is something new to tell.         *)
(* Times are ages: how long ago the last report and the last cast were,    *)
(* and how long each viewer's request still lasts.  Text is a sequence of  *)
(* characters; "|" stands for the two characters "!@", so that the inner   *)
(* separator is "|" and the outer one "|#".  The iteration's number, the   *)
(* first field of the string, is left out.                                 *)
(***************************************************************************)
EXTENDS Strings, FiniteSets

CONSTANTS
    Viewers,           \* keys under which appcasts are requested
    MaxDuration,       \* the longest life of a request (30 s in the code)
    MaxConfigWarnings, \* m_max_config_warnings (100 in the code)
    MaxWarned          \* bound on the run warnings that are counted

VARIABLES
    m_ac,          \* the AppCast
    m_iteration,   \* number of iterations, counted as far as 2
    termAge,       \* m_curr_time - m_last_report_time, counted as far as 10
    castAge,       \* m_curr_time - m_last_report_time_appcast, likewise
    bcast,         \* viewer -> what is left of its request, and its threshold
    isNew,         \* m_new_run_warning, m_new_cfg_warning
    setting,       \* m_term_reporting and m_term_report_interval
    acPc,          \* where the application's loop is
    appcast        \* the AppCast of which the last APPCAST is the string

castVars == <<m_ac, m_iteration, termAge, castAge, bcast, isNew, setting, acPc, appcast>>

ISep == <<"|">>
OSep == <<"|", "#">>
Other == <<"O">>
Texts == {<<"u">>}
MaxAge == 1 \* no interval of the instances is longer

----------------------------------------------------------------------------
(* AppCast: what is added to it and taken from it. *)

EmptyCast == [node |-> <<>>, messages |-> <<>>, cfg |-> <<>>, run |-> <<>>, count |-> 0,
              events |-> <<>>, maxEvents |-> 1, maxRun |-> 1]

Event(ac, str) ==
    LET es == Append(ac.events, str) IN
    [ac EXCEPT !.events = IF Len(es) > ac.maxEvents THEN Tail(es) ELSE es]

\* The limit is tested before the warning is added and lets one more in.
CfgWarning(ac, str) ==
    IF Len(ac.cfg) > MaxConfigWarnings THEN ac ELSE [ac EXCEPT !.cfg = Append(@, str)]

RECURSIVE AddConfig(_, _)
AddConfig(ac, ws) == IF ws = <<>> THEN ac ELSE AddConfig(CfgWarning(ac, Head(ws)), Tail(ws))

\* m_map_run_warnings, in the order of its keys, is a sequence of warnings with their counts.
KeyOrder == <<Other, <<"u">>>>
CountOf(run, str) == IF \E i \in 1 .. Len(run) : run[i].text = str
                     THEN run[CHOOSE i \in 1 .. Len(run) : run[i].text = str].n ELSE 0
WithCount(run, str, n) ==
    LET entry(k) == [text |-> KeyOrder[k], n |-> IF KeyOrder[k] = str THEN n ELSE CountOf(run, KeyOrder[k])] IN
    SelectSeq([k \in 1 .. Len(KeyOrder) |-> entry(k)], LAMBDA e : e.n > 0)

RunWarning(ac, str) ==
    LET key == IF Len(ac.run) < ac.maxRun THEN str ELSE Other IN
    [ac EXCEPT !.run = WithCount(@, key, CountOf(@, key) + 1), !.count = @ + 1]

RetractRunWarning(ac, str) ==
    LET n == CountOf(ac.run, str) IN
    [ac EXCEPT !.run = WithCount(@, str, 0), !.count = IF @ >= n THEN @ - n ELSE 0]

----------------------------------------------------------------------------
(* The string that is published, and the AppCast that a viewer makes of it. *)

Number(n) == <<Digit[n + 1]>>

RECURSIVE Joined(_)
Joined(s) == IF s = <<>> THEN <<>> ELSE Head(s) \o IF Tail(s) = <<>> THEN <<>> ELSE ISep \o Joined(Tail(s))

RECURSIVE Lines(_)
Lines(msg) == IF msg = <<>> THEN <<>>
              ELSE LET c == MOOSChomp(msg, <<"\n">>) IN c.head \o ISep \o Lines(c.rest)

GetAppCastString(ac) ==
    LET part(name, value) == <<name, "=">> \o value \o OSep IN
    (IF ac.node = <<>> THEN <<>> ELSE part("node", ac.node))
    \o part("messages", Lines(ac.messages))
    \o (IF ac.cfg = <<>> THEN OSep ELSE part("config_warnings", Joined(ac.cfg)))
    \o part("events_total", Number(Len(ac.events)))
    \o (IF ac.events = <<>> THEN OSep ELSE part("events", Joined(ac.events)))
    \o part("run_warning_total", Number(ac.count))
    \o (IF ac.run = <<>> THEN <<>>
        ELSE <<"run_warnings", "=">>
             \o Joined([i \in 1 .. Len(ac.run) |-> Number(ac.run[i].n) \o <<":">> \o ac.run[i].text]))

\* The items of a list, each trimmed; the lines of the messages get their line ends back.
Items(value) == LET v == StringListToVector(value, ISep) IN [i \in 1 .. Len(v) |-> MOOSTrimWhiteSpace(v[i])]

RECURSIVE Unlines(_)
Unlines(v) == IF v = <<>> THEN <<>> ELSE Head(v) \o <<"\n">> \o Unlines(Tail(v))

\* The part of a name that comes last, trimmed, or nothing; an item is one warning and its count.
Value(parts, name) ==
    LET pair(i) == MOOSChomp(parts[i], <<"=">>)
        at == LastOf({i \in 1 .. Len(parts) : MOOSTrimWhiteSpace(pair(i).head) = <<name>>})
    IN  IF at = NoPos THEN <<>> ELSE MOOSTrimWhiteSpace(pair(at).rest)
Counted(item) == LET c == MOOSChomp(item, <<":">>) IN [text |-> c.rest, n |-> Atoi(c.head, 1)]
UpTo(s, n) == SubSeq(s, 1, IF Len(s) < n THEN Len(s) ELSE n)

\* The limits on events and run warnings are raised for reading; the one on configuration
\* warnings is the sender's.
ReadMax == 1000
String2AppCast(str) ==
    LET parts == StringListToVector(str, OSep)
        run == UpTo(Items(Value(parts, "run_warnings")), ReadMax)
    IN  [node |-> Value(parts, "node"),
         messages |-> Unlines(StringListToVector(Value(parts, "messages"), ISep)),
         cfg |-> UpTo(Items(Value(parts, "config_warnings")), MaxConfigWarnings + 1),
         run |-> [i \in 1 .. Len(run) |-> Counted(run[i])],
         count |-> Atoi(Value(parts, "run_warning_total"), 1),
         events |-> Items(Value(parts, "events")),
         maxEvents |-> ReadMax, maxRun |-> ReadMax]

----------------------------------------------------------------------------
(* The application. *)

NoRequest == [left |-> 0, thresh |-> "any"]

CastInit ==
    /\ m_ac = EmptyCast
    /\ m_iteration = 0
    /\ termAge = MaxAge /\ castAge = MaxAge
    /\ bcast = [v \in Viewers |-> NoRequest]
    /\ isNew = [run |-> FALSE, cfg |-> FALSE]
    /\ setting = [term |-> TRUE, interval |-> 1]
    /\ acPc = "start"
    /\ appcast = EmptyCast

\* TERM_REPORTING, the terminal and the lines of the configuration block, where a value that is
\* not a number leaves the default and a number is clamped.
Settings(reporting, tty, block) ==
    [term |-> reporting # "false" /\ (reporting = "true" \/ tty),
     interval |-> IF block.bad THEN setting.interval ELSE block.interval]

\* OnStartUpDirectives.  A missing community name, a value that is no use and a time warp that is
\* not positive are warned about, in this order.
OnStartUpDirectives ==
    /\ acPc = "start"
    /\ \E community \in BOOLEAN, reporting \in {"none", "true", "false", "bad"}, tty \in BOOLEAN,
          block \in [interval : {0}, bad : BOOLEAN], warpBad \in BOOLEAN :
         LET warned == SelectSeq(<<~community, reporting = "bad", block.bad, warpBad>>, LAMBDA b : b)
         IN  /\ m_ac' = [AddConfig(m_ac, [i \in 1 .. Len(warned) |-> <<"c">>])
                           EXCEPT !.node = IF community THEN <<"n">> ELSE <<>>]
             /\ isNew' = [isNew EXCEPT !.cfg = warned # <<>>]
             /\ setting' = Settings(reporting, tty, block)
    /\ acPc' = "mail"
    /\ UNCHANGED <<m_iteration, termAge, castAge, bcast, appcast>>

\* OnNewMail: requests for other nodes or applications and requests without a key are left out
\* of account; the life of a request is clamped and renewed by the next one of the same viewer.
HandleMailAppCastRequest(v, duration, thresh) ==
    /\ acPc = "mail"
    /\ bcast' = [bcast EXCEPT ![v] = [left |-> duration, thresh |-> thresh]]
    /\ UNCHANGED <<m_ac, m_iteration, termAge, castAge, isNew, setting, acPc, appcast>>

\* What the application reports between Iterate() and PostReport().
ReportEvent(str) ==
    /\ acPc = "iterate"
    /\ m_ac' = Event(m_ac, str)
    /\ UNCHANGED <<m_iteration, termAge, castAge, bcast, isNew, setting, acPc, appcast>>

\* reportUnhandledConfigWarning warns about a line of the configuration that nobody handled.
ReportConfigWarning(str) ==
    /\ acPc = "iterate"
    /\ isNew' = [isNew EXCEPT !.cfg = TRUE]
    /\ m_ac' = CfgWarning(m_ac, str)
    /\ UNCHANGED <<m_iteration, termAge, castAge, bcast, setting, acPc, appcast>>

ReportRunWarning(str) ==
    /\ acPc = "iterate" /\ m_ac.count < MaxWarned
    /\ isNew' = [isNew EXCEPT !.run = TRUE]
    /\ m_ac' = RunWarning(m_ac, str)
    /\ UNCHANGED <<m_iteration, termAge, castAge, bcast, setting, acPc, appcast>>

\* Mutant: the viewers are not told that a warning was taken back.
ToldLater(retracted) == isNew.run

\* A retraction that finds its warning counts as something new.
NewAfterRetract(retracted) == isNew.run \/ retracted

\* getWarningCount() answers the two counts and changes nothing.
RetractRunWarningOf(str) ==
    /\ acPc = "iterate" /\ m_ac.count # 0
    /\ LET found == CountOf(m_ac.run, str) > 0 IN
         /\ isNew' = [isNew EXCEPT !.run = NewAfterRetract(found)]
         /\ m_ac' = RetractRunWarning(m_ac, str)
    /\ UNCHANGED <<m_iteration, termAge, castAge, bcast, setting, acPc, appcast>>

\* Mutant: a configuration warning is told to those who ask only.
OnlyWhenAsked(asked, newCfg) == asked

Warranted(asked, newCfg) == asked \/ newCfg

AppcastRequested ==
    LET asked == \E v \in Viewers : bcast[v].left > 0 /\ (bcast[v].thresh = "any" \/ isNew.run)
    IN  Warranted(asked, isNew.cfg)

\* Iterate() begins an iteration: the time since the last one has passed for everything that ages.
Older(age, t) == IF age + t > MaxAge THEN MaxAge ELSE age + t
CastIterate(t) ==
    /\ acPc = "mail"
    /\ m_iteration' = IF m_iteration < 2 THEN m_iteration + 1 ELSE 2
    /\ termAge' = Older(termAge, t) /\ castAge' = Older(castAge, t)
    /\ bcast' = [v \in Viewers |-> IF bcast[v].left > t THEN [bcast[v] EXCEPT !.left = @ - t] ELSE NoRequest]
    /\ acPc' = "iterate"
    /\ UNCHANGED <<m_ac, isNew, setting, appcast>>

\* PostReport() ends it, called without a directive.  built is what buildReport() answers, report the text it made.
TermDue == termAge >= setting.interval
CastDue == castAge >= setting.interval
Pending == AppcastRequested \/ m_iteration < 2
Reports == /\ TermDue \/ CastDue
           /\ setting.term \/ Pending
           /\ Pending \/ TermDue
           /\ setting.term \/ CastDue

PostReport(report, built) ==
    /\ acPc = "iterate"
    /\ LET full == [m_ac EXCEPT !.messages = report]
           cast == Reports /\ built /\ Pending
       IN  /\ m_ac' = IF Reports /\ built THEN full ELSE m_ac
           /\ termAge' = IF Reports /\ built /\ setting.term THEN 0 ELSE termAge
           /\ castAge' = IF cast THEN 0 ELSE castAge
           /\ isNew' = IF cast THEN [run |-> FALSE, cfg |-> FALSE] ELSE isNew
           /\ appcast' = IF cast THEN full ELSE appcast
    /\ acPc' = "mail"
    /\ UNCHANGED <<m_iteration, bcast, setting>>

Reported == {<<"x", "\n", "\n", "y">>}

CastLoop == (\E t \in 0 .. 1 : CastIterate(t)) \/ (\E r \in Reported, b \in BOOLEAN : PostReport(r, b))
CastNext ==
    \/ OnStartUpDirectives
    \/ \E v \in Viewers, d \in 1 .. MaxDuration, th \in {"any", "run_warning"} : HandleMailAppCastRequest(v, d, th)
    \/ ReportEvent(<<"e">>) \/ ReportConfigWarning(<<"l">>)
    \/ \E s \in Texts : ReportRunWarning(s) \/ RetractRunWarningOf(s)
    \/ CastLoop

\* The application's loop goes on, time with it, and its report can be built.
CastSpec == /\ CastInit /\ [][CastNext]_castVars /\ WF_castVars(CastLoop)
            /\ SF_castVars(CastIterate(1)) /\ SF_castVars(\E r \in Reported : PostReport(r, TRUE))

----------------------------------------------------------------------------
\* The number of run warnings is that of the warnings kept, however they were cut and taken back.
RECURSIVE Sum(_)
Sum(run) == IF run = <<>> THEN 0 ELSE Head(run).n + Sum(Tail(run))
NumbersAddUp == m_ac.count = Sum(m_ac.run)

\* While nothing new waits to be told, the cast that was published last, read as a viewer reads
\* it, has the warnings the application has now: none is missing and none that was taken back is
\* still shown (PostReport, retractRunWarning, getAppCastString, string2AppCast).
Shown(ac) == [cfg |-> ac.cfg, run |-> ac.run, count |-> ac.count]
LastCastIsTrue ==
    ~isNew.run /\ ~isNew.cfg => Shown(String2AppCast(GetAppCastString(appcast))) = Shown(m_ac)

\* The safety of the appcasts: the numbers are right and the last cast is true.
CastsAreCurrent == NumbersAddUp /\ LastCastIsTrue

\* A configuration warning is cast, whether or not a viewer has asked.
ConfigWarningIsCast == isNew.cfg ~> ~isNew.cfg
=============================================================================
