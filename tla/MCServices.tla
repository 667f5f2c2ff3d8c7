---------------------------- MODULE MCServices ----------------------------
(***************************************************************************)
(* Small instances of what serves others beside the database and its       *)
(* threaded server: the start and stop of the database, the server with a  *)
(* single thread, the event logger, the web server, and the appcasts of an *)
(* application.  They meet through the interfaces of other modules only, so *)
(* each behaviour is one of one part, chosen at the start.                 *)
(***************************************************************************)
EXTENDS SingleServer, WebServer, DBLogger, DBLife, AppCasting

VARIABLE part

serviceVars == <<part, ssVars, wsVars, logVars, dbVars, castVars>>

MCWebVar == <<"X">>
MCDBNames == {<<"a">>, <<"b">>}
MCResponses == {<<"0">>,
                <<"a", ":", "2", ",", "*", ":", "1">>,
                <<"b", ":", "x", ",", "?", ":", "3", ",", "2">>,
                <<"a", ":", "3", ",", "a", ":", "1">>}

\* A part that was not chosen rests in one of its initial states.
Init == /\ part \in {"single", "web", "logger", "life", "cast"}
        /\ SSInit
        /\ WSInit
        /\ LogInit
        /\ DBInit /\ (part # "life" => given = [file |-> Nothing, cmd |-> Nothing, response |-> <<"0">>])
        /\ CastInit

Next == /\ UNCHANGED part
        /\ \/ /\ part = "single" /\ SSNext
              /\ UNCHANGED <<wsVars, logVars, dbVars, castVars>>
           \/ /\ part = "web" /\ WSNext
              /\ UNCHANGED <<ssVars, logVars, dbVars, castVars>>
           \/ /\ part = "logger" /\ LogNext
              /\ UNCHANGED <<ssVars, wsVars, dbVars, castVars>>
           \/ /\ part = "life" /\ DBNext
              /\ UNCHANGED <<ssVars, wsVars, logVars, castVars>>
           \/ /\ part = "cast" /\ CastNext
              /\ UNCHANGED <<ssVars, wsVars, logVars, dbVars>>

\* What the specifications of the parts say of fairness, of the part that was chosen.
SSFairness == /\ WF_ssVars(part = "single" /\ ServerLoop) /\ WF_ssVars(part = "single" /\ Greeting)
              /\ \A f \in Fds : WF_ssVars(part = "single" /\ ClientSends(f))
WSFairness == /\ WF_wsVars(part = "web" /\ CleanUp)
              /\ \A b \in Browsers : WF_wsVars(part = "web" /\ Serve(b))
LogFairness == WF_logVars(part = "logger" /\ LoggerThread)
DBFairness == /\ WF_dbVars(part = "life" /\ Owner) /\ WF_dbVars(part = "life" /\ ListenLoop)
              /\ WF_dbVars(part = "life" /\ \E t \in Threads : LoopEnds(t))
CastFairness == /\ WF_castVars(part = "cast" /\ CastLoop)
                /\ SF_castVars(part = "cast" /\ CastIterate(1))
                /\ SF_castVars(part = "cast" /\ \E r \in Reported : PostReport(r, TRUE))

Spec == /\ Init /\ [][Next]_serviceVars
        /\ SSFairness /\ WSFairness /\ LogFairness /\ DBFairness /\ CastFairness

(* Whoever looks, at a page of the web server or at an appcast, is shown what the database and the
   application have, and what is poked or cast arrives as it was given. *)
ViewersSeeTheTruth == PagesAreServed /\ CastsAreCurrent

(* Nobody who is served waits for ever: a client's packet is answered unless a caller or an exception
   keeps the list of sockets locked, an event the logger accepted
   gets to the file, a browser that was let in gets its answer, a configuration warning is cast,
   and the Stop of the database returns. *)
ServicesGetOn == CallIsAnswered /\ EventsReachTheFile /\ BrowsersAreServed /\ ConfigWarningIsCast /\ StopEnds
=============================================================================
