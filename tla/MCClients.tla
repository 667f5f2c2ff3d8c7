----------------------------- MODULE MCClients -----------------------------
(***************************************************************************)
(* Small instances of four parts of a client: the connection to the        *)
(* database, the active queues, the synchronous client and the list that   *)
(* the threads share.  The parts do not share state here; each behaviour   *)
(* is one of one part, chosen at the start, while the others rest.         *)
(***************************************************************************)
EXTENDS Wire, ActiveQueues, SyncClient, SafeList

VARIABLE part

clientVars == <<part, wireVars, aqVars, scVars, slVars>>

MCMessage == [StringMsg("N", <<"x">>, <<"v">>, -1, 7) EXCEPT !.m_sSrcAux = <<"z">>]
MCPackets == {<<EmptyMsg>>, <<MCMessage>>, <<>>}

Init == /\ part \in {"wire", "queues", "sync", "list"}
        /\ WireInit /\ AQInit /\ SCInit /\ SLInit

Next == /\ UNCHANGED part
        /\ \/ part = "wire" /\ WireNext /\ UNCHANGED <<aqVars, scVars, slVars>>
           \/ part = "queues" /\ AQNext /\ UNCHANGED <<wireVars, scVars, slVars>>
           \/ part = "sync" /\ SCNext /\ UNCHANGED <<wireVars, aqVars, slVars>>
           \/ part = "list" /\ SLNext /\ UNCHANGED <<wireVars, aqVars, scVars>>

\* What WireSpec, AQSpec, SCSpec and SLSpec say of fairness, of the part that was chosen.
WireFairness ==
    /\ WF_wireVars(part = "wire" /\ SendRest) /\ WF_wireVars(part = "wire" /\ RecvClosed)
    /\ WF_wire(part = "wire" /\ \E n \in 1..ChunkRead : Drain(n))
AQFairness ==
    /\ WF_aqVars(part = "queues" /\ Remover)
    /\ \A q \in QNames : WF_aqVars(part = "queues" /\ QueueThread(q))
SCFairness ==
    /\ WF_scVars(part = "sync" /\ ClientLoop) /\ WF_scVars(part = "sync" /\ UserThread)
    /\ WF_scVars(part = "sync" /\ Server)
SLFairness ==
    /\ WF_slVars(part = "list" /\ Consumer)
    /\ \A p \in Pushers : WF_slVars(part = "list" /\ SetEvent(p))

Spec == Init /\ [][Next]_clientVars /\ WireFairness /\ AQFairness /\ SCFairness /\ SLFairness

(* Nothing in a client waits for ever: what was sent is read, a queue's mail is handled and its
   removal ends, Close returns, and what is pushed to a list is taken. *)
ClientsGetOn == SentIsRead /\ RemovalEnds /\ PushedIsHandled /\ CloseEnds /\ PushedIsTaken
=============================================================================
