------------------------------- MODULE MCMOOSDB -------------------------------
(***************************************************************************)
(* Small instances of MOOSDB.  Filter 1 is the pattern pair "*", "*";      *)
(* filter 2 is an application pattern that only source c2 matches.         *)
(***************************************************************************)
EXTENDS MOOSDB, TLC

CONSTANTS c1, c2, x, db

MCOneClient == {c1}
MCTwoClients == {c1, c2}
MCSymmetry == Permutations(Clients)
MCOwnVars == Vars \ {x}
MCOwnType == [v \in OwnVars |-> "S"]
MCMadeType == OwnType
MCFilterApp == [f \in FilterIds |-> IF f = 1 THEN Sources \cup {NoSource} ELSE {c2}]
MCFilterVar == [f \in FilterIds |-> IF f = 1 THEN Vars ELSE {x}]
MCNoSummary == <<>>
MCSummary == <<QosVar>>

===============================================================================
