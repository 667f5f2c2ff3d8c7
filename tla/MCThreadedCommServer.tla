------------------------- MODULE MCThreadedCommServer -------------------------
(***************************************************************************)
(* Small instances of ThreadedCommServer.  Connections 1 and 2 are of the  *)
(* same client, which comes back under its name; connection 3 is another.  *)
(* Descriptors are interchangeable.                                        *)
(***************************************************************************)
EXTENDS ThreadedCommServer, TLC

CONSTANTS a, b

MCClientName == [c \in Conns |-> IF c = 3 THEN b ELSE a]
MCOnePkt == [c \in Conns |-> 1]
MCQuietBystander == [c \in Conns |-> IF c = 3 THEN 0 ELSE 1]
MCNoPkt == [c \in Conns |-> 0]
MCSymmetry == Permutations(Fds)

===============================================================================
