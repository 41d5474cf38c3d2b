--------------------------- MODULE MCLeaderElection ---------------------------
(***************************************************************************)
(* Two controllers, the clock of one of them ahead of the other's.         *)
(***************************************************************************)
EXTENDS LeaderElection

CONSTANTS c1, c2

Pair == {c1, c2}
FirstAhead == [c \in Pair |-> IF c = c1 THEN Skew ELSE 0]
=============================================================================
