--------------------------- MODULE MCSessionTurn ---------------------------
(* SessionTurn on small instances. *)
EXTENDS SessionTurn, TLC

SteerSymmetry == Permutations(Steers)
=============================================================================
