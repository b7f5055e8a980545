--------------------------- MODULE MCSessionLock ---------------------------
(* SessionLock on small instances. *)
EXTENDS SessionLock, TLC

ProcSymmetry == Permutations(Procs)
=============================================================================
