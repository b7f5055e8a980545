----------------------- MODULE MCManifestTransaction -----------------------
(* ManifestTransaction on small instances. *)
EXTENDS ManifestTransaction, TLC

Perms == Permutations(Ops) \cup Permutations(Docs)
=============================================================================
