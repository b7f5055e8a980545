--------------------------- MODULE MCJournalStore ---------------------------
(* Instances of JournalStore for TLC. *)
EXTENDS JournalStore, TLC
\* Nothing is promised, and nothing followed, once the journal is hurt.
Unhurt == hurt = {}
Perms == Permutations(Stores) \cup Permutations(Values)
=============================================================================
