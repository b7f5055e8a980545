-------------------------- MODULE MCFairScheduler --------------------------
(* FairScheduler on a small instance: two requests of session a, which share *)
(* one abort signal, and one of session b.                                   *)
EXTENDS FairScheduler, TLC

CONSTANTS r1, r2, r3, a, b, s1, s2

MCOwnerOf == r1 :> a @@ r2 :> a @@ r3 :> b
MCSignalOf == r1 :> s1 @@ r2 :> s1 @@ r3 :> s2
=============================================================================
