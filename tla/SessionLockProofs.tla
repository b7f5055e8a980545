-------------------------- MODULE SessionLockProofs -------------------------
(***************************************************************************)
(* Proofs about SessionLock, for every set of processes and every number   *)
(* of attempts.                                                            *)
(***************************************************************************)
EXTENDS SessionLock, TLAPS

\* #preserveStale runs only on a path that was empty or held the lock of a
\* process that is dead, and dead processes stay dead.
SeenIsStale ==
    \A p \in Procs : pc[p] \in {"rename", "verify", "restore"} =>
                       seen[p] = None \/ pc[seen[p]] = "dead"

\* A file is held away from the path only between the rename and the end of
\* its verification, or for good after a failed one.
StaleIsLocal ==
    \A p \in Procs : stale[p] # None =>
                       pc[p] \in {"verify", "restore", "failed", "dead"}

\* A process between its link and its unlink has its lock at the path.
HolderIsAtPath ==
    \A p \in Procs : pc[p] \in {"publish", "owned", "unlink"} => lock = p

\* Inside the loop of acquire an attempt is left, which bounds the counter.
AttemptLeft ==
    \A p \in Procs : pc[p] \in {"idle", "link", "publish", "inspect", "compare",
                                "rename", "verify", "restore"}
                       => attempt[p] < MaxAttempts

Inv == /\ TypeOK /\ AttemptLeft /\ SeenIsStale /\ StaleIsLocal
       /\ Moved \/ HolderIsAtPath

USE AttemptsAssumption, NoneAssumption

----------------------------------------------------------------------------
\* Nothing is linked or moved before the first process opens the session.
LEMMA InitInv == Init => Inv
BY DEF Init, Inv, TypeOK, AttemptLeft, SeenIsStale, StaleIsLocal,
       HolderIsAtPath, Labels

\* Every step keeps the types, and acquire ends with its attempts.
LEMMA NextTypeOK == TypeOK /\ AttemptLeft /\ [Next]_vars => TypeOK' /\ AttemptLeft'
<1> SUFFICES ASSUME TypeOK, AttemptLeft, [Next]_vars PROVE TypeOK' /\ AttemptLeft'
    OBVIOUS
<1> USE DEF TypeOK, AttemptLeft, Labels
<1>1. ASSUME NEW p \in Procs, Acquire(p) PROVE TypeOK' /\ AttemptLeft'
    BY <1>1 DEF Acquire, Goto
<1>2. ASSUME NEW p \in Procs, Link(p) PROVE TypeOK' /\ AttemptLeft'
    BY <1>2 DEF Link, Goto
<1>3. ASSUME NEW p \in Procs, Publish(p) PROVE TypeOK' /\ AttemptLeft'
    BY <1>3 DEF Publish, Goto
<1>4. ASSUME NEW p \in Procs, Inspect(p) PROVE TypeOK' /\ AttemptLeft'
    BY <1>4 DEF Inspect, Goto
<1>5. ASSUME NEW p \in Procs, Compare(p) PROVE TypeOK' /\ AttemptLeft'
    BY <1>5 DEF Compare, Goto
<1>6. ASSUME NEW p \in Procs, Rename(p) PROVE TypeOK' /\ AttemptLeft'
    BY <1>6 DEF Rename, Goto, Retry
<1>7. ASSUME NEW p \in Procs, Verify(p) PROVE TypeOK' /\ AttemptLeft'
    BY <1>7 DEF Verify, Goto, Retry
<1>8. ASSUME NEW p \in Procs, Restore(p) PROVE TypeOK' /\ AttemptLeft'
    BY <1>8 DEF Restore, Goto
<1>9. ASSUME NEW p \in Procs, ReleaseRead(p) PROVE TypeOK' /\ AttemptLeft'
    BY <1>9 DEF ReleaseRead, Goto
<1>10. ASSUME NEW p \in Procs, ReleaseUnlink(p) PROVE TypeOK' /\ AttemptLeft'
    BY <1>10 DEF ReleaseUnlink, Goto
<1>11. ASSUME NEW p \in Procs, Die(p) PROVE TypeOK' /\ AttemptLeft'
    BY <1>11 DEF Die, Goto
<1>12. CASE UNCHANGED vars
    BY <1>12 DEF vars
<1> QED
    BY <1>1, <1>2, <1>3, <1>4, <1>5, <1>6, <1>7, <1>8, <1>9, <1>10, <1>11,
       <1>12 DEF Next, Acquiring

\* The judgement that a lock is stale outlives every step: nobody comes back
\* from the dead.
LEMMA NextSeen == TypeOK /\ SeenIsStale /\ [Next]_vars => SeenIsStale'
<1> SUFFICES ASSUME TypeOK, SeenIsStale, [Next]_vars PROVE SeenIsStale'
    OBVIOUS
<1> USE DEF TypeOK, SeenIsStale
<1>1. ASSUME NEW p \in Procs, Acquire(p) PROVE SeenIsStale'
    BY <1>1 DEF Acquire, Goto
<1>2. ASSUME NEW p \in Procs, Link(p) PROVE SeenIsStale'
    BY <1>2 DEF Link, Goto
<1>3. ASSUME NEW p \in Procs, Publish(p) PROVE SeenIsStale'
    BY <1>3 DEF Publish, Goto
<1>4. ASSUME NEW p \in Procs, Inspect(p) PROVE SeenIsStale'
    BY <1>4 DEF Inspect, Goto
<1>5. ASSUME NEW p \in Procs, Compare(p) PROVE SeenIsStale'
    BY <1>5 DEF Compare, Goto, Stale, Live
<1>6. ASSUME NEW p \in Procs, Rename(p) PROVE SeenIsStale'
    BY <1>6 DEF Rename, Goto, Retry
<1>7. ASSUME NEW p \in Procs, Verify(p) PROVE SeenIsStale'
    BY <1>7 DEF Verify, Goto, Retry
<1>8. ASSUME NEW p \in Procs, Restore(p) PROVE SeenIsStale'
    BY <1>8 DEF Restore, Goto
<1>9. ASSUME NEW p \in Procs, ReleaseRead(p) PROVE SeenIsStale'
    BY <1>9 DEF ReleaseRead, Goto
<1>10. ASSUME NEW p \in Procs, ReleaseUnlink(p) PROVE SeenIsStale'
    BY <1>10 DEF ReleaseUnlink, Goto
<1>11. ASSUME NEW p \in Procs, Die(p) PROVE SeenIsStale'
    BY <1>11 DEF Die, Goto
<1>12. CASE UNCHANGED vars
    BY <1>12 DEF vars
<1> QED
    BY <1>1, <1>2, <1>3, <1>4, <1>5, <1>6, <1>7, <1>8, <1>9, <1>10, <1>11,
       <1>12 DEF Next, Acquiring

\* A file that verification refused stays with the process that moved it.
LEMMA NextStale == TypeOK /\ StaleIsLocal /\ [Next]_vars => StaleIsLocal'
<1> SUFFICES ASSUME TypeOK, StaleIsLocal, [Next]_vars PROVE StaleIsLocal'
    OBVIOUS
<1> USE DEF TypeOK, StaleIsLocal
<1>1. ASSUME NEW p \in Procs, Acquire(p) PROVE StaleIsLocal'
    BY <1>1 DEF Acquire, Goto
<1>2. ASSUME NEW p \in Procs, Link(p) PROVE StaleIsLocal'
    BY <1>2 DEF Link, Goto
<1>3. ASSUME NEW p \in Procs, Publish(p) PROVE StaleIsLocal'
    BY <1>3 DEF Publish, Goto
<1>4. ASSUME NEW p \in Procs, Inspect(p) PROVE StaleIsLocal'
    BY <1>4 DEF Inspect, Goto
<1>5. ASSUME NEW p \in Procs, Compare(p) PROVE StaleIsLocal'
    BY <1>5 DEF Compare, Goto
<1>6. ASSUME NEW p \in Procs, Rename(p) PROVE StaleIsLocal'
    BY <1>6 DEF Rename, Goto, Retry
<1>7. ASSUME NEW p \in Procs, Verify(p) PROVE StaleIsLocal'
    BY <1>7 DEF Verify, Goto, Retry
<1>8. ASSUME NEW p \in Procs, Restore(p) PROVE StaleIsLocal'
    BY <1>8 DEF Restore, Goto
<1>9. ASSUME NEW p \in Procs, ReleaseRead(p) PROVE StaleIsLocal'
    BY <1>9 DEF ReleaseRead, Goto
<1>10. ASSUME NEW p \in Procs, ReleaseUnlink(p) PROVE StaleIsLocal'
    BY <1>10 DEF ReleaseUnlink, Goto
<1>11. ASSUME NEW p \in Procs, Die(p) PROVE StaleIsLocal'
    BY <1>11 DEF Die, Goto
<1>12. CASE UNCHANGED vars
    BY <1>12 DEF vars
<1> QED
    BY <1>1, <1>2, <1>3, <1>4, <1>5, <1>6, <1>7, <1>8, <1>9, <1>10, <1>11,
       <1>12 DEF Next, Acquiring

\* Once a wrong file was moved away, that fact stays.
LEMMA MovedForGood == TypeOK /\ StaleIsLocal /\ Moved /\ [Next]_vars => Moved'
<1> SUFFICES ASSUME TypeOK, StaleIsLocal, Moved, [Next]_vars PROVE Moved'
    OBVIOUS
<1> USE DEF TypeOK, StaleIsLocal, Moved
<1>1. ASSUME NEW p \in Procs, Acquire(p) PROVE Moved'
    BY <1>1 DEF Acquire, Goto
<1>2. ASSUME NEW p \in Procs, Link(p) PROVE Moved'
    BY <1>2 DEF Link, Goto
<1>3. ASSUME NEW p \in Procs, Publish(p) PROVE Moved'
    BY <1>3 DEF Publish, Goto
<1>4. ASSUME NEW p \in Procs, Inspect(p) PROVE Moved'
    BY <1>4 DEF Inspect, Goto
<1>5. ASSUME NEW p \in Procs, Compare(p) PROVE Moved'
    BY <1>5 DEF Compare, Goto
<1>6. ASSUME NEW p \in Procs, Rename(p) PROVE Moved'
    BY <1>6 DEF Rename, Goto, Retry
<1>7. ASSUME NEW p \in Procs, Verify(p) PROVE Moved'
    BY <1>7 DEF Verify, Goto, Retry
<1>8. ASSUME NEW p \in Procs, Restore(p) PROVE Moved'
    BY <1>8 DEF Restore, Goto
<1>9. ASSUME NEW p \in Procs, ReleaseRead(p) PROVE Moved'
    BY <1>9 DEF ReleaseRead, Goto
<1>10. ASSUME NEW p \in Procs, ReleaseUnlink(p) PROVE Moved'
    BY <1>10 DEF ReleaseUnlink, Goto
<1>11. ASSUME NEW p \in Procs, Die(p) PROVE Moved'
    BY <1>11 DEF Die, Goto
<1>12. CASE UNCHANGED vars
    BY <1>12 DEF vars
<1> QED
    BY <1>1, <1>2, <1>3, <1>4, <1>5, <1>6, <1>7, <1>8, <1>9, <1>10, <1>11,
       <1>12 DEF Next, Acquiring

\* Until then a holder's lock stays at the path: what a rename takes away is
\* the lock of a dead process, and an unlink finds the releaser's own.
LEMMA NextHolder == TypeOK /\ SeenIsStale /\ HolderIsAtPath /\ [Next]_vars => (Moved' \/ HolderIsAtPath')
<1> SUFFICES ASSUME TypeOK, SeenIsStale, HolderIsAtPath, [Next]_vars PROVE (Moved' \/ HolderIsAtPath')
    OBVIOUS
<1> USE DEF TypeOK, SeenIsStale, HolderIsAtPath, Moved
<1>1. ASSUME NEW p \in Procs, Acquire(p) PROVE (Moved' \/ HolderIsAtPath')
    BY <1>1 DEF Acquire, Goto
<1>2. ASSUME NEW p \in Procs, Link(p) PROVE (Moved' \/ HolderIsAtPath')
    BY <1>2 DEF Link, Goto
<1>3. ASSUME NEW p \in Procs, Publish(p) PROVE (Moved' \/ HolderIsAtPath')
    BY <1>3 DEF Publish, Goto
<1>4. ASSUME NEW p \in Procs, Inspect(p) PROVE (Moved' \/ HolderIsAtPath')
    BY <1>4 DEF Inspect, Goto
<1>5. ASSUME NEW p \in Procs, Compare(p) PROVE (Moved' \/ HolderIsAtPath')
    BY <1>5 DEF Compare, Goto
<1>6. ASSUME NEW p \in Procs, Rename(p) PROVE (Moved' \/ HolderIsAtPath')
    BY <1>6 DEF Rename, Goto, Retry
<1>7. ASSUME NEW p \in Procs, Verify(p) PROVE (Moved' \/ HolderIsAtPath')
    BY <1>7 DEF Verify, Goto, Retry
<1>8. ASSUME NEW p \in Procs, Restore(p) PROVE (Moved' \/ HolderIsAtPath')
    BY <1>8 DEF Restore, Goto
<1>9. ASSUME NEW p \in Procs, ReleaseRead(p) PROVE (Moved' \/ HolderIsAtPath')
    BY <1>9 DEF ReleaseRead, Goto
<1>10. ASSUME NEW p \in Procs, ReleaseUnlink(p) PROVE (Moved' \/ HolderIsAtPath')
    BY <1>10 DEF ReleaseUnlink, Goto
<1>11. ASSUME NEW p \in Procs, Die(p) PROVE (Moved' \/ HolderIsAtPath')
    BY <1>11 DEF Die, Goto
<1>12. CASE UNCHANGED vars
    BY <1>12 DEF vars
<1> QED
    BY <1>1, <1>2, <1>3, <1>4, <1>5, <1>6, <1>7, <1>8, <1>9, <1>10, <1>11,
       <1>12 DEF Next, Acquiring

LEMMA NextInv == Inv /\ [Next]_vars => Inv'
BY NextTypeOK, NextSeen, NextStale, MovedForGood, NextHolder DEF Inv

\* The invariant holds in every reachable state.
LEMMA Invariance == Spec => []Inv
BY InitInv, NextInv, PTL DEF Spec

----------------------------------------------------------------------------
\* The variables of session-lock.js keep their types, and acquire makes no
\* more attempts than its loop allows.
THEOREM LockTypeCorrect == Spec => []TypeOK
<1>1. Inv => TypeOK
    BY DEF Inv
<1> QED
    BY Invariance, <1>1, PTL

\* For any number of processes, dying anywhere: there is one writer, its lock
\* at the path, unless #preserveStale moved a file it had not inspected.
THEOREM LockIsExclusive == Spec => []ExclusiveUnlessMoved
<1>1. Inv => ExclusiveUnlessMoved
    BY DEF Inv, HolderIsAtPath, ExclusiveUnlessMoved, OneLiveWriter
<1> QED
    BY Invariance, <1>1, PTL

\* release, which checks the token and unlinks in two system calls, removes its
\* own lock, short of the same case.
THEOREM ReleaseTakesOwnLock == Spec => ReleaseRemovesOwn
<1>1. Inv => [\A p \in Procs : ReleaseUnlink(p) /\ ~Moved => lock = p]_vars
    BY DEF Inv, HolderIsAtPath, ReleaseUnlink
<1> QED
    BY Invariance, <1>1, PTL DEF ReleaseRemovesOwn
=============================================================================
