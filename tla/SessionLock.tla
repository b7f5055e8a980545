---------------------------- MODULE SessionLock ----------------------------
(***************************************************************************)
(* The lock file that makes one process the writer of a session            *)
(* (src/src/persistence/session-lock.js).  A process prepares its record   *)
(* in a private file and links it to the path of the lock; the link fails  *)
(* when the path is taken.  It then reads the record it finds, asks the    *)
(* system whether that process lives, and if not renames the file away as  *)
(* evidence and tries again.  Every system call is a step.                 *)
(*                                                                         *)
(* A process links at most one file in its life, so the process stands for *)
(* its file: inode and digest (sameFileIdentity) tell processes apart.     *)
(* A process that dies is never taken for another one that has its pid     *)
(* (ProcessIdentity.compare); a probe that cannot tell is left out.        *)
(***************************************************************************)
EXTENDS Naturals

CONSTANTS
    Procs,        \* processes that may ever open the session
    MaxAttempts,  \* the attempts of acquire, three in the code
    None          \* no file at a path

ASSUME AttemptsAssumption == MaxAttempts \in Nat \ {0}
ASSUME NoneAssumption == None \notin Procs

VARIABLES
    lock,     \* the file at the path of the lock
    pc,       \* where acquire or release of each process is
    attempt,  \* the attempts of acquire used up
    seen,     \* the file inspectSessionLock read, None when it was missing
    stale     \* the file #preserveStale renamed away, while it runs

vars == <<lock, pc, attempt, seen, stale>>

Init ==
    /\ lock = None
    /\ pc = [p \in Procs |-> "idle"]
    /\ attempt = [p \in Procs |-> 0]
    /\ seen = [p \in Procs |-> None]
    /\ stale = [p \in Procs |-> None]

Live(p) == pc[p] # "dead"
Goto(p, l) == pc' = [pc EXCEPT ![p] = l]

Acquire(p) ==
    /\ pc[p] = "idle"
    /\ Goto(p, "link")
    /\ UNCHANGED <<lock, attempt, seen, stale>>

\* Mutant: the record is renamed onto the path, whatever is there.
LinkOverwrites(p) ==
    /\ pc[p] = "link"
    /\ lock' = p /\ Goto(p, "publish")
    /\ UNCHANGED <<attempt, seen, stale>>

\* #create: link the prepared file, or EEXIST.
Link(p) ==
    /\ pc[p] = "link"
    /\ \/ lock = None /\ lock' = p /\ Goto(p, "publish")
       \/ lock # None /\ UNCHANGED lock /\ Goto(p, "inspect")
    /\ UNCHANGED <<attempt, seen, stale>>

\* #create: the file at the path must still be the one that was linked.
Publish(p) ==
    /\ pc[p] = "publish"
    /\ Goto(p, IF lock = p THEN "owned" ELSE "failed")
    /\ UNCHANGED <<lock, attempt, seen, stale>>

\* inspectSessionLock reads the file, then asks about its process.
Inspect(p) ==
    /\ pc[p] = "inspect"
    /\ seen' = [seen EXCEPT ![p] = lock]
    /\ Goto(p, "compare")
    /\ UNCHANGED <<lock, attempt, stale>>

\* Mutant: a lock goes stale while its process lives.
StaleByAge(p) == TRUE
\* The status lets acquire move the file away: missing, dead or different.
Stale(p) == seen[p] = None \/ ~Live(seen[p])

Compare(p) ==
    /\ pc[p] = "compare"
    /\ Goto(p, IF Stale(p) THEN "rename" ELSE "failed")
    /\ UNCHANGED <<lock, attempt, seen, stale>>

\* Mutant: acquire gives up after a stale lock.
RetryNever(p) == pc' = [pc EXCEPT ![p] = "failed"] /\ UNCHANGED attempt
\* The loop of acquire goes round.
Retry(p) ==
    /\ attempt' = [attempt EXCEPT ![p] = @ + 1]
    /\ Goto(p, IF attempt[p] + 1 < MaxAttempts THEN "link" ELSE "failed")

\* #preserveStale: rename moves whatever is at the path by now; ENOENT is fine.
Rename(p) ==
    /\ pc[p] = "rename"
    /\ \/ lock = None /\ Retry(p) /\ UNCHANGED <<lock, stale>>
       \/ /\ lock # None
          /\ stale' = [stale EXCEPT ![p] = lock]
          /\ lock' = None
          /\ Goto(p, "verify")
          /\ UNCHANGED attempt
    /\ UNCHANGED seen

\* verifyPreservedLock: the file moved away must be the one inspected.
Verify(p) ==
    /\ pc[p] = "verify"
    /\ \/ /\ stale[p] = seen[p]
          /\ Retry(p)
          /\ stale' = [stale EXCEPT ![p] = None]
       \/ /\ stale[p] # seen[p]
          /\ Goto(p, "restore")
          /\ UNCHANGED <<attempt, stale>>
    /\ UNCHANGED <<lock, seen>>

\* It is another one: link it back, unless the path is taken again, and fail.
Restore(p) ==
    /\ pc[p] = "restore"
    /\ lock' = IF lock = None THEN stale[p] ELSE lock
    /\ Goto(p, "failed")
    /\ UNCHANGED <<attempt, seen, stale>>

\* release reads the token first, and unlinks the path in a later call.
ReleaseRead(p) ==
    /\ pc[p] = "owned"
    /\ Goto(p, IF lock = p THEN "unlink" ELSE "done")
    /\ UNCHANGED <<lock, attempt, seen, stale>>

ReleaseUnlink(p) ==
    /\ pc[p] = "unlink"
    /\ lock' = None
    /\ Goto(p, "done")
    /\ UNCHANGED <<attempt, seen, stale>>

Die(p) ==
    /\ pc[p] \notin {"idle", "dead"}
    /\ Goto(p, "dead")
    /\ UNCHANGED <<lock, attempt, seen, stale>>

Acquiring(p) ==
    Link(p) \/ Publish(p) \/ Inspect(p) \/ Compare(p)
      \/ Rename(p) \/ Verify(p) \/ Restore(p)

Next ==
    \E p \in Procs :
      Acquire(p) \/ Acquiring(p) \/ ReleaseRead(p) \/ ReleaseUnlink(p) \/ Die(p)

Spec == Init /\ [][Next]_vars

\* The system calls of acquire return while the process lives.
FairSpec == Spec /\ \A p \in Procs : WF_vars(Acquiring(p))

----------------------------------------------------------------------------
(* Properties. *)

Labels == {"idle", "link", "publish", "inspect", "compare", "rename", "verify",
           "restore", "owned", "unlink", "done", "failed", "dead"}

\* Files at the paths are those of processes; the attempts of acquire end.
TypeOK ==
    /\ lock \in Procs \cup {None}
    /\ pc \in [Procs -> Labels]
    /\ attempt \in [Procs -> 0 .. MaxAttempts]
    /\ seen \in [Procs -> Procs \cup {None}]
    /\ stale \in [Procs -> Procs \cup {None}]

\* A live writer keeps every other process from becoming a writer.
OneLiveWriter ==
    \A p, q \in Procs : pc[p] = "owned" /\ pc[q] = "owned" => p = q

\* #preserveStale of some process has renamed away another file than the one
\* it inspected: the case verifyPreservedLock exists for.  It cannot be undone,
\* for the path may have been taken before the file is linked back.
Moved == \E r \in Procs : stale[r] # None /\ stale[r] # seen[r]

\* The lock excludes a second writer, and a writer's lock stays at the path
\* until its release, whatever the other processes do and wherever they die,
\* short of that case: inspection and rename never take a live lock for stale.
ExclusiveUnlessMoved ==
    Moved \/ /\ OneLiveWriter
             /\ \A p \in Procs : pc[p] = "owned" => lock = p

\* release reads the token in one call and unlinks in another, and still never
\* removes the lock of another process, short of the same case.
ReleaseRemovesOwn ==
    [][\A p \in Procs : ReleaseUnlink(p) /\ ~Moved => lock = p]_vars

\* No other process is at work on the lock, and the file there is nobody's.
Alone(p) ==
    /\ \A q \in Procs \ {p} : pc[q] \in {"idle", "dead", "done", "failed"}
    /\ lock \notin {q \in Procs : Live(q)}

\* A dead writer does not lock its session for ever: a process that acquires
\* alone becomes the writer.
SoleContenderAcquires ==
    \A p \in Procs : (pc[p] = "link" /\ attempt[p] = 0 /\ Alone(p))
                       ~> (pc[p] \in {"owned", "dead"} \/ ~Alone(p))
=============================================================================
