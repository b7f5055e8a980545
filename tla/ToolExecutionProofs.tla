------------------------ MODULE ToolExecutionProofs ------------------------
(***************************************************************************)
(* Proofs about ToolExecution, for every number of calls in a batch and    *)
(* every number of crashes.                                                *)
(*                                                                         *)
(* The invariant is one statement Fits(r) of every call, in ten parts: how *)
(* the phase of the batch, the place of the call in the loop, the reviewer,*)
(* the ledger in memory and in its journal, the journal of the session,    *)
(* the executor and governance fit each other.  A step of one call leaves  *)
(* the parts of the others alone (OthersApart), so each action is looked   *)
(* at for its own call only.                                               *)
(***************************************************************************)
EXTENDS ToolExecution, TLAPS

Opening == {"sealed", "ready", "result", "stopped", "lost"} \cup InReview \cup InExecution
Settling == {"commit", "account", "govern", "pending", "finished"}
Forgotten(r) ==
    /\ item[r].pc = "finished" /\ item[r].decision = "none" /\ item[r].result = "no"
    /\ ~item[r].started /\ ~item[r].failed /\ reviewer[r] = "off"
    /\ ledger[r] = disk[r]

\* What a call is waiting for fits the phase of its batch; a process that is gone
\* has forgotten its calls.
PhaseFits(r) ==
    /\ turn = "open" => item[r].pc \in Opening
    /\ turn = "settle" => item[r].pc \in Settling
    /\ turn = "over" => item[r].pc = "finished"
    /\ turn \in {"interrupted", "stopped"} => Forgotten(r)

\* How far a call has come says what the loop knows of it.
ItemFits(r) ==
    LET i == item[r]
    IN  /\ i.pc \in {"sealed", "review", "policy", "reconcile", "check", "operator", "stopped"}
             => i.result = "no" /\ ~i.started
        /\ i.pc \in {"sealed", "review", "policy", "reconcile", "check", "operator"}
             => i.decision = "none"
        /\ i.pc \in {"operatorCommit", "operatorAuthorize", "decided", "ready", "lost"} \cup InExecution
             => i.decision # "none" /\ i.result = "no" /\ ~i.started
        /\ i.pc \in {"ready", "lost"} \cup InExecution => i.decision = "approve"
        /\ i.pc = "result" => i.result # "no"
        /\ i.pc = "account" => i.started
        /\ i.started => i.result # "no"
        /\ i.failed => /\ i.pc \in {"reconcile", "check", "decided", "result", "stopped",
                                    "commit", "finished"}
                       /\ i.decision # "approve" /\ ~i.started
        /\ i.pc \in {"reconcile", "check"} => i.failed

\* The reviewer is at work only behind a review or after one was given up, and it
\* has put its proposal on record first.
ReviewerFits(r) ==
    /\ ~item[r].failed /\ item[r].pc # "review" => reviewer[r] \in {"off", "done"}
    /\ item[r].failed => reviewer[r] \notin {"off", "propose"}
    /\ "ledger" \in up /\ reviewer[r] \notin {"off", "propose"} => ledger[r].proposed

Unstarted == {"sealed", "review", "policy", "reconcile", "operator", "operatorCommit",
              "operatorAuthorize", "ready", "begin"}
Approved(r) ==
    \/ item[r].pc \in {"policy", "ready", "begin"}
    \/ item[r].pc = "decided" /\ item[r].decision = "approve"
    \/ item[r].pc = "operatorAuthorize" /\ item[r].decision = "approve"
Started(r) ==
    \/ item[r].pc \in {"publish", "run", "wait", "lost"}
    \/ item[r].started /\ item[r].pc \in {"result", "commit", "account"}

\* The ledger in memory is its journal until that fails, and both follow the call.
EntryFits(r, decision, run) ==
    /\ run # "no" => decision = "approve"
    /\ item[r].pc \in Unstarted \/ Approved(r) => run = "no"
    /\ Started(r) => run = "running"
LedgerFits(r) ==
    /\ "ledger" \in up => ledger[r] = disk[r]
    /\ EntryFits(r, ledger[r].decision, ledger[r].exec)
    /\ EntryFits(r, disk[r].decision, disk[r].exec)
    /\ Approved(r) => ledger[r].decision = "approve"

\* What is started or awaits its settlement is in the journal of the session.
JournalFits(r) ==
    /\ r \in journal.started => disk[r].exec # "no"
    /\ item[r].pc \in {"run", "wait", "lost"} \/ exec[r] # "idle" => r \in journal.started
    /\ turn = "open" \/ item[r].pc = "commit" => journal.result[r] = "no"
    /\ item[r].pc \in {"account", "govern", "pending"} =>
         journal.result[r] = item[r].result /\ item[r].result # "no"
    /\ r \in pending \cup journal.pending => journal.result[r] # "no"
    /\ item[r].failed => r \notin pending

\* An executor that was called belongs to a call that waits for it or is started.
ExecutorFits(r) ==
    exec[r] # "idle" => /\ item[r].pc \in Opening => item[r].pc \in {"wait", "result"}
                        /\ item[r].pc \in {"result", "commit"} => item[r].started

\* A terminal in the ledger is that of the transcript; one without an execution
\* is ahead of it only where nothing was started.
EndFits(r, run) ==
    /\ run \in {"completed", "unknown"} => journal.result[r] = run
    /\ run \in {"none", "undelivered"} =>
         /\ journal.result[r] = "none" \/ (journal.result[r] = "no" /\ r \notin journal.started)
         /\ item[r].pc \in Opening \cup {"commit"} =>
              item[r].decision # "approve" /\ item[r].result \in {"no", "none"}
TerminalFits(r) == EndFits(r, ledger[r].exec) /\ EndFits(r, disk[r].exec)

\* A change outside has happened or may still.
Effective(r) == r \in touched \/ (exec[r] = "running" /\ r \notin readOnly)
EffectFits(r) ==
    /\ Effective(r) => item[r].result # "none" /\ journal.result[r] # "none"
    /\ r \in touched => exec[r] # "idle" /\ r \notin readOnly

\* After a review was given up, the ledger is settled when the governor has
\* reconciled it, and whoever comes last closes an open approval in governance.
ClosureFits(r) ==
    /\ item[r].failed /\ "ledger" \in up =>
         /\ ledger[r].exec \in {"no", "undelivered"}
         /\ item[r].pc # "reconcile" => SettledOutcome(ledger[r])
    /\ item[r].pc = "sealed" => gov[r] = "none"
    /\ gov[r] = "open" /\ (item[r].failed \/ item[r].pc = "review") => ledger[r].decision = "approve"
    /\ item[r].failed /\ {"ledger", "gov"} \subseteq up /\ gov[r] = "open"
         => item[r].pc \in {"reconcile", "check"} \/ reviewer[r] \in {"check", "recheck"}

\* An approved call that is being settled has its result, in the transcript once
\* it is past its commit.
PairingFits(r) ==
    item[r].decision = "approve" =>
      /\ item[r].pc = "commit" => item[r].result # "no"
      /\ item[r].pc \in Settling \ {"commit"} /\ "session" \in up => journal.result[r] # "no"

Fits(r) ==
    /\ PhaseFits(r) /\ ItemFits(r) /\ ReviewerFits(r) /\ LedgerFits(r)
    /\ JournalFits(r) /\ ExecutorFits(r) /\ TerminalFits(r) /\ EffectFits(r)
    /\ ClosureFits(r) /\ PairingFits(r)

Inv == TypeOK /\ \A r \in Requests : Fits(r)

USE CountAssumption, CrashAssumption

----------------------------------------------------------------------------
(* A step of one call leaves the others alone. *)

Apart(q) ==
    /\ UNCHANGED <<turn, readOnly>> /\ up' \subseteq up
    /\ item'[q] = item[q] /\ reviewer'[q] = reviewer[q]
    /\ ledger'[q] = ledger[q] /\ disk'[q] = disk[q] /\ gov'[q] = gov[q]
    /\ exec'[q] = exec[q] /\ (q \in touched' <=> q \in touched)
    /\ journal'.result[q] = journal.result[q]
    /\ q \in journal'.started <=> q \in journal.started
    /\ q \in pending' => q \in pending
    /\ q \in journal'.pending => q \in journal.pending

\* The action of one call, whichever it is.
Act(r) ==
    \/ Propose(r) \/ Commit(r) \/ Authorize(r) \/ Check(r)
    \/ ReviewStart(r) \/ ReviewGivenUp(r) \/ Deliver(r) \/ PolicyDenial(r)
    \/ Reconcile(r) \/ ReconcileCheck(r)
    \/ Operator(r) \/ OperatorCommit(r) \/ OperatorAuthorize(r) \/ Reviewed(r)
    \/ Begin(r) \/ Start(r) \/ Publish(r) \/ Call(r)
    \/ Touch(r) \/ Return(r) \/ GiveUp(r)
    \/ CommitResult(r) \/ Account(r) \/ AccountGovernance(r) \/ Postpone(r)
    \/ ReconcilePending(r)

\* Whatever a call does, what is known of another one stays.
LEMMA OthersApart ==
    ASSUME TypeOK, NEW r \in Requests, NEW q \in Requests, q # r, Act(r)
    PROVE  Apart(q)
<1> USE DEF TypeOK, Apart
<1>1. CASE Propose(r)
    BY <1>1 DEF Propose, Record, Review, RecordThrows, outside
<1>2. CASE Commit(r)
    BY <1>2 DEF Commit, Review, Record, RecordThrows, outside
<1>3. CASE Authorize(r)
    BY <1>3 DEF Authorize, Govern, Review, GovernThrows, outside
<1>4. CASE Check(r)
    BY <1>4 DEF Check, SettleUndelivered, Govern, Review, GovernThrows, outside
<1>5. CASE ReviewStart(r)
    BY <1>5 DEF ReviewStart, Goto, Review, outside
<1>6. CASE ReviewGivenUp(r)
    BY <1>6 DEF ReviewGivenUp, outside
<1>7. CASE Deliver(r)
    BY <1>7 DEF Deliver, outside
<1>8. CASE PolicyDenial(r)
    BY <1>8 DEF PolicyDenial, Record, Deny, RecordThrows, SecondThrows, Throw, Goto, outside
<1>9. CASE Reconcile(r)
    BY <1>9 DEF Reconcile, Goto, Record, RecordThrows, Throw, SecondThrows, outside
<1>10. CASE ReconcileCheck(r)
    BY <1>10 DEF ReconcileCheck, SettleUndelivered, Govern, Deny, GovernThrows, Throw, Goto, outside
<1>11. CASE Operator(r)
    BY <1>11 DEF Operator, Throw, Goto, outside
<1>12. CASE OperatorCommit(r)
    BY <1>12 DEF OperatorCommit, Record, Goto, RecordThrows, outside
<1>13. CASE OperatorAuthorize(r)
    BY <1>13 DEF OperatorAuthorize, Govern, Goto, GovernThrows, outside
<1>14. CASE Reviewed(r)
    BY <1>14 DEF Reviewed, Persist, PersistThrows
<1>15. CASE Begin(r)
    BY <1>15 DEF Begin, Goto, Result, unreviewed
<1>16. CASE Start(r)
    BY <1>16 DEF Start, Record, Goto, RecordThrows, Result, unreviewed
<1>17. CASE Publish(r)
    BY <1>17 DEF Publish, Persist, Goto, PersistThrows, Throw, unreviewed, Journals
<1>18. CASE Call(r)
    BY <1>18 DEF Call, Goto, Result, unreviewed
<1>19. CASE Touch(r)
    BY <1>19 DEF Touch, unreviewed
<1>20. CASE Return(r)
    BY <1>20 DEF Return, Result, unreviewed
<1>21. CASE GiveUp(r)
    BY <1>21 DEF GiveUp, Result, unreviewed
<1>22. CASE CommitResult(r)
    BY <1>22 DEF CommitResult, Committing, Goto, Persist, PersistThrows, uncommitted, Journals
<1>23. CASE Account(r)
    BY <1>23 DEF Account, Committing, Goto, Record, RecordThrows, uncommitted
<1>24. CASE AccountGovernance(r)
    BY <1>24 DEF AccountGovernance, Committing, Govern, Goto, GovernThrows, uncommitted
<1>25. CASE Postpone(r)
    BY <1>25 DEF Postpone, Committing, Persist, PersistThrows, Goto, uncommitted, Journals
<1>26. CASE ReconcilePending(r)
    BY <1>26 DEF ReconcilePending, RecordThrows, GovernThrows, PersistThrows, Persist,
       uncommitted, Journals
<1> QED
    BY <1>1, <1>2, <1>3, <1>4, <1>5, <1>6, <1>7, <1>8, <1>9, <1>10, <1>11, <1>12, <1>13,
       <1>14, <1>15, <1>16, <1>17, <1>18, <1>19, <1>20, <1>21, <1>22, <1>23, <1>24, <1>25,
       <1>26 DEF Act

\* So the invariant of another call stays.
LEMMA ApartFits ==
    ASSUME TypeOK, NEW q \in Requests, Apart(q), Fits(q)
    PROVE  Fits(q)'
<1> USE DEF Apart, Fits
<1>1. PhaseFits(q)' BY DEF PhaseFits, Forgotten
<1>2. ItemFits(q)' BY DEF ItemFits
<1>3. ReviewerFits(q)' BY DEF ReviewerFits
<1>4. LedgerFits(q)' BY DEF LedgerFits, EntryFits, Approved, Started
<1>5. JournalFits(q)' BY DEF JournalFits
<1>6. ExecutorFits(q)' BY DEF ExecutorFits
<1>7. TerminalFits(q)' BY DEF TerminalFits, EndFits
<1>8. EffectFits(q)' BY DEF EffectFits, Effective
<1>9. ClosureFits(q)' BY DEF ClosureFits, SettledOutcome
<1>10. PairingFits(q)' BY DEF PairingFits
<1> QED BY <1>1, <1>2, <1>3, <1>4, <1>5, <1>6, <1>7, <1>8, <1>9, <1>10

----------------------------------------------------------------------------
(* What the steps do to a call, field by field. *)

\* An entry is what these say.
Is(e, p, d, x) == e.proposed = p /\ e.decision = d /\ e.exec = x
\* An entry is written, or the write fails.
Writes(r, p, d, x) ==
    /\ "ledger" \in up /\ up' = up
    /\ Is(ledger'[r], p, d, x) /\ disk'[r] = ledger'[r]
Misses(r, p, d, x) ==
    /\ up' = up \ {"ledger"} /\ ledger' = ledger
    /\ disk'[r] = disk[r] \/ ("ledger" \in up /\ Is(disk'[r], p, d, x))
\* Of two records the second is lost.
Halves(r, p, d, x) ==
    /\ up' = up \ {"ledger"} /\ Is(ledger'[r], p, d, "running")
    /\ disk'[r] = ledger'[r] \/ Is(disk'[r], p, d, x)
\* What a call is afterwards.
Becomes(r, pc, d, x, s) ==
    /\ item'[r].pc = pc /\ item'[r].decision = d /\ item'[r].result = x
    /\ item'[r].started = s /\ item'[r].failed = item[r].failed

\* A record that is written is in memory and on the disk.
LEMMA RecordWrites ==
    ASSUME TypeOK, NEW r \in Requests, NEW e, Record(r, e)
    PROVE  Writes(r, e.proposed, e.decision, e.exec)
BY DEF TypeOK, Record, Writes, Is

\* A record that fails leaves memory alone and may be on the disk.
LEMMA RecordMisses ==
    ASSUME TypeOK, NEW r \in Requests, NEW e, RecordThrows(r, e)
    PROVE  Misses(r, e.proposed, e.decision, e.exec)
BY DEF TypeOK, RecordThrows, Misses, Is

\* When the second of two records fails the first is in memory.
LEMMA SecondHalves ==
    ASSUME TypeOK, NEW r \in Requests, NEW e, SecondThrows(r, e),
           e.proposed = ledger[r].proposed, e.decision = ledger[r].decision
    PROVE  Halves(r, e.proposed, e.decision, e.exec)
<1>1. ledger'[r].exec = "running" /\ ledger'[r].proposed = ledger[r].proposed
      /\ ledger'[r].decision = ledger[r].decision
    BY DEF TypeOK, Entries, SecondThrows
<1>2. disk'[r] = ledger'[r] \/ disk'[r] = e
    BY DEF TypeOK, SecondThrows
<1>3. up' = up \ {"ledger"}
    BY DEF SecondThrows
<1> QED BY <1>1, <1>2, <1>3 DEF Halves, Is

\* Moving on changes nothing but the place.
LEMMA GotoBecomes ==
    ASSUME TypeOK, NEW r \in Requests, NEW pc, Goto(r, pc)
    PROVE  Becomes(r, pc, item[r].decision, item[r].result, item[r].started)
BY DEF TypeOK, Items, Goto, Becomes

\* A result comes with its place and whether the call was started.
LEMMA ResultBecomes ==
    ASSUME TypeOK, NEW r \in Requests, NEW x, NEW s, Result(r, x, s)
    PROVE  Becomes(r, "result", item[r].decision, x, s)
BY DEF TypeOK, Items, Result, Becomes

\* A denial changes the place and the decision.
LEMMA DenyBecomes ==
    ASSUME TypeOK, NEW r \in Requests, Deny(r)
    PROVE  Becomes(r, "decided", "deny", item[r].result, item[r].started)
BY DEF TypeOK, Items, Deny, Becomes

\* A call that throws keeps what is known of it.
LEMMA ThrowBecomes ==
    ASSUME TypeOK, NEW r \in Requests, Throw(r)
    PROVE  Becomes(r, "stopped", item[r].decision, item[r].result, item[r].started)
BY GotoBecomes DEF Throw

\* The reviewer moves.
LEMMA ReviewMoves ==
    ASSUME TypeOK, NEW r \in Requests, NEW pc, Review(r, pc)
    PROVE  reviewer'[r] = pc
BY DEF TypeOK, Review

\* Fields of an entry with another decision.
LEMMA DecisionEntry ==
    ASSUME TypeOK, NEW r \in Requests, NEW d
    PROVE  LET e == [ledger[r] EXCEPT !.decision = d]
           IN  e.proposed = ledger[r].proposed /\ e.decision = d /\ e.exec = ledger[r].exec
BY DEF TypeOK, Entries

\* Fields of an entry with another execution.
LEMMA ExecEntry ==
    ASSUME TypeOK, NEW r \in Requests, NEW x
    PROVE  LET e == [ledger[r] EXCEPT !.exec = x]
           IN  e.proposed = ledger[r].proposed /\ e.decision = ledger[r].decision /\ e.exec = x
BY DEF TypeOK, Entries

\* Propose: the proposal is on record, or the reviewer fails.
LEMMA ProposeStep ==
    ASSUME TypeOK, NEW r \in Requests, Propose(r)
    PROVE  /\ reviewer[r] = "propose" /\ UNCHANGED <<item, gov, thrown>> /\ UNCHANGED outside
           /\ \/ Writes(r, TRUE, ledger[r].decision, ledger[r].exec) /\ reviewer'[r] = "commit"
              \/ Misses(r, TRUE, ledger[r].decision, ledger[r].exec) /\ reviewer'[r] = "failed"
<1> DEFINE e == [ledger[r] EXCEPT !.proposed = TRUE]
<1>1. e.proposed = TRUE /\ e.decision = ledger[r].decision /\ e.exec = ledger[r].exec
    BY DEF TypeOK, Entries
<1>2. \/ Record(r, e) /\ Review(r, "commit")
      \/ RecordThrows(r, e) /\ Review(r, "failed")
    BY DEF Propose
<1> HIDE DEF e
<1>3. CASE Record(r, e) /\ Review(r, "commit")
    BY <1>1, <1>3, RecordWrites, ReviewMoves DEF Propose
<1>4. CASE RecordThrows(r, e) /\ Review(r, "failed")
    BY <1>1, <1>4, RecordMisses, ReviewMoves DEF Propose
<1> QED
    BY <1>2, <1>3, <1>4

\* Commit: a decision that is there stays, else one is put on record.
LEMMA CommitStep ==
    ASSUME TypeOK, NEW r \in Requests, Commit(r)
    PROVE  /\ reviewer[r] = "commit" /\ UNCHANGED <<item, gov, thrown>> /\ UNCHANGED outside
           /\ \/ /\ reviewer'[r] = "authorize" /\ ledger[r].decision # "none"
                 /\ UNCHANGED <<ledger, disk, up>>
              \/ reviewer'[r] = "failed" /\ UNCHANGED <<ledger, disk, up>>
              \/ /\ ledger[r].decision = "none"
                 /\ \E d \in {"approve", "deny", "escalate"} :
                      \/ Writes(r, ledger[r].proposed, d, ledger[r].exec) /\ reviewer'[r] = "authorize"
                      \/ Misses(r, ledger[r].proposed, d, ledger[r].exec) /\ reviewer'[r] = "failed"
<1>1. CASE ledger[r].decision # "none" /\ Review(r, "authorize") /\ UNCHANGED <<ledger, disk, up>>
    BY <1>1, ReviewMoves DEF Commit
<1>2. CASE Review(r, "failed") /\ UNCHANGED <<ledger, disk, up>>
    BY <1>2, ReviewMoves DEF Commit
<1>3. ASSUME ledger[r].decision = "none", NEW d \in {"approve", "deny", "escalate"},
             \/ Record(r, [ledger[r] EXCEPT !.decision = d]) /\ Review(r, "authorize")
             \/ RecordThrows(r, [ledger[r] EXCEPT !.decision = d]) /\ Review(r, "failed")
      PROVE  \/ Writes(r, ledger[r].proposed, d, ledger[r].exec) /\ reviewer'[r] = "authorize"
             \/ Misses(r, ledger[r].proposed, d, ledger[r].exec) /\ reviewer'[r] = "failed"
    <2> DEFINE e == [ledger[r] EXCEPT !.decision = d]
    <2>1. e.proposed = ledger[r].proposed /\ e.decision = d /\ e.exec = ledger[r].exec
        BY DecisionEntry
    <2>2. \/ Record(r, e) /\ Review(r, "authorize")
          \/ RecordThrows(r, e) /\ Review(r, "failed")
        BY <1>3
    <2> HIDE DEF e
    <2> QED
        BY <2>1, <2>2, RecordWrites, RecordMisses, ReviewMoves
<1> QED
    BY <1>1, <1>2, <1>3 DEF Commit

\* PolicyDenial: the approval is closed in two records, of which both, one or
\* none are written.
LEMMA PolicyDenialStep ==
    ASSUME TypeOK, NEW r \in Requests, PolicyDenial(r)
    PROVE  /\ item[r].pc = "policy" /\ UNCHANGED <<reviewer, gov>> /\ UNCHANGED outside
           /\ \/ /\ Writes(r, ledger[r].proposed, ledger[r].decision, "none")
                 /\ Becomes(r, "decided", "deny", item[r].result, item[r].started)
              \/ /\ \/ Misses(r, ledger[r].proposed, ledger[r].decision, "running")
                    \/ Halves(r, ledger[r].proposed, ledger[r].decision, "none")
                 /\ Becomes(r, "stopped", item[r].decision, item[r].result, item[r].started)
<1> DEFINE e == [ledger[r] EXCEPT !.exec = "none"]
           f == [e EXCEPT !.exec = "running"]
<1>1. e.proposed = ledger[r].proposed /\ e.decision = ledger[r].decision /\ e.exec = "none"
    BY ExecEntry
<1>2. f.proposed = ledger[r].proposed /\ f.decision = ledger[r].decision /\ f.exec = "running"
    BY DEF TypeOK, Entries
<1>3. \/ Record(r, e) /\ Deny(r)
      \/ (RecordThrows(r, f) \/ SecondThrows(r, e)) /\ Throw(r)
    BY DEF PolicyDenial
<1> HIDE DEF e, f
<1> QED
    BY <1>1, <1>2, <1>3, RecordWrites, RecordMisses, SecondHalves, DenyBecomes, ThrowBecomes
       DEF PolicyDenial

\* Reconcile: a missing decision becomes a denial, an approval is closed as not
\* delivered, anything else stays.
LEMMA ReconcileStep ==
    ASSUME TypeOK, NEW r \in Requests, Reconcile(r), ledger[r].exec = "no"
    PROVE  /\ item[r].pc = "reconcile" /\ UNCHANGED <<reviewer, gov>> /\ UNCHANGED outside
           /\ \/ /\ ~ledger[r].proposed \/ ledger[r].decision \in {"deny", "escalate"}
                 /\ UNCHANGED <<ledger, disk, up>>
                 /\ Becomes(r, "check", item[r].decision, item[r].result, item[r].started)
              \/ /\ \/ ledger[r].decision = "none" /\ Writes(r, ledger[r].proposed, "deny", "no")
                    \/ /\ ledger[r].decision = "approve"
                       /\ Writes(r, ledger[r].proposed, "approve", "undelivered")
                 /\ Becomes(r, "check", item[r].decision, item[r].result, item[r].started)
              \/ /\ \/ ledger[r].decision = "none" /\ Misses(r, ledger[r].proposed, "deny", "no")
                    \/ /\ ledger[r].decision = "approve"
                       /\ \/ Misses(r, ledger[r].proposed, "approve", "running")
                          \/ Halves(r, ledger[r].proposed, "approve", "undelivered")
                 /\ Becomes(r, "stopped", item[r].decision, item[r].result, item[r].started)
<1> DEFINE e == Reconciled(ledger[r])
           f == [e EXCEPT !.exec = "running"]
<1>1. /\ ledger[r].decision \in {"none", "approve", "deny", "escalate"}
      /\ ledger[r] \in Entries
    BY DEF TypeOK, Entries
<1>2. CASE ledger[r].decision = "none"
    <2>1. e = [ledger[r] EXCEPT !.decision = "deny"]
        BY <1>2 DEF Reconciled
    <2>2. e.proposed = ledger[r].proposed /\ e.decision = "deny" /\ e.exec = "no"
        BY <2>1, DecisionEntry
    <2>3. \/ /\ ~ledger[r].proposed \/ e = ledger[r]
             /\ Goto(r, "check") /\ UNCHANGED <<ledger, disk, up>>
          \/ Record(r, e) /\ Goto(r, "check")
          \/ RecordThrows(r, e) /\ Throw(r)
        BY <2>2 DEF Reconcile
    <2> HIDE DEF e
    <2> QED
        BY <1>2, <2>2, <2>3, RecordWrites, RecordMisses, GotoBecomes, ThrowBecomes DEF Reconcile
<1>3. CASE ledger[r].decision = "approve"
    <2>1. e = [ledger[r] EXCEPT !.exec = "undelivered"]
        BY <1>3 DEF Reconciled
    <2>2. e.proposed = ledger[r].proposed /\ e.decision = "approve" /\ e.exec = "undelivered"
        BY <1>3, <2>1, ExecEntry
    <2>3. f.proposed = ledger[r].proposed /\ f.decision = "approve" /\ f.exec = "running"
        BY <1>1, <1>3, <2>1 DEF Entries
    <2>4. \/ /\ ~ledger[r].proposed \/ e = ledger[r]
             /\ Goto(r, "check") /\ UNCHANGED <<ledger, disk, up>>
          \/ Record(r, e) /\ Goto(r, "check")
          \/ (RecordThrows(r, f) \/ SecondThrows(r, e)) /\ Throw(r)
        BY <2>2 DEF Reconcile
    <2> HIDE DEF e, f
    <2> QED
        BY <1>3, <2>2, <2>3, <2>4, RecordWrites, RecordMisses, SecondHalves, GotoBecomes,
           ThrowBecomes DEF Reconcile
<1>4. CASE ledger[r].decision \in {"deny", "escalate"}
    <2>1. e = ledger[r]
        BY <1>4 DEF Reconciled
    <2>2. Goto(r, "check") /\ UNCHANGED <<ledger, disk, up>>
        BY <2>1 DEF Reconcile
    <2> QED
        BY <1>4, <2>2, GotoBecomes DEF Reconcile
<1> QED
    BY <1>1, <1>2, <1>3, <1>4

\* OperatorCommit: the operator's decision replaces that of the reviewer, or the
\* call is left without one.
LEMMA OperatorCommitStep ==
    ASSUME TypeOK, NEW r \in Requests, OperatorCommit(r)
    PROVE  /\ item[r].pc = "operatorCommit" /\ UNCHANGED <<reviewer, gov>> /\ UNCHANGED outside
           /\ \/ /\ Writes(r, ledger[r].proposed, item[r].decision, ledger[r].exec)
                 /\ Becomes(r, "operatorAuthorize", item[r].decision, item[r].result, item[r].started)
              \/ /\ Misses(r, ledger[r].proposed, item[r].decision, ledger[r].exec)
                 /\ Becomes(r, "stopped", "none", item[r].result, item[r].started)
<1> DEFINE e == [ledger[r] EXCEPT !.decision = item[r].decision]
<1>1. e.proposed = ledger[r].proposed /\ e.decision = item[r].decision /\ e.exec = ledger[r].exec
    BY DecisionEntry
<1>2. \/ Record(r, e) /\ Goto(r, "operatorAuthorize")
      \/ /\ RecordThrows(r, e)
         /\ item' = [item EXCEPT ![r].pc = "stopped", ![r].decision = "none"]
    BY DEF OperatorCommit
<1>3. item' = [item EXCEPT ![r].pc = "stopped", ![r].decision = "none"]
      => Becomes(r, "stopped", "none", item[r].result, item[r].started)
    BY DEF TypeOK, Items, Becomes
<1> HIDE DEF e
<1> QED
    BY <1>1, <1>2, <1>3, RecordWrites, RecordMisses, GotoBecomes DEF OperatorCommit

\* OperatorAuthorize: an approval is opened in governance, or the call is left
\* without a decision.
LEMMA OperatorAuthorizeStep ==
    ASSUME TypeOK, NEW r \in Requests, OperatorAuthorize(r)
    PROVE  /\ item[r].pc = "operatorAuthorize" /\ UNCHANGED <<reviewer, ledger, disk>>
           /\ UNCHANGED outside /\ up' \subseteq up /\ ("ledger" \in up' <=> "ledger" \in up)
           /\ ("session" \in up' <=> "session" \in up)
           /\ \/ Becomes(r, "decided", item[r].decision, item[r].result, item[r].started)
              \/ Becomes(r, "stopped", "none", item[r].result, item[r].started)
<1>1. item' = [item EXCEPT ![r].pc = "stopped", ![r].decision = "none"]
      => Becomes(r, "stopped", "none", item[r].result, item[r].started)
    BY DEF TypeOK, Items, Becomes
<1>2. /\ up' \subseteq up /\ ("ledger" \in up' <=> "ledger" \in up)
      /\ ("session" \in up' <=> "session" \in up)
    BY DEF OperatorAuthorize, Govern, GovernThrows
<1> QED
    BY <1>1, <1>2, GotoBecomes DEF OperatorAuthorize

\* Operator: an answer is on its way to the ledger, or the prompt threw.
LEMMA OperatorStep ==
    ASSUME TypeOK, NEW r \in Requests, Operator(r)
    PROVE  /\ item[r].pc = "operator" /\ UNCHANGED <<reviewer, ledger, disk, gov, up>>
           /\ UNCHANGED outside
           /\ \/ \E d \in {"approve", "deny"} :
                   Becomes(r, "operatorCommit", d, item[r].result, item[r].started)
              \/ Becomes(r, "stopped", item[r].decision, item[r].result, item[r].started)
<1>1. ASSUME NEW d, item' = [item EXCEPT ![r].pc = "operatorCommit", ![r].decision = d]
      PROVE  Becomes(r, "operatorCommit", d, item[r].result, item[r].started)
    BY <1>1 DEF TypeOK, Items, Becomes
<1> QED
    BY <1>1, ThrowBecomes DEF Operator

\* Reviewed: a denied call has its result, an approved one is ready or stopped.
LEMMA ReviewedStep ==
    ASSUME TypeOK, NEW r \in Requests, Reviewed(r)
    PROVE  /\ item[r].pc = "decided"
           /\ UNCHANGED <<turn, readOnly, reviewer, ledger, disk, gov, pending, exec, touched, journal>>
           /\ up' \in {up, up \ {"session"}}
           /\ \/ /\ item[r].decision = "deny"
                 /\ Becomes(r, "result", "deny", "none", item[r].started)
              \/ /\ item[r].decision # "deny"
                 /\ \/ Becomes(r, "ready", item[r].decision, "no", item[r].started)
                    \/ Becomes(r, "stopped", item[r].decision, "no", item[r].started)
<1>1. UNCHANGED journal /\ up' \in {up, up \ {"session"}}
    BY DEF Reviewed, Persist, PersistThrows
<1>2. CASE item[r].decision = "deny"
    BY <1>1, <1>2 DEF TypeOK, Items, Reviewed, Becomes
<1>3. CASE item[r].decision # "deny"
    BY <1>1, <1>3 DEF TypeOK, Items, Reviewed, Becomes
<1> QED
    BY <1>2, <1>3

\* Begin: the call goes on to its start, or is blocked.
LEMMA BeginStep ==
    ASSUME TypeOK, NEW r \in Requests, Begin(r)
    PROVE  /\ item[r].pc = "ready"
           /\ UNCHANGED <<ledger, disk, journal, up, exec, touched>> /\ UNCHANGED unreviewed
           /\ \/ Becomes(r, "begin", item[r].decision, item[r].result, item[r].started)
              \/ Becomes(r, "result", item[r].decision, "none", FALSE)
BY GotoBecomes, ResultBecomes DEF Begin

\* Start: the start is on record, or the call is blocked.
LEMMA StartStep ==
    ASSUME TypeOK, NEW r \in Requests, Start(r)
    PROVE  /\ item[r].pc = "begin"
           /\ UNCHANGED <<journal, exec, touched>> /\ UNCHANGED unreviewed
           /\ \/ /\ Writes(r, ledger[r].proposed, ledger[r].decision, "running")
                 /\ Becomes(r, "publish", item[r].decision, item[r].result, item[r].started)
              \/ /\ \/ Misses(r, ledger[r].proposed, ledger[r].decision, "running")
                    \/ UNCHANGED <<ledger, disk, up>>
                 /\ Becomes(r, "result", item[r].decision, "none", FALSE)
<1> DEFINE e == [ledger[r] EXCEPT !.exec = "running"]
<1>1. e.proposed = ledger[r].proposed /\ e.decision = ledger[r].decision /\ e.exec = "running"
    BY ExecEntry
<1>2. \/ Record(r, e) /\ Goto(r, "publish")
      \/ RecordThrows(r, e) /\ Result(r, "none", FALSE)
      \/ Result(r, "none", FALSE) /\ UNCHANGED <<ledger, disk, up>>
    BY DEF Start
<1> HIDE DEF e
<1> QED
    BY <1>1, <1>2, RecordWrites, RecordMisses, GotoBecomes, ResultBecomes DEF Start

\* Publish: the started event is in the journal, or the batch stops and it may be.
LEMMA PublishStep ==
    ASSUME TypeOK, NEW r \in Requests, Publish(r)
    PROVE  /\ item[r].pc = "publish"
           /\ UNCHANGED <<ledger, disk, exec, touched>> /\ UNCHANGED unreviewed
           /\ journal'.result = journal.result /\ journal'.pending = journal.pending
           /\ \/ /\ up' = up /\ r \in journal'.started
                 /\ Becomes(r, "run", item[r].decision, item[r].result, item[r].started)
              \/ /\ up' = up \ {"session"}
                 /\ Becomes(r, "stopped", item[r].decision, item[r].result, item[r].started)
<1> DEFINE j == [journal EXCEPT !.started = @ \cup {r}]
<1>1. j.result = journal.result /\ j.pending = journal.pending /\ r \in j.started
    BY DEF TypeOK, Journals
<1>2. \/ Persist(j) /\ Goto(r, "run")
      \/ PersistThrows(j) /\ Throw(r)
    BY DEF Publish
<1> HIDE DEF j
<1>3. CASE Persist(j) /\ Goto(r, "run")
    BY <1>1, <1>3, GotoBecomes DEF Publish, Persist
<1>4. CASE PersistThrows(j) /\ Throw(r)
    BY <1>1, <1>4, ThrowBecomes DEF Publish, PersistThrows
<1> QED
    BY <1>2, <1>3, <1>4

\* Return: an executor that ends brings the call its result, if it is awaited.
LEMMA ReturnStep ==
    ASSUME TypeOK, NEW r \in Requests, Return(r)
    PROVE  /\ exec[r] = "running" /\ exec'[r] = "ended"
           /\ UNCHANGED <<ledger, disk, journal, up, touched>> /\ UNCHANGED unreviewed
           /\ \/ item[r].pc # "wait" /\ UNCHANGED item
              \/ /\ item[r].pc = "wait"
                 /\ \E x \in {"none", "completed", "unknown"} :
                      /\ x = "none" => r \in readOnly \/ r \notin touched
                      /\ Becomes(r, "result", item[r].decision, x, TRUE)
<1>1. exec'[r] = "ended"
    BY DEF TypeOK, Return
<1> QED
    BY <1>1, ResultBecomes DEF Return, Uncertain

\* CommitResult: the result of a call is in the journal, or may be.
LEMMA CommitResultStep ==
    ASSUME TypeOK, NEW r \in Requests, CommitResult(r)
    PROVE  /\ item[r].pc = "commit"
           /\ UNCHANGED <<turn, ledger, disk, gov, pending>> /\ UNCHANGED uncommitted
           /\ journal'.started = journal.started /\ journal'.pending = journal.pending
           /\ \/ /\ item[r].result = "no" /\ UNCHANGED <<journal, up>>
                 /\ Becomes(r, "finished", item[r].decision, item[r].result, item[r].started)
              \/ /\ item[r].result # "no" /\ up' = up /\ journal'.result[r] = item[r].result
                 /\ Becomes(r, IF item[r].started THEN "account" ELSE "finished",
                            item[r].decision, item[r].result, item[r].started)
              \/ /\ item[r].result # "no" /\ up' = up \ {"session"}
                 /\ journal'.result[r] \in {journal.result[r], item[r].result}
                 /\ Becomes(r, "finished", item[r].decision, item[r].result, item[r].started)
<1> DEFINE j == [journal EXCEPT !.result[r] = item[r].result]
<1>1. /\ j.started = journal.started /\ j.pending = journal.pending
      /\ j.result[r] = item[r].result
    BY DEF TypeOK, Journals
<1>2. \/ item[r].result = "no" /\ Goto(r, "finished") /\ UNCHANGED <<journal, up>>
      \/ /\ item[r].result # "no"
         /\ \/ Persist(j) /\ Goto(r, IF item[r].started THEN "account" ELSE "finished")
            \/ PersistThrows(j) /\ Goto(r, "finished")
    BY DEF CommitResult
<1>3. /\ item[r].pc = "commit" /\ UNCHANGED <<turn, ledger, disk, gov, pending>>
      /\ UNCHANGED uncommitted
    BY DEF CommitResult, Committing
<1> HIDE DEF j
<1>4. Persist(j) => up' = up /\ journal' = j
    BY DEF Persist
<1>5. PersistThrows(j) => up' = up \ {"session"} /\ journal' \in {journal, j}
    BY DEF PersistThrows
<1> QED
    BY <1>1, <1>2, <1>3, <1>4, <1>5, GotoBecomes

\* Account: the ledger gets its terminal, has one, or the settlement is postponed.
LEMMA AccountStep ==
    ASSUME TypeOK, NEW r \in Requests, Account(r)
    PROVE  /\ item[r].pc = "account"
           /\ UNCHANGED <<turn, journal, gov, pending>> /\ UNCHANGED uncommitted
           /\ \/ /\ UNCHANGED <<ledger, disk, up>>
                 /\ \E pc \in {"govern", "pending"} :
                      Becomes(r, pc, item[r].decision, item[r].result, item[r].started)
              \/ /\ Writes(r, ledger[r].proposed, ledger[r].decision, item[r].result)
                 /\ Becomes(r, "govern", item[r].decision, item[r].result, item[r].started)
              \/ /\ Misses(r, ledger[r].proposed, ledger[r].decision, item[r].result)
                 /\ Becomes(r, "pending", item[r].decision, item[r].result, item[r].started)
<1> DEFINE e == [ledger[r] EXCEPT !.exec = item[r].result]
<1>1. e.proposed = ledger[r].proposed /\ e.decision = ledger[r].decision /\ e.exec = item[r].result
    BY ExecEntry
<1>2. \/ Goto(r, "govern") /\ UNCHANGED <<ledger, disk, up>>
      \/ Goto(r, "pending") /\ UNCHANGED <<ledger, disk, up>>
      \/ Record(r, e) /\ Goto(r, "govern")
      \/ RecordThrows(r, e) /\ Goto(r, "pending")
    BY DEF Account
<1>3. item[r].pc = "account" /\ UNCHANGED <<turn, journal, gov, pending>> /\ UNCHANGED uncommitted
    BY DEF Account, Committing
<1> HIDE DEF e
<1> QED
    BY <1>1, <1>2, <1>3, RecordWrites, RecordMisses, GotoBecomes

\* AccountGovernance: governance is closed, or the settlement is postponed.
LEMMA AccountGovernanceStep ==
    ASSUME TypeOK, NEW r \in Requests, AccountGovernance(r)
    PROVE  /\ item[r].pc = "govern"
           /\ UNCHANGED <<turn, ledger, disk, journal, pending>> /\ UNCHANGED uncommitted
           /\ up' \in {up, up \ {"gov"}}
           /\ \E pc \in {"finished", "pending"} :
                Becomes(r, pc, item[r].decision, item[r].result, item[r].started)
BY GotoBecomes DEF AccountGovernance, Committing, Govern, GovernThrows

\* ReconcilePending: a terminal that the ledger lacks is that of the transcript.
LEMMA ReconcilePendingStep ==
    ASSUME TypeOK, NEW r \in Requests, ReconcilePending(r)
    PROVE  /\ turn = "over" /\ r \in pending
           /\ UNCHANGED <<turn, item>> /\ UNCHANGED uncommitted /\ up' \subseteq up
           /\ journal'.started = journal.started /\ journal'.result = journal.result
           /\ journal'.pending \subseteq journal.pending /\ pending' \subseteq pending
           /\ \E x \in {ledger[r].exec, journal.result[r]} :
                /\ x # ledger[r].exec => ledger[r].exec = "running"
                /\ \/ Misses(r, ledger[r].proposed, ledger[r].decision, x)
                   \/ /\ "ledger" \in up /\ ("ledger" \in up' <=> "ledger" \in up)
                      /\ Is(ledger'[r], ledger[r].proposed, ledger[r].decision, x)
                      /\ disk'[r] = ledger'[r]
<1> DEFINE x == IF ledger[r].exec = "running" THEN journal.result[r] ELSE ledger[r].exec
           e == [ledger[r] EXCEPT !.exec = IF @ = "running" THEN journal.result[r] ELSE @]
           j == [journal EXCEPT !.pending = @ \ {r}]
<1>1. e.proposed = ledger[r].proposed /\ e.decision = ledger[r].decision /\ e.exec = x
    BY DEF TypeOK, Entries
<1>2. /\ j.started = journal.started /\ j.result = journal.result
      /\ j.pending \subseteq journal.pending
    BY DEF TypeOK, Journals
<1>3. \/ RecordThrows(r, e) /\ UNCHANGED <<gov, journal, pending>>
      \/ /\ "ledger" \in up
         /\ ledger' = [ledger EXCEPT ![r] = e] /\ disk' = [disk EXCEPT ![r] = e]
         /\ \/ GovernThrows /\ UNCHANGED <<journal, pending>>
            \/ PersistThrows(j) /\ UNCHANGED pending
            \/ Persist(j) /\ pending' = pending \ {r}
    BY DEF ReconcilePending
<1>4. turn = "over" /\ r \in pending /\ UNCHANGED <<turn, item>> /\ UNCHANGED uncommitted
    BY DEF ReconcilePending
<1>5. x \in {ledger[r].exec, journal.result[r]} /\ (x # ledger[r].exec => ledger[r].exec = "running")
    OBVIOUS
<1> HIDE DEF x, e, j
<1>6. CASE RecordThrows(r, e) /\ UNCHANGED <<gov, journal, pending>>
    <2>1. Misses(r, ledger[r].proposed, ledger[r].decision, x)
        BY <1>1, <1>6, RecordMisses
    <2>2. up' \subseteq up
        BY <2>1 DEF Misses
    <2> QED
        BY <1>4, <1>5, <1>6, <2>1, <2>2
<1>7. CASE /\ "ledger" \in up
           /\ ledger' = [ledger EXCEPT ![r] = e] /\ disk' = [disk EXCEPT ![r] = e]
           /\ \/ GovernThrows /\ UNCHANGED <<journal, pending>>
              \/ PersistThrows(j) /\ UNCHANGED pending
              \/ Persist(j) /\ pending' = pending \ {r}
    <2>1. Is(ledger'[r], ledger[r].proposed, ledger[r].decision, x) /\ disk'[r] = ledger'[r]
        BY <1>1, <1>7 DEF TypeOK, Is
    <2>2. /\ up' \subseteq up /\ ("ledger" \in up' <=> "ledger" \in up)
          /\ journal' \in {journal, j} /\ pending' \subseteq pending
        BY <1>7 DEF GovernThrows, Persist, PersistThrows
    <2> QED
        BY <1>2, <1>4, <1>5, <1>7, <2>1, <2>2
<1> QED
    BY <1>3, <1>6, <1>7

\* Deliver: the decision is there, or another subscriber or the operator has a say.
LEMMA DeliverStep ==
    ASSUME TypeOK, NEW r \in Requests, Deliver(r)
    PROVE  /\ item[r].pc = "review" /\ reviewer[r] = "done"
           /\ UNCHANGED <<reviewer, ledger, disk, gov, up>> /\ UNCHANGED outside
           /\ \/ /\ ledger[r].decision = "approve"
                 /\ \/ Becomes(r, "decided", "approve", item[r].result, item[r].started)
                    \/ Becomes(r, "policy", item[r].decision, item[r].result, item[r].started)
              \/ Becomes(r, "decided", "deny", item[r].result, item[r].started)
              \/ Becomes(r, "operator", item[r].decision, item[r].result, item[r].started)
<1>1. ASSUME NEW d, item' = [item EXCEPT ![r].pc = "decided", ![r].decision = d]
      PROVE  Becomes(r, "decided", d, item[r].result, item[r].started)
    BY <1>1 DEF TypeOK, Items, Becomes
<1>2. ASSUME NEW pc, item' = [item EXCEPT ![r].pc = pc]
      PROVE  Becomes(r, pc, item[r].decision, item[r].result, item[r].started)
    BY <1>2, GotoBecomes DEF Goto
<1> QED
    BY <1>1, <1>2 DEF Deliver

\* ReconcileCheck: an approval that is closed as not delivered is closed in
\* governance, or governance fails.
LEMMA ReconcileCheckStep ==
    ASSUME TypeOK, NEW r \in Requests, ReconcileCheck(r)
    PROVE  /\ item[r].pc = "check"
           /\ UNCHANGED <<reviewer, ledger, disk>> /\ UNCHANGED outside
           /\ \/ /\ up' = up /\ Becomes(r, "decided", "deny", item[r].result, item[r].started)
                 /\ \/ Undelivered(r) /\ gov'[r] = "closed"
                    \/ ~Undelivered(r) /\ gov'[r] = gov[r]
              \/ /\ up' = up \ {"gov"} /\ gov' = gov
                 /\ Becomes(r, "stopped", item[r].decision, item[r].result, item[r].started)
<1>1. CASE SettleUndelivered(r) /\ Deny(r)
    <2>1. CASE Undelivered(r)
        <3>1. gov'[r] = "closed" /\ up' = up
            BY <1>1, <2>1 DEF SettleUndelivered, Govern, TypeOK
        <3> QED
            BY <1>1, <2>1, <3>1, DenyBecomes DEF ReconcileCheck
    <2>2. CASE ~Undelivered(r)
        BY <1>1, <2>2, DenyBecomes DEF SettleUndelivered, ReconcileCheck
    <2> QED
        BY <2>1, <2>2
<1>2. CASE GovernThrows /\ Throw(r)
    BY <1>2, ThrowBecomes DEF GovernThrows, ReconcileCheck
<1> QED
    BY <1>1, <1>2 DEF ReconcileCheck

\* Call: the executor runs, or the call has a result, or it is lost.
LEMMA CallStep ==
    ASSUME TypeOK, NEW r \in Requests, Call(r)
    PROVE  /\ item[r].pc = "run"
           /\ UNCHANGED <<ledger, disk, journal, up, touched>> /\ UNCHANGED unreviewed
           /\ \/ /\ exec'[r] = "running"
                 /\ Becomes(r, "wait", item[r].decision, item[r].result, item[r].started)
              \/ /\ exec' = exec
                 /\ \E x \in {"none", "unknown"} :
                      /\ x = "none" => r \in readOnly
                      /\ Becomes(r, "result", item[r].decision, x, TRUE)
              \/ /\ exec' = exec
                 /\ Becomes(r, "lost", item[r].decision, item[r].result, item[r].started)
<1>1. CASE exec' = [exec EXCEPT ![r] = "running"] /\ Goto(r, "wait")
    <2>1. exec'[r] = "running"
        BY <1>1 DEF TypeOK
    <2> QED
        BY <1>1, <2>1, GotoBecomes DEF Call
<1>2. CASE Result(r, Uncertain(r), TRUE) /\ UNCHANGED exec
    BY <1>2, ResultBecomes DEF Call, Uncertain
<1>3. CASE Goto(r, "lost") /\ UNCHANGED exec
    BY <1>3, GotoBecomes DEF Call
<1> QED
    BY <1>1, <1>2, <1>3 DEF Call

\* GiveUp: the call has a result that does not claim to know.
LEMMA GiveUpStep ==
    ASSUME TypeOK, NEW r \in Requests, GiveUp(r)
    PROVE  /\ item[r].pc = "wait"
           /\ UNCHANGED <<ledger, disk, journal, up, exec, touched>> /\ UNCHANGED unreviewed
           /\ \E x \in {"none", "unknown"} :
                /\ x = "none" => r \in readOnly
                /\ Becomes(r, "result", item[r].decision, x, TRUE)
BY ResultBecomes DEF GiveUp, Uncertain

\* Postpone: the settlement is kept for later, in the journal first.
LEMMA PostponeStep ==
    ASSUME TypeOK, NEW r \in Requests, Postpone(r)
    PROVE  /\ item[r].pc = "pending" /\ turn = "settle"
           /\ UNCHANGED <<turn, ledger, disk, gov>> /\ UNCHANGED uncommitted
           /\ journal'.started = journal.started /\ journal'.result = journal.result
           /\ up' \in {up, up \ {"session"}}
           /\ Becomes(r, "finished", item[r].decision, item[r].result, item[r].started)
<1> DEFINE j == [journal EXCEPT !.pending = @ \cup {r}]
<1>1. j.started = journal.started /\ j.result = journal.result
    BY DEF TypeOK, Journals
<1>2. Persist(j) \/ PersistThrows(j)
    BY DEF Postpone
<1> HIDE DEF j
<1>3. journal' \in {journal, j} /\ up' \in {up, up \ {"session"}}
    BY <1>2 DEF Persist, PersistThrows
<1> QED
    BY <1>1, <1>3, GotoBecomes DEF Postpone, Committing

\* A call that is not yet settled belongs to an open batch and has no result yet.
LEMMA OpenPhase ==
    ASSUME TypeOK, NEW r \in Requests, Fits(r), item[r].pc \in Opening
    PROVE  turn = "open" /\ journal.result[r] = "no"
<1>1. turn \in {"open", "settle", "over", "interrupted", "stopped"}
    BY DEF TypeOK
<1>2. item[r].pc \notin Settling
    BY DEF Opening, Settling, InReview, InExecution
<1>3. turn = "open"
    BY <1>1, <1>2 DEF Fits, PhaseFits, Settling, Forgotten
<1> QED
    BY <1>3 DEF Fits, JournalFits

\* Past its commit, a terminal of the ledger that is the result fits.
LEMMA SettledEnd ==
    ASSUME NEW r \in Requests, item'[r].pc \notin Opening \cup {"commit"}, journal'.result[r] # "no",
           ledger'[r].exec \in {"no", "running", "undelivered", journal'.result[r]},
           disk'[r].exec \in {"no", "running", "undelivered", journal'.result[r]},
           "undelivered" \in {ledger'[r].exec, disk'[r].exec} => journal'.result[r] = "none"
    PROVE  TerminalFits(r)'
<1>1. EndFits(r, ledger[r].exec)'
    BY DEF EndFits
<1>2. EndFits(r, disk[r].exec)'
    BY DEF EndFits
<1> QED BY <1>1, <1>2 DEF TerminalFits

----------------------------------------------------------------------------
(* Every action keeps what fits of its own call. *)

\* The reviewer's proposal.
LEMMA ProposeFits ==
    ASSUME TypeOK, NEW r \in Requests, Fits(r), Propose(r)
    PROVE  Fits(r)'
<1> USE ProposeStep DEF Fits, outside, Writes, Misses, Is
<1>1. PhaseFits(r)' BY DEF PhaseFits, Opening, Settling, InReview, InExecution, Forgotten
<1>2. ItemFits(r)' BY DEF ItemFits, InExecution
<1>3. ReviewerFits(r)' BY DEF ReviewerFits
<1>4. LedgerFits(r)'
    <2> USE DEF LedgerFits
    <2>1. /\ ledger'[r].exec = ledger[r].exec /\ ledger'[r].decision = ledger[r].decision
          /\ disk'[r].exec = disk[r].exec /\ disk'[r].decision = disk[r].decision
          /\ "ledger" \in up' => ledger'[r] = disk'[r]
        OBVIOUS
    <2> QED
        BY <2>1 DEF EntryFits, Approved, Started
<1>5. JournalFits(r)'
    <2>1. disk'[r].exec = disk[r].exec
        BY DEF LedgerFits
    <2> QED
        BY <2>1 DEF JournalFits
<1>6. ExecutorFits(r)' BY DEF ExecutorFits, Opening, InReview, InExecution
<1>7. TerminalFits(r)' BY DEF TerminalFits, EndFits, Opening, InReview, InExecution
<1>8. EffectFits(r)' BY DEF EffectFits, Effective
<1>9. ClosureFits(r)' BY DEF ClosureFits, SettledOutcome
<1>10. PairingFits(r)' BY DEF PairingFits, Settling
<1> QED BY <1>1, <1>2, <1>3, <1>4, <1>5, <1>6, <1>7, <1>8, <1>9, <1>10

\* The reviewer's decision.
LEMMA CommitFits ==
    ASSUME TypeOK, NEW r \in Requests, Fits(r), Commit(r)
    PROVE  Fits(r)'
<1> USE CommitStep DEF Fits, outside, Writes, Misses, Is
<1>1. PhaseFits(r)' BY DEF PhaseFits, Opening, Settling, InReview, InExecution, Forgotten
<1>2. ItemFits(r)' BY DEF ItemFits, InExecution
<1>3. ReviewerFits(r)' BY DEF ReviewerFits
<1>4. LedgerFits(r)' BY DEF LedgerFits, EntryFits, Unstarted, Approved, Started
<1>5. JournalFits(r)'
    BY DEF JournalFits, ItemFits, InExecution, LedgerFits, EntryFits, Unstarted, Approved,
       Started
<1>6. ExecutorFits(r)' BY DEF ExecutorFits, Opening, InReview, InExecution
<1>7. TerminalFits(r)' BY DEF TerminalFits, EndFits, Opening, InReview, InExecution
<1>8. EffectFits(r)' BY DEF EffectFits, Effective
<1>9. ClosureFits(r)' BY DEF ClosureFits, SettledOutcome
<1>10. PairingFits(r)' BY DEF PairingFits, Settling
<1> QED BY <1>1, <1>2, <1>3, <1>4, <1>5, <1>6, <1>7, <1>8, <1>9, <1>10

\* The reviewer's authorization in governance.
LEMMA AuthorizeFits ==
    ASSUME TypeOK, NEW r \in Requests, Fits(r), Authorize(r)
    PROVE  Fits(r)'
<1> USE DEF Fits, TypeOK, Entries, Effects, Items, Journals, Authorize, Govern, Review,
   GovernThrows, outside
<1>1. PhaseFits(r)' BY DEF PhaseFits, Opening, Settling, InReview, InExecution, Forgotten
<1>2. ItemFits(r)' BY DEF ItemFits, InExecution
<1>3. ReviewerFits(r)' BY DEF ReviewerFits
<1>4. LedgerFits(r)' BY DEF LedgerFits, EntryFits, Unstarted, Approved, Started
<1>5. JournalFits(r)' BY DEF JournalFits
<1>6. ExecutorFits(r)' BY DEF ExecutorFits, Opening, InReview, InExecution
<1>7. TerminalFits(r)' BY DEF TerminalFits, EndFits, Opening, InReview, InExecution
<1>8. EffectFits(r)' BY DEF EffectFits, Effective
<1>9. ClosureFits(r)'
    BY DEF ClosureFits, SettledOutcome, ItemFits, InExecution, ReviewerFits, LedgerFits,
       EntryFits, Unstarted, Approved, Started
<1>10. PairingFits(r)' BY DEF PairingFits, Settling
<1> QED BY <1>1, <1>2, <1>3, <1>4, <1>5, <1>6, <1>7, <1>8, <1>9, <1>10

\* The reviewer looks whether its approval was closed behind its back.
LEMMA CheckFits ==
    ASSUME TypeOK, NEW r \in Requests, Fits(r), Check(r)
    PROVE  Fits(r)'
<1> USE DEF Fits, TypeOK, Entries, Effects, Items, Journals, Check, SettleUndelivered,
   Undelivered, Govern, Review, GovernThrows, outside
<1>1. PhaseFits(r)' BY DEF PhaseFits, Opening, Settling, InReview, InExecution, Forgotten
<1>2. ItemFits(r)' BY DEF ItemFits, InExecution
<1>3. ReviewerFits(r)' BY DEF ReviewerFits
<1>4. LedgerFits(r)' BY DEF LedgerFits, EntryFits, Unstarted, Approved, Started
<1>5. JournalFits(r)' BY DEF JournalFits
<1>6. ExecutorFits(r)' BY DEF ExecutorFits, Opening, InReview, InExecution
<1>7. TerminalFits(r)' BY DEF TerminalFits, EndFits, Opening, InReview, InExecution
<1>8. EffectFits(r)' BY DEF EffectFits, Effective
<1>9. ClosureFits(r)' BY DEF ClosureFits, SettledOutcome
<1>10. PairingFits(r)' BY DEF PairingFits, Settling
<1> QED BY <1>1, <1>2, <1>3, <1>4, <1>5, <1>6, <1>7, <1>8, <1>9, <1>10

\* A review begins.
LEMMA ReviewStartFits ==
    ASSUME TypeOK, NEW r \in Requests, Fits(r), ReviewStart(r)
    PROVE  Fits(r)'
<1> USE DEF Fits, TypeOK, Entries, Effects, Items, Journals, ReviewStart, Busy, Before,
   Goto, Review, outside
<1>1. PhaseFits(r)' BY DEF PhaseFits, Opening, Settling, InReview, InExecution, Forgotten
<1>2. ItemFits(r)' BY DEF ItemFits, InExecution
<1>3. ReviewerFits(r)' BY DEF ReviewerFits, ItemFits, InExecution
<1>4. LedgerFits(r)' BY DEF LedgerFits, EntryFits, Unstarted, Approved, Started
<1>5. JournalFits(r)' BY DEF JournalFits
<1>6. ExecutorFits(r)' BY DEF ExecutorFits, Opening, InReview, InExecution
<1>7. TerminalFits(r)' BY DEF TerminalFits, EndFits, Opening, InReview, InExecution
<1>8. EffectFits(r)' BY DEF EffectFits, Effective
<1>9. ClosureFits(r)' BY DEF ClosureFits, SettledOutcome
<1>10. PairingFits(r)' BY DEF PairingFits, Settling
<1> QED BY <1>1, <1>2, <1>3, <1>4, <1>5, <1>6, <1>7, <1>8, <1>9, <1>10

\* A review is given up.
LEMMA ReviewGivenUpFits ==
    ASSUME TypeOK, NEW r \in Requests, Fits(r), ReviewGivenUp(r)
    PROVE  Fits(r)'
<1> USE DEF Fits, TypeOK, Entries, Effects, Items, Journals, ReviewGivenUp, outside
<1>1. PhaseFits(r)' BY DEF PhaseFits, Opening, Settling, InReview, InExecution, Forgotten
<1>2. ItemFits(r)' BY DEF ItemFits, InExecution
<1>3. ReviewerFits(r)' BY DEF ReviewerFits
<1>4. LedgerFits(r)' BY DEF LedgerFits, EntryFits, Unstarted, Approved, Started
<1>5. JournalFits(r)' BY DEF JournalFits
<1>6. ExecutorFits(r)' BY DEF ExecutorFits, Opening, InReview, InExecution
<1>7. TerminalFits(r)' BY DEF TerminalFits, EndFits, Opening, InReview, InExecution
<1>8. EffectFits(r)' BY DEF EffectFits, Effective
<1>9. ClosureFits(r)' BY DEF ClosureFits, SettledOutcome
<1>10. PairingFits(r)' BY DEF PairingFits, Settling
<1> QED BY <1>1, <1>2, <1>3, <1>4, <1>5, <1>6, <1>7, <1>8, <1>9, <1>10

\* The reviewer's decision is delivered.
LEMMA DeliverFits ==
    ASSUME TypeOK, NEW r \in Requests, Fits(r), Deliver(r)
    PROVE  Fits(r)'
<1> USE DeliverStep DEF Fits, outside, Becomes
<1>1. PhaseFits(r)' BY DEF PhaseFits, Opening, Settling, InReview, InExecution, Forgotten
<1>2. ItemFits(r)' BY DEF ItemFits, InExecution
<1>3. ReviewerFits(r)' BY DEF ReviewerFits
<1>4. LedgerFits(r)' BY DEF LedgerFits, EntryFits, Unstarted, Approved, Started
<1>5. JournalFits(r)' BY DEF JournalFits
<1>6. ExecutorFits(r)' BY DEF ExecutorFits, Opening, InReview, InExecution
<1>7. TerminalFits(r)'
    BY DEF TerminalFits, EndFits, Opening, InReview, InExecution, ItemFits, LedgerFits,
       EntryFits, Unstarted, Approved, Started
<1>8. EffectFits(r)' BY DEF EffectFits, Effective
<1>9. ClosureFits(r)' BY DEF ClosureFits, SettledOutcome
<1>10. PairingFits(r)' BY DEF PairingFits, Settling
<1> QED BY <1>1, <1>2, <1>3, <1>4, <1>5, <1>6, <1>7, <1>8, <1>9, <1>10

\* An approval is denied by another subscriber; nothing was started, so a terminal
\* in the ledger may be ahead of the transcript.
LEMMA PolicyDenialFits ==
    ASSUME TypeOK, NEW r \in Requests, Fits(r), PolicyDenial(r)
    PROVE  Fits(r)'
<1> USE PolicyDenialStep DEF Fits, outside, Becomes, Writes, Misses, Halves, Is
<1>1. PhaseFits(r)' BY DEF PhaseFits, Opening, Settling, InReview, InExecution, Forgotten
<1>2. ItemFits(r)' BY DEF ItemFits, InExecution
<1>3. ReviewerFits(r)' BY DEF ReviewerFits
<1>4. LedgerFits(r)' BY DEF LedgerFits, EntryFits, Unstarted, Approved, Started
<1>5. JournalFits(r)' BY DEF JournalFits
<1>6. ExecutorFits(r)' BY DEF ExecutorFits, Opening, InReview, InExecution
<1>7. TerminalFits(r)'
    <2>1. journal.result[r] = "no" 
        BY OpenPhase DEF Opening, InReview
    <2>2. r \notin journal.started
        BY DEF LedgerFits, EntryFits, Unstarted, JournalFits
    <2>3. item[r].decision = "none" /\ item[r].result = "no"
        BY DEF ItemFits
    <2> QED
        BY <2>1, <2>2, <2>3 DEF TerminalFits, EndFits
<1>8. EffectFits(r)' BY DEF EffectFits, Effective
<1>9. ClosureFits(r)' BY DEF ClosureFits, SettledOutcome, ItemFits, InExecution
<1>10. PairingFits(r)' BY DEF PairingFits, Settling
<1> QED BY <1>1, <1>2, <1>3, <1>4, <1>5, <1>6, <1>7, <1>8, <1>9, <1>10

\* The governor reconciles the ledger of a review it has given up.
LEMMA ReconcileFits ==
    ASSUME TypeOK, NEW r \in Requests, Fits(r), Reconcile(r)
    PROVE  Fits(r)'
<1>0. ledger[r].exec = "no"
    BY DEF Reconcile, Fits, LedgerFits, EntryFits, Unstarted
<1> USE <1>0, ReconcileStep DEF Fits, outside, Becomes, Writes, Misses, Halves, Is
<1>1. PhaseFits(r)' BY DEF PhaseFits, Opening, Settling, InReview, InExecution, Forgotten
<1>2. ItemFits(r)' BY DEF ItemFits, InExecution
<1>3. ReviewerFits(r)' BY DEF ReviewerFits
<1>4. LedgerFits(r)' BY DEF LedgerFits, EntryFits, Unstarted, Approved, Started
<1>5. JournalFits(r)'
    BY DEF JournalFits, ItemFits, InExecution, LedgerFits, EntryFits, Unstarted, Approved,
       Started
<1>6. ExecutorFits(r)' BY DEF ExecutorFits, Opening, InReview, InExecution
<1>7. TerminalFits(r)'
    <2>1. journal.result[r] = "no" 
        BY OpenPhase DEF Opening, InReview
    <2>2. r \notin journal.started
        BY DEF LedgerFits, EntryFits, Unstarted, JournalFits
    <2>3. item[r].decision = "none" /\ item[r].result = "no"
        BY DEF ItemFits
    <2> QED
        BY <2>1, <2>2, <2>3 DEF TerminalFits, EndFits
<1>8. EffectFits(r)' BY DEF EffectFits, Effective
<1>9. ClosureFits(r)'
    BY DEF ClosureFits, SettledOutcome, ItemFits, InExecution, ReviewerFits, LedgerFits,
       EntryFits, Unstarted, Approved, Started
<1>10. PairingFits(r)' BY DEF PairingFits, Settling
<1> QED BY <1>1, <1>2, <1>3, <1>4, <1>5, <1>6, <1>7, <1>8, <1>9, <1>10

\* The governor looks whether the approval it closed is open in governance.
LEMMA ReconcileCheckFits ==
    ASSUME TypeOK, NEW r \in Requests, Fits(r), ReconcileCheck(r)
    PROVE  Fits(r)'
<1> USE ReconcileCheckStep DEF Fits, outside, Becomes, Undelivered
<1>1. PhaseFits(r)' BY DEF PhaseFits, Opening, Settling, InReview, InExecution, Forgotten
<1>2. ItemFits(r)' BY DEF ItemFits, InExecution
<1>3. ReviewerFits(r)' BY DEF ReviewerFits
<1>4. LedgerFits(r)' BY DEF LedgerFits, EntryFits, Unstarted, Approved, Started
<1>5. JournalFits(r)' BY DEF JournalFits
<1>6. ExecutorFits(r)' BY DEF ExecutorFits, Opening, InReview, InExecution
<1>7. TerminalFits(r)' BY DEF TerminalFits, EndFits, Opening, InReview, InExecution
<1>8. EffectFits(r)' BY DEF EffectFits, Effective
<1>9. ClosureFits(r)' BY DEF ClosureFits, SettledOutcome
<1>10. PairingFits(r)' BY DEF PairingFits, Settling
<1> QED BY <1>1, <1>2, <1>3, <1>4, <1>5, <1>6, <1>7, <1>8, <1>9, <1>10

\* The operator answers.
LEMMA OperatorFits ==
    ASSUME TypeOK, NEW r \in Requests, Fits(r), Operator(r)
    PROVE  Fits(r)'
<1> USE OperatorStep DEF Fits, outside, Becomes
<1>1. PhaseFits(r)' BY DEF PhaseFits, Opening, Settling, InReview, InExecution, Forgotten
<1>2. ItemFits(r)' BY DEF ItemFits, InExecution
<1>3. ReviewerFits(r)' BY DEF ReviewerFits
<1>4. LedgerFits(r)' BY DEF LedgerFits, EntryFits, Unstarted, Approved, Started
<1>5. JournalFits(r)' BY DEF JournalFits
<1>6. ExecutorFits(r)' BY DEF ExecutorFits, Opening, InReview, InExecution
<1>7. TerminalFits(r)'
    BY DEF TerminalFits, EndFits, Opening, InReview, InExecution, ItemFits, LedgerFits,
       EntryFits, Unstarted, Approved, Started
<1>8. EffectFits(r)' BY DEF EffectFits, Effective
<1>9. ClosureFits(r)' BY DEF ClosureFits, SettledOutcome
<1>10. PairingFits(r)' BY DEF PairingFits, Settling
<1> QED BY <1>1, <1>2, <1>3, <1>4, <1>5, <1>6, <1>7, <1>8, <1>9, <1>10

\* The operator's decision is put on record.
LEMMA OperatorCommitFits ==
    ASSUME TypeOK, NEW r \in Requests, Fits(r), OperatorCommit(r)
    PROVE  Fits(r)'
<1> USE OperatorCommitStep DEF Fits, outside, Becomes, Writes, Misses, Is
<1>1. PhaseFits(r)' BY DEF PhaseFits, Opening, Settling, InReview, InExecution, Forgotten
<1>2. ItemFits(r)' BY DEF ItemFits, InExecution
<1>3. ReviewerFits(r)' BY DEF ReviewerFits
<1>4. LedgerFits(r)' BY DEF LedgerFits, EntryFits, Unstarted, Approved, Started
<1>5. JournalFits(r)'
    BY DEF JournalFits, ItemFits, InExecution, LedgerFits, EntryFits, Unstarted, Approved,
       Started
<1>6. ExecutorFits(r)' BY DEF ExecutorFits, Opening, InReview, InExecution
<1>7. TerminalFits(r)' BY DEF TerminalFits, EndFits, Opening, InReview, InExecution
<1>8. EffectFits(r)' BY DEF EffectFits, Effective
<1>9. ClosureFits(r)' BY DEF ClosureFits, SettledOutcome, ItemFits, InExecution
<1>10. PairingFits(r)' BY DEF PairingFits, Settling
<1> QED BY <1>1, <1>2, <1>3, <1>4, <1>5, <1>6, <1>7, <1>8, <1>9, <1>10

\* The operator's approval is opened in governance.
LEMMA OperatorAuthorizeFits ==
    ASSUME TypeOK, NEW r \in Requests, Fits(r), OperatorAuthorize(r)
    PROVE  Fits(r)'
<1> USE OperatorAuthorizeStep DEF Fits, outside, Becomes
<1>1. PhaseFits(r)' BY DEF PhaseFits, Opening, Settling, InReview, InExecution, Forgotten
<1>2. ItemFits(r)' BY DEF ItemFits, InExecution
<1>3. ReviewerFits(r)' BY DEF ReviewerFits
<1>4. LedgerFits(r)' BY DEF LedgerFits, EntryFits, Unstarted, Approved, Started
<1>5. JournalFits(r)' BY DEF JournalFits
<1>6. ExecutorFits(r)' BY DEF ExecutorFits, Opening, InReview, InExecution
<1>7. TerminalFits(r)' BY DEF TerminalFits, EndFits, Opening, InReview, InExecution
<1>8. EffectFits(r)' BY DEF EffectFits, Effective
<1>9. ClosureFits(r)' BY DEF ClosureFits, SettledOutcome, ItemFits, InExecution
<1>10. PairingFits(r)' BY DEF PairingFits, Settling
<1> QED BY <1>1, <1>2, <1>3, <1>4, <1>5, <1>6, <1>7, <1>8, <1>9, <1>10

\* A decision reaches the loop.
LEMMA ReviewedFits ==
    ASSUME TypeOK, NEW r \in Requests, Fits(r), Reviewed(r)
    PROVE  Fits(r)'
<1>0. item[r].decision \in {"approve", "deny"}
    BY ReviewedStep DEF Fits, TypeOK, Items, ItemFits
<1> USE ReviewedStep DEF Fits, Becomes
<1>1. PhaseFits(r)' BY DEF PhaseFits, Opening, Settling, InReview, InExecution, Forgotten
<1>2. ItemFits(r)'
    BY <1>0 DEF ItemFits, InExecution
<1>3. ReviewerFits(r)' BY DEF ReviewerFits
<1>4. LedgerFits(r)'
    <2> USE DEF LedgerFits, EntryFits, Unstarted, Approved, Started
    <2>1. ~item[r].started
        BY DEF ItemFits
    <2>2. CASE item[r].decision = "deny"
        BY <2>1, <2>2
    <2>3. CASE item[r].decision = "approve"
        BY <2>1, <2>3
    <2> QED
        BY <1>0, <2>2, <2>3
<1>5. JournalFits(r)' BY DEF JournalFits
<1>6. ExecutorFits(r)' BY DEF ExecutorFits, Opening, InReview, InExecution
<1>7. TerminalFits(r)' BY DEF TerminalFits, EndFits, Opening, InReview, InExecution
<1>8. EffectFits(r)'
    BY DEF EffectFits, Effective, ItemFits, InExecution, ExecutorFits, Opening, InReview
<1>9. ClosureFits(r)' BY DEF ClosureFits, SettledOutcome
<1>10. PairingFits(r)' BY DEF PairingFits, Settling
<1> QED BY <1>1, <1>2, <1>3, <1>4, <1>5, <1>6, <1>7, <1>8, <1>9, <1>10

\* A call is compared with its approval.
LEMMA BeginFits ==
    ASSUME TypeOK, NEW r \in Requests, Fits(r), Begin(r)
    PROVE  Fits(r)'
<1> USE BeginStep DEF Fits, unreviewed, Becomes
<1>1. PhaseFits(r)' BY DEF PhaseFits, Opening, Settling, InReview, InExecution, Forgotten
<1>2. ItemFits(r)' BY DEF ItemFits, InExecution
<1>3. ReviewerFits(r)' BY DEF ReviewerFits
<1>4. LedgerFits(r)' BY DEF LedgerFits, EntryFits, Unstarted, Approved, Started
<1>5. JournalFits(r)' BY DEF JournalFits
<1>6. ExecutorFits(r)' BY DEF ExecutorFits, Opening, InReview, InExecution
<1>7. TerminalFits(r)' BY DEF TerminalFits, EndFits, Opening, InReview, InExecution
<1>8. EffectFits(r)'
    BY DEF EffectFits, Effective, LedgerFits, EntryFits, Unstarted, Approved, Started,
       JournalFits
<1>9. ClosureFits(r)' BY DEF ClosureFits, SettledOutcome
<1>10. PairingFits(r)' BY DEF PairingFits, Settling
<1> QED BY <1>1, <1>2, <1>3, <1>4, <1>5, <1>6, <1>7, <1>8, <1>9, <1>10

\* The start of a call is put on record.
LEMMA StartFits ==
    ASSUME TypeOK, NEW r \in Requests, Fits(r), Start(r)
    PROVE  Fits(r)'
<1> USE StartStep DEF Fits, unreviewed, Becomes, Writes, Misses, Is
<1>1. PhaseFits(r)' BY DEF PhaseFits, Opening, Settling, InReview, InExecution, Forgotten
<1>2. ItemFits(r)' BY DEF ItemFits, InExecution
<1>3. ReviewerFits(r)' BY DEF ReviewerFits
<1>4. LedgerFits(r)'
    <2>1. /\ ledger[r].exec = "no" /\ disk[r].exec = "no" /\ ledger[r].decision = "approve"
          /\ "ledger" \in up => ledger[r] = disk[r]
        BY DEF LedgerFits, EntryFits, Approved
    <2>2. CASE item'[r].pc = "publish"
        <3>1. /\ ledger'[r].exec = "running" /\ ledger'[r].decision = "approve"
              /\ disk'[r] = ledger'[r]
            BY <2>1, <2>2
        <3> QED
            BY <2>2, <3>1 DEF LedgerFits, EntryFits, Unstarted, Approved
    <2>3. CASE item'[r].pc = "result" /\ ~item'[r].started
        BY <2>1, <2>3 DEF LedgerFits, EntryFits, Unstarted, Approved, Started
    <2> QED
        BY <2>2, <2>3
<1>5. JournalFits(r)' BY DEF JournalFits
<1>6. ExecutorFits(r)' BY DEF ExecutorFits, Opening, InReview, InExecution
<1>7. TerminalFits(r)' BY DEF TerminalFits, EndFits, Opening, InReview, InExecution
<1>8. EffectFits(r)'
    BY DEF EffectFits, Effective, LedgerFits, EntryFits, Unstarted, Approved, Started,
       JournalFits
<1>9. ClosureFits(r)' BY DEF ClosureFits, SettledOutcome, ItemFits, InExecution
<1>10. PairingFits(r)' BY DEF PairingFits, Settling
<1> QED BY <1>1, <1>2, <1>3, <1>4, <1>5, <1>6, <1>7, <1>8, <1>9, <1>10

\* The start of a call is put in the journal of the session.
LEMMA PublishFits ==
    ASSUME TypeOK, NEW r \in Requests, Fits(r), Publish(r)
    PROVE  Fits(r)'
<1> USE PublishStep DEF Fits, unreviewed, Becomes
<1>1. PhaseFits(r)' BY DEF PhaseFits, Opening, Settling, InReview, InExecution, Forgotten
<1>2. ItemFits(r)' BY DEF ItemFits, InExecution
<1>3. ReviewerFits(r)' BY DEF ReviewerFits
<1>4. LedgerFits(r)' BY DEF LedgerFits, EntryFits, Unstarted, Approved, Started
<1>5. JournalFits(r)'
    <2>1. disk'[r].exec = "running"
        BY DEF LedgerFits, EntryFits, Started
    <2>2. item[r].pc = "publish" /\ ~item'[r].failed
        BY DEF ItemFits
    <2>3. item'[r].pc = "run" => r \in journal'.started
        OBVIOUS
    <2>4. exec[r] = "idle"
        BY DEF ExecutorFits, Opening, InExecution
    <2> QED
        BY <2>1, <2>2, <2>3, <2>4 DEF JournalFits
<1>6. ExecutorFits(r)' BY DEF ExecutorFits, Opening, InReview, InExecution
<1>7. TerminalFits(r)'
    BY DEF TerminalFits, EndFits, Opening, InReview, InExecution, ItemFits
<1>8. EffectFits(r)' BY DEF EffectFits, Effective
<1>9. ClosureFits(r)' BY DEF ClosureFits, SettledOutcome
<1>10. PairingFits(r)' BY DEF PairingFits, Settling
<1> QED BY <1>1, <1>2, <1>3, <1>4, <1>5, <1>6, <1>7, <1>8, <1>9, <1>10

\* The executor is called.
LEMMA CallFits ==
    ASSUME TypeOK, NEW r \in Requests, Fits(r), Call(r)
    PROVE  Fits(r)'
<1> USE CallStep DEF Fits, unreviewed, Becomes
<1>1. PhaseFits(r)' BY DEF PhaseFits, Opening, Settling, InReview, InExecution, Forgotten
<1>2. ItemFits(r)' BY DEF ItemFits, InExecution
<1>3. ReviewerFits(r)' BY DEF ReviewerFits
<1>4. LedgerFits(r)' BY DEF LedgerFits, EntryFits, Unstarted, Approved, Started
<1>5. JournalFits(r)' BY DEF JournalFits
<1>6. ExecutorFits(r)' BY DEF ExecutorFits, Opening, InReview, InExecution
<1>7. TerminalFits(r)'
    BY DEF TerminalFits, EndFits, Opening, InReview, InExecution, ItemFits
<1>8. EffectFits(r)'
    <2>1. item[r].result = "no" /\ journal'.result[r] = "no"
        BY OpenPhase DEF ItemFits, InExecution, Opening
    <2>2. exec[r] = "idle" /\ r \notin touched
        BY DEF ExecutorFits, EffectFits, Opening, InExecution
    <2> QED
        BY <2>1, <2>2 DEF EffectFits, Effective
<1>9. ClosureFits(r)' BY DEF ClosureFits, SettledOutcome
<1>10. PairingFits(r)' BY DEF PairingFits, Settling
<1> QED BY <1>1, <1>2, <1>3, <1>4, <1>5, <1>6, <1>7, <1>8, <1>9, <1>10

\* The executor changes something.
LEMMA TouchFits ==
    ASSUME TypeOK, NEW r \in Requests, Fits(r), Touch(r)
    PROVE  Fits(r)'
<1> USE DEF Fits, TypeOK, Entries, Effects, Items, Journals, Touch, unreviewed
<1>1. PhaseFits(r)' BY DEF PhaseFits, Opening, Settling, InReview, InExecution, Forgotten
<1>2. ItemFits(r)' BY DEF ItemFits, InExecution
<1>3. ReviewerFits(r)' BY DEF ReviewerFits
<1>4. LedgerFits(r)' BY DEF LedgerFits, EntryFits, Unstarted, Approved, Started
<1>5. JournalFits(r)' BY DEF JournalFits
<1>6. ExecutorFits(r)' BY DEF ExecutorFits, Opening, InReview, InExecution
<1>7. TerminalFits(r)' BY DEF TerminalFits, EndFits, Opening, InReview, InExecution
<1>8. EffectFits(r)' BY DEF EffectFits, Effective
<1>9. ClosureFits(r)' BY DEF ClosureFits, SettledOutcome
<1>10. PairingFits(r)' BY DEF PairingFits, Settling
<1> QED BY <1>1, <1>2, <1>3, <1>4, <1>5, <1>6, <1>7, <1>8, <1>9, <1>10

\* The executor ends.
LEMMA ReturnFits ==
    ASSUME TypeOK, NEW r \in Requests, Fits(r), Return(r)
    PROVE  Fits(r)'
<1> USE ReturnStep DEF Fits, unreviewed, Becomes
<1>1. PhaseFits(r)' BY DEF PhaseFits, Opening, Settling, InReview, InExecution, Forgotten
<1>2. ItemFits(r)' BY DEF ItemFits, InExecution
<1>3. ReviewerFits(r)' BY DEF ReviewerFits
<1>4. LedgerFits(r)' BY DEF LedgerFits, EntryFits, Unstarted, Approved, Started
<1>5. JournalFits(r)' BY DEF JournalFits
<1>6. ExecutorFits(r)' BY DEF ExecutorFits, Opening, InReview, InExecution
<1>7. TerminalFits(r)'
    BY DEF TerminalFits, EndFits, Opening, InReview, InExecution, ItemFits
<1>8. EffectFits(r)' BY DEF EffectFits, Effective
<1>9. ClosureFits(r)' BY DEF ClosureFits, SettledOutcome
<1>10. PairingFits(r)' BY DEF PairingFits, Settling
<1> QED BY <1>1, <1>2, <1>3, <1>4, <1>5, <1>6, <1>7, <1>8, <1>9, <1>10

\* A call is given up.
LEMMA GiveUpFits ==
    ASSUME TypeOK, NEW r \in Requests, Fits(r), GiveUp(r)
    PROVE  Fits(r)'
<1> USE GiveUpStep DEF Fits, unreviewed, Becomes
<1>1. PhaseFits(r)' BY DEF PhaseFits, Opening, Settling, InReview, InExecution, Forgotten
<1>2. ItemFits(r)' BY DEF ItemFits, InExecution
<1>3. ReviewerFits(r)' BY DEF ReviewerFits
<1>4. LedgerFits(r)' BY DEF LedgerFits, EntryFits, Unstarted, Approved, Started
<1>5. JournalFits(r)' BY DEF JournalFits
<1>6. ExecutorFits(r)' BY DEF ExecutorFits, Opening, InReview, InExecution
<1>7. TerminalFits(r)'
    BY DEF TerminalFits, EndFits, Opening, InReview, InExecution, ItemFits
<1>8. EffectFits(r)' BY DEF EffectFits, Effective
<1>9. ClosureFits(r)' BY DEF ClosureFits, SettledOutcome
<1>10. PairingFits(r)' BY DEF PairingFits, Settling
<1> QED BY <1>1, <1>2, <1>3, <1>4, <1>5, <1>6, <1>7, <1>8, <1>9, <1>10

\* A result becomes durable.
LEMMA CommitResultFits ==
    ASSUME TypeOK, NEW r \in Requests, Fits(r), CommitResult(r)
    PROVE  Fits(r)'
<1> USE CommitResultStep DEF Fits, uncommitted, Becomes
<1>1. PhaseFits(r)' BY DEF PhaseFits, Opening, Settling, InReview, InExecution, Forgotten
<1>2. ItemFits(r)' BY DEF ItemFits, InExecution
<1>3. ReviewerFits(r)' BY DEF ReviewerFits
<1>4. LedgerFits(r)' BY DEF LedgerFits, EntryFits, Unstarted, Approved, Started
<1>5. JournalFits(r)'
    BY DEF JournalFits, PhaseFits, Opening, Settling, InReview, InExecution, Forgotten
<1>6. ExecutorFits(r)' BY DEF ExecutorFits, Opening, InReview, InExecution
<1>7. TerminalFits(r)'
    BY DEF TerminalFits, EndFits, Opening, InReview, InExecution, ItemFits, JournalFits
<1>8. EffectFits(r)' BY DEF EffectFits, Effective
<1>9. ClosureFits(r)' BY DEF ClosureFits, SettledOutcome
<1>10. PairingFits(r)' BY DEF PairingFits, Settling
<1> QED BY <1>1, <1>2, <1>3, <1>4, <1>5, <1>6, <1>7, <1>8, <1>9, <1>10

\* The ledger is given its terminal.
LEMMA AccountFits ==
    ASSUME TypeOK, NEW r \in Requests, Fits(r), Account(r)
    PROVE  Fits(r)'
<1> USE AccountStep DEF Fits, uncommitted, Becomes, Writes, Misses, Is
<1>1. PhaseFits(r)' BY DEF PhaseFits, Opening, Settling, InReview, InExecution, Forgotten
<1>2. ItemFits(r)' BY DEF ItemFits, InExecution
<1>3. ReviewerFits(r)' BY DEF ReviewerFits
<1>4. LedgerFits(r)'
    BY DEF LedgerFits, EntryFits, Unstarted, Approved, Started, ItemFits, InExecution
<1>5. JournalFits(r)' BY DEF JournalFits
<1>6. ExecutorFits(r)' BY DEF ExecutorFits, Opening, InReview, InExecution
<1>7. TerminalFits(r)'
    <2>1. journal'.result[r] = item[r].result /\ item[r].result # "no"
        BY DEF JournalFits
    <2>2. item'[r].pc \notin Opening \cup {"commit"}
        BY DEF Opening, InReview, InExecution
    <2>3. ledger[r].exec = "running" /\ disk[r].exec = "running"
        BY DEF ItemFits, LedgerFits, EntryFits, Started
    <2>4. /\ ledger'[r].exec \in {"running", journal'.result[r]}
          /\ disk'[r].exec \in {"running", journal'.result[r]}
        BY <2>1, <2>3
    <2>5. /\ ledger'[r].exec \in {"no", "running", "undelivered", journal'.result[r]}
          /\ disk'[r].exec \in {"no", "running", "undelivered", journal'.result[r]}
          /\ journal'.result[r] # "no"
        BY <2>1, <2>4
    <2>6. ledger'[r].exec # "undelivered" /\ disk'[r].exec # "undelivered"
        BY <2>1, <2>4 DEF TypeOK, Items, Effects
    <2> QED
        BY <2>2, <2>5, <2>6, SettledEnd
<1>8. EffectFits(r)' BY DEF EffectFits, Effective
<1>9. ClosureFits(r)' BY DEF ClosureFits, SettledOutcome, ItemFits, InExecution
<1>10. PairingFits(r)' BY DEF PairingFits, Settling
<1> QED BY <1>1, <1>2, <1>3, <1>4, <1>5, <1>6, <1>7, <1>8, <1>9, <1>10

\* The approval is closed in governance.
LEMMA AccountGovernanceFits ==
    ASSUME TypeOK, NEW r \in Requests, Fits(r), AccountGovernance(r)
    PROVE  Fits(r)'
<1> USE AccountGovernanceStep DEF Fits, uncommitted, Becomes
<1>1. PhaseFits(r)' BY DEF PhaseFits, Opening, Settling, InReview, InExecution, Forgotten
<1>2. ItemFits(r)' BY DEF ItemFits, InExecution
<1>3. ReviewerFits(r)' BY DEF ReviewerFits
<1>4. LedgerFits(r)' BY DEF LedgerFits, EntryFits, Unstarted, Approved, Started
<1>5. JournalFits(r)' BY DEF JournalFits
<1>6. ExecutorFits(r)' BY DEF ExecutorFits, Opening, InReview, InExecution
<1>7. TerminalFits(r)' BY DEF TerminalFits, EndFits, Opening, InReview, InExecution
<1>8. EffectFits(r)' BY DEF EffectFits, Effective
<1>9. ClosureFits(r)' BY DEF ClosureFits, SettledOutcome, ItemFits, InExecution
<1>10. PairingFits(r)' BY DEF PairingFits, Settling
<1> QED BY <1>1, <1>2, <1>3, <1>4, <1>5, <1>6, <1>7, <1>8, <1>9, <1>10

\* A settlement is postponed.
LEMMA PostponeFits ==
    ASSUME TypeOK, NEW r \in Requests, Fits(r), Postpone(r)
    PROVE  Fits(r)'
<1> USE PostponeStep DEF Fits, uncommitted, Becomes
<1>1. PhaseFits(r)' BY DEF PhaseFits, Opening, Settling, InReview, InExecution, Forgotten
<1>2. ItemFits(r)' BY DEF ItemFits, InExecution
<1>3. ReviewerFits(r)' BY DEF ReviewerFits
<1>4. LedgerFits(r)' BY DEF LedgerFits, EntryFits, Unstarted, Approved, Started
<1>5. JournalFits(r)' BY DEF JournalFits, ItemFits, InExecution
<1>6. ExecutorFits(r)' BY DEF ExecutorFits, Opening, InReview, InExecution
<1>7. TerminalFits(r)' BY DEF TerminalFits, EndFits, Opening, InReview, InExecution
<1>8. EffectFits(r)' BY DEF EffectFits, Effective
<1>9. ClosureFits(r)' BY DEF ClosureFits, SettledOutcome
<1>10. PairingFits(r)' BY DEF PairingFits, Settling
<1> QED BY <1>1, <1>2, <1>3, <1>4, <1>5, <1>6, <1>7, <1>8, <1>9, <1>10

\* A postponed settlement is made good.
LEMMA ReconcilePendingFits ==
    ASSUME TypeOK, NEW r \in Requests, Fits(r), ReconcilePending(r)
    PROVE  Fits(r)'
<1> USE ReconcilePendingStep DEF Fits, uncommitted, Misses, Is
<1>1. PhaseFits(r)' BY DEF PhaseFits, Opening, Settling, InReview, InExecution, Forgotten
<1>2. ItemFits(r)' BY DEF ItemFits, InExecution
<1>3. ReviewerFits(r)' BY DEF ReviewerFits
<1>4. LedgerFits(r)'
    BY DEF LedgerFits, EntryFits, Unstarted, Approved, Started, PhaseFits, Opening,
       Settling, InReview, InExecution, Forgotten
<1>5. JournalFits(r)'
    BY DEF JournalFits, ItemFits, InExecution, LedgerFits, EntryFits, Unstarted, Approved,
       Started
<1>6. ExecutorFits(r)' BY DEF ExecutorFits, Opening, InReview, InExecution
<1>7. TerminalFits(r)'
    <2>1. journal.result[r] # "no" /\ journal'.result[r] = journal.result[r]
        BY DEF JournalFits
    <2>2. item'[r].pc \notin Opening \cup {"commit"}
        BY DEF PhaseFits, Opening, InReview, InExecution
    <2>3. {ledger[r].exec, disk[r].exec} \subseteq Effects \cup {"running", "undelivered"}
        BY DEF TypeOK, Entries
    <2>4. /\ ledger[r].exec \in {"no", "running", "undelivered", journal.result[r]}
          /\ ledger[r].exec = "undelivered" => journal.result[r] = "none"
        BY <2>1, <2>3 DEF TerminalFits, EndFits, Effects
    <2>5. /\ disk[r].exec \in {"no", "running", "undelivered", journal.result[r]}
          /\ disk[r].exec = "undelivered" => journal.result[r] = "none"
        BY <2>1, <2>3 DEF TerminalFits, EndFits, Effects
    <2>6. /\ ledger'[r].exec \in {ledger[r].exec, journal.result[r]}
          /\ disk'[r].exec \in {ledger[r].exec, disk[r].exec, journal.result[r]}
        OBVIOUS
    <2>7. /\ ledger'[r].exec \in {"no", "running", "undelivered", journal'.result[r]}
          /\ disk'[r].exec \in {"no", "running", "undelivered", journal'.result[r]}
          /\ journal'.result[r] # "no"
        BY <2>1, <2>4, <2>5, <2>6
    <2>8. journal.result[r] # "undelivered"
        BY DEF TypeOK, Journals, Effects
    <2>9. "undelivered" \in {ledger'[r].exec, disk'[r].exec} => journal'.result[r] = "none"
        BY <2>1, <2>4, <2>5, <2>6, <2>8
    <2> QED
        BY <2>2, <2>7, <2>9, SettledEnd
<1>8. EffectFits(r)' BY DEF EffectFits, Effective
<1>9. ClosureFits(r)'
    BY DEF PhaseFits, Opening, Settling, InReview, InExecution, Forgotten, ItemFits,
       ReviewerFits, LedgerFits, EntryFits, Unstarted, Approved, Started, JournalFits,
       ClosureFits, SettledOutcome
<1>10. PairingFits(r)' BY DEF PairingFits, Settling
<1> QED BY <1>1, <1>2, <1>3, <1>4, <1>5, <1>6, <1>7, <1>8, <1>9, <1>10

----------------------------------------------------------------------------
(* The steps of the batch and of its process. *)

\* A call of a cancelled turn gets a result when it has none.
LEMMA CancelledFields ==
    ASSUME NEW r \in Requests, item[r] \in Items
    PROVE  /\ Cancelled(r) \in Items
           /\ Cancelled(r).decision = item[r].decision /\ Cancelled(r).failed = item[r].failed
           /\ Cancelled(r).started = item[r].started
           /\ item[r].result = "no" => Cancelled(r).result = "none"
           /\ item[r].result # "no" => Cancelled(r).result = item[r].result
<1>1. CASE item[r].result = "no"
    BY <1>1 DEF Cancelled, Items, Effects
<1>2. CASE item[r].result # "no"
    BY <1>2 DEF Cancelled
<1> QED
    BY <1>1, <1>2

\* An approved call without a result gets one, which owns up to one that was lost.
LEMMA PairedFields ==
    ASSUME NEW r \in Requests, item[r] \in Items
    PROVE  /\ Paired(r) \in Items
           /\ Paired(r).decision = item[r].decision /\ Paired(r).failed = item[r].failed
           /\ \/ /\ item[r].decision = "approve" /\ item[r].result = "no" /\ item[r].pc = "lost"
                 /\ Paired(r).result = "unknown" /\ Paired(r).started = TRUE
              \/ /\ item[r].decision = "approve" /\ item[r].result = "no"
                 /\ Paired(r).result = "none" /\ Paired(r).started = FALSE
              \/ /\ ~(item[r].decision = "approve" /\ item[r].result = "no")
                 /\ Paired(r) = item[r]
<1>1. CASE item[r].decision = "approve" /\ item[r].result = "no" /\ item[r].pc = "lost"
    <2>1. Paired(r) = [item[r] EXCEPT !.result = "unknown", !.started = TRUE]
        BY <1>1 DEF Paired
    <2> QED
        BY <1>1, <2>1 DEF Items, Effects
<1>2. CASE item[r].decision = "approve" /\ item[r].result = "no" /\ item[r].pc # "lost"
    <2>1. Paired(r) = [item[r] EXCEPT !.result = "none", !.started = FALSE]
        BY <1>2 DEF Paired
    <2> QED
        BY <1>2, <2>1 DEF Items, Effects
<1>3. CASE ~(item[r].decision = "approve" /\ item[r].result = "no")
    BY <1>3 DEF Paired
<1> QED
    BY <1>1, <1>2, <1>3

\* Settle: an open call is taken to its commit; one without a result may get one.
LEMMA SettleStep ==
    ASSUME TypeOK, NEW r \in Requests, Settle
    PROVE  /\ turn = "open" /\ turn' = "settle"
           /\ item[r].pc \notin InReview \cup InExecution
           /\ UNCHANGED <<readOnly, reviewer, ledger, disk, gov, journal, pending, up, exec, touched>>
           /\ item'[r].pc = "commit" /\ item'[r].decision = item[r].decision
           /\ item'[r].failed = item[r].failed
           /\ \/ /\ item'[r].result = item[r].result /\ item'[r].started = item[r].started
                 /\ item[r].decision = "approve" /\ item[r].result = "no" => item[r].pc = "result"
              \/ /\ item[r].result = "no" /\ item'[r].result = "none"
                 /\ item'[r].started \in {item[r].started, FALSE}
              \/ /\ item[r].result = "no" /\ item'[r].result = "unknown" /\ item'[r].started
                 /\ item[r].pc = "lost"
<1> DEFINE i == IF cancelled THEN Cancelled(r) ELSE IF thrown THEN Paired(r) ELSE item[r]
<1>1. item[r] \in Items
    BY DEF TypeOK
<1>2. item'[r] = [i EXCEPT !.pc = "commit"]
    BY DEF Settle
<1>3. /\ i \in Items
      /\ i.decision = item[r].decision /\ i.failed = item[r].failed
      /\ \/ /\ i.result = item[r].result /\ i.started = item[r].started
            /\ item[r].decision = "approve" /\ item[r].result = "no" => ~cancelled /\ ~thrown
         \/ /\ item[r].result = "no" /\ i.result = "none"
            /\ i.started \in {item[r].started, FALSE}
         \/ /\ item[r].result = "no" /\ i.result = "unknown" /\ i.started
            /\ item[r].pc = "lost"
    <2>1. CASE cancelled
        BY <1>1, <2>1, CancelledFields
    <2>2. CASE ~cancelled /\ thrown
        <3>1. i = Paired(r)
            BY <2>2
        <3> HIDE DEF i
        <3> QED
            BY <1>1, <2>2, <3>1, PairedFields
    <2>3. CASE ~cancelled /\ ~thrown
        BY <1>1, <2>3
    <2> QED
        BY <2>1, <2>2, <2>3
<1>4. /\ turn = "open" /\ turn' = "settle" /\ item[r].pc \notin InReview \cup InExecution
      /\ UNCHANGED <<readOnly, reviewer, ledger, disk, gov, journal, pending, up, exec, touched>>
    BY DEF Settle, Busy
<1>5. ~cancelled /\ ~thrown => item[r].pc = "result"
    BY DEF Settle
<1> HIDE DEF i
<1>6. /\ item'[r].pc = "commit" /\ item'[r].decision = i.decision /\ item'[r].result = i.result
      /\ item'[r].started = i.started /\ item'[r].failed = i.failed
    BY <1>2, <1>3 DEF Items
<1> QED
    BY <1>3, <1>4, <1>5, <1>6

\* Crash: the process forgets its calls; the ledger is what its journal holds.
LEMMA CrashStep ==
    ASSUME TypeOK, NEW r \in Requests, Crash
    PROVE  /\ turn' \in {"interrupted", "stopped"} /\ Forgotten(r)' /\ ledger'[r] = disk[r]
           /\ pending' = {} /\ UNCHANGED <<readOnly, disk, gov, journal, up, exec, touched>>
<1>1. /\ Sealed.decision = "none" /\ Sealed.result = "no"
      /\ ~Sealed.started /\ ~Sealed.failed /\ Sealed \in Items
    BY DEF Sealed, Items, Effects
<1>2. /\ item'[r].pc = "finished" /\ item'[r].decision = "none" /\ item'[r].result = "no"
      /\ ~item'[r].started /\ ~item'[r].failed
    BY <1>1 DEF Crash, Items
<1>3. /\ reviewer'[r] = "off" /\ ledger'[r] = disk[r] /\ disk'[r] = disk[r] 
    BY DEF Crash
<1>4. /\ turn' \in {"interrupted", "stopped"}
      /\ pending' = {} /\ UNCHANGED <<readOnly, disk, gov, journal, up, exec, touched>>
    BY DEF Crash
<1> QED
    BY <1>2, <1>3, <1>4 DEF Forgotten

\* The batch is settled: what was started and has no result gets one that owns up to it.
LEMMA SettleFits ==
    ASSUME TypeOK, NEW r \in Requests, Fits(r), Settle
    PROVE  Fits(r)'
<1> USE SettleStep DEF Fits
<1>1. PhaseFits(r)' BY DEF PhaseFits, Opening, Settling, InReview, InExecution, Forgotten
<1>2. ItemFits(r)' BY DEF ItemFits, InExecution
<1>3. ReviewerFits(r)'
    BY DEF ReviewerFits, PhaseFits, Opening, Settling, InReview, InExecution, Forgotten
<1>4. LedgerFits(r)'
    <2>1. ~Approved(r)'
        BY DEF Approved
    <2>2. Started(r)' => Started(r)
        <3>1. item[r].started => item[r].pc = "result"
            BY DEF PhaseFits, ItemFits, Opening, InReview, InExecution
        <3> QED
            BY <3>1 DEF Started
    <2> QED
        BY <2>1, <2>2 DEF LedgerFits, EntryFits, Unstarted
<1>5. JournalFits(r)' BY DEF JournalFits
<1>6. ExecutorFits(r)'
    BY DEF ExecutorFits, Opening, InReview, InExecution, PhaseFits, Settling, Forgotten,
       ItemFits
<1>7. TerminalFits(r)'
    BY DEF TerminalFits, EndFits, Opening, InReview, InExecution, PhaseFits, Settling,
       Forgotten, ItemFits
<1>8. EffectFits(r)'
    BY DEF EffectFits, Effective, PhaseFits, Opening, Settling, InReview, InExecution,
       Forgotten, ItemFits, JournalFits, ExecutorFits
<1>9. ClosureFits(r)'
    BY DEF ClosureFits, SettledOutcome, PhaseFits, Opening, Settling, InReview,
       InExecution, Forgotten
<1>10. PairingFits(r)' BY DEF PairingFits, Settling, ItemFits, InExecution
<1> QED BY <1>1, <1>2, <1>3, <1>4, <1>5, <1>6, <1>7, <1>8, <1>9, <1>10

\* The batch is over.
LEMMA OverFits ==
    ASSUME TypeOK, NEW r \in Requests, Fits(r), Over
    PROVE  Fits(r)'
<1> USE DEF Fits, TypeOK, Journals, Over, uncommitted
<1>1. PhaseFits(r)' BY DEF PhaseFits, Opening, Settling, InReview, InExecution, Forgotten
<1>2. ItemFits(r)' BY DEF ItemFits, InExecution
<1>3. ReviewerFits(r)' BY DEF ReviewerFits
<1>4. LedgerFits(r)' BY DEF LedgerFits, EntryFits, Unstarted, Approved, Started
<1>5. JournalFits(r)' BY DEF JournalFits
<1>6. ExecutorFits(r)' BY DEF ExecutorFits, Opening, InReview, InExecution
<1>7. TerminalFits(r)' BY DEF TerminalFits, EndFits, Opening, InReview, InExecution
<1>8. EffectFits(r)' BY DEF EffectFits, Effective
<1>9. ClosureFits(r)' BY DEF ClosureFits, SettledOutcome
<1>10. PairingFits(r)' BY DEF PairingFits, Settling
<1> QED BY <1>1, <1>2, <1>3, <1>4, <1>5, <1>6, <1>7, <1>8, <1>9, <1>10

\* The turn is cancelled.
LEMMA CancelFits ==
    ASSUME TypeOK, NEW r \in Requests, Fits(r), Cancel
    PROVE  Fits(r)'
<1> USE DEF Fits, TypeOK, Journals, Cancel
<1>1. PhaseFits(r)' BY DEF PhaseFits, Opening, Settling, InReview, InExecution, Forgotten
<1>2. ItemFits(r)' BY DEF ItemFits, InExecution
<1>3. ReviewerFits(r)' BY DEF ReviewerFits
<1>4. LedgerFits(r)' BY DEF LedgerFits, EntryFits, Unstarted, Approved, Started
<1>5. JournalFits(r)' BY DEF JournalFits
<1>6. ExecutorFits(r)' BY DEF ExecutorFits, Opening, InReview, InExecution
<1>7. TerminalFits(r)' BY DEF TerminalFits, EndFits, Opening, InReview, InExecution
<1>8. EffectFits(r)' BY DEF EffectFits, Effective
<1>9. ClosureFits(r)' BY DEF ClosureFits, SettledOutcome
<1>10. PairingFits(r)' BY DEF PairingFits, Settling
<1> QED BY <1>1, <1>2, <1>3, <1>4, <1>5, <1>6, <1>7, <1>8, <1>9, <1>10

\* What the approvals were given for changes.
LEMMA DriftFits ==
    ASSUME TypeOK, NEW r \in Requests, Fits(r), Drift
    PROVE  Fits(r)'
<1> USE DEF Fits, TypeOK, Journals, Drift
<1>1. PhaseFits(r)' BY DEF PhaseFits, Opening, Settling, InReview, InExecution, Forgotten
<1>2. ItemFits(r)' BY DEF ItemFits, InExecution
<1>3. ReviewerFits(r)' BY DEF ReviewerFits
<1>4. LedgerFits(r)' BY DEF LedgerFits, EntryFits, Unstarted, Approved, Started
<1>5. JournalFits(r)' BY DEF JournalFits
<1>6. ExecutorFits(r)' BY DEF ExecutorFits, Opening, InReview, InExecution
<1>7. TerminalFits(r)' BY DEF TerminalFits, EndFits, Opening, InReview, InExecution
<1>8. EffectFits(r)' BY DEF EffectFits, Effective
<1>9. ClosureFits(r)' BY DEF ClosureFits, SettledOutcome
<1>10. PairingFits(r)' BY DEF PairingFits, Settling
<1> QED BY <1>1, <1>2, <1>3, <1>4, <1>5, <1>6, <1>7, <1>8, <1>9, <1>10

\* The process dies and forgets its calls; what its journals hold fits.
LEMMA CrashFits ==
    ASSUME TypeOK, NEW r \in Requests, Fits(r), Crash
    PROVE  Fits(r)'
<1> USE CrashStep DEF Fits, Forgotten
<1>1. PhaseFits(r)' BY DEF PhaseFits, Opening, Settling, InReview, InExecution, Forgotten
<1>2. ItemFits(r)' BY DEF ItemFits, InExecution
<1>3. ReviewerFits(r)' BY DEF ReviewerFits
<1>4. LedgerFits(r)' BY DEF LedgerFits, EntryFits, Unstarted, Approved, Started
<1>5. JournalFits(r)' BY DEF JournalFits
<1>6. ExecutorFits(r)' BY DEF ExecutorFits, Opening, InReview, InExecution
<1>7. TerminalFits(r)' BY DEF TerminalFits, EndFits, Opening, InReview, InExecution
<1>8. EffectFits(r)' BY DEF EffectFits, Effective
<1>9. ClosureFits(r)' BY DEF ClosureFits, SettledOutcome
<1>10. PairingFits(r)' BY DEF PairingFits, Settling
<1> QED BY <1>1, <1>2, <1>3, <1>4, <1>5, <1>6, <1>7, <1>8, <1>9, <1>10

\* The session is restored; a call that was started gets a result that owns up to it.
LEMMA RestartFits ==
    ASSUME TypeOK, NEW r \in Requests, Fits(r), Restart
    PROVE  Fits(r)'
<1> USE DEF Fits, TypeOK, Journals, Restart, Repair
<1>1. PhaseFits(r)' BY DEF PhaseFits, Opening, Settling, InReview, InExecution, Forgotten
<1>2. ItemFits(r)' BY DEF ItemFits, InExecution
<1>3. ReviewerFits(r)'
    BY DEF ReviewerFits, PhaseFits, Opening, Settling, InReview, InExecution, Forgotten
<1>4. LedgerFits(r)'
    BY DEF LedgerFits, EntryFits, Unstarted, Approved, Started, PhaseFits, Opening,
       Settling, InReview, InExecution, Forgotten
<1>5. JournalFits(r)'
    BY DEF JournalFits, PhaseFits, Opening, Settling, InReview, InExecution, Forgotten
<1>6. ExecutorFits(r)' BY DEF ExecutorFits, Opening, InReview, InExecution
<1>7. TerminalFits(r)' BY DEF TerminalFits, EndFits, Opening, InReview, InExecution
<1>8. EffectFits(r)' BY DEF EffectFits, Effective, ItemFits, InExecution, JournalFits
<1>9. ClosureFits(r)'
    BY DEF ClosureFits, SettledOutcome, PhaseFits, Opening, Settling, InReview,
       InExecution, Forgotten
<1>10. PairingFits(r)'
    BY DEF PairingFits, Settling, PhaseFits, Opening, InReview, InExecution, Forgotten
<1> QED BY <1>1, <1>2, <1>3, <1>4, <1>5, <1>6, <1>7, <1>8, <1>9, <1>10

----------------------------------------------------------------------------
(* The types of the calls, the entries and the journal. *)

Typed ==
    /\ item \in [Requests -> Items] /\ journal \in Journals
    /\ ledger \in [Requests -> Entries] /\ disk \in [Requests -> Entries]

\* A call that moves on is a call.
LEMMA GotoTyped ==
    ASSUME TypeOK, NEW r \in Requests, NEW pc \in Opening \cup Settling, Goto(r, pc)
    PROVE  item' \in [Requests -> Items]
<1> DEFINE i == [item[r] EXCEPT !.pc = pc]
<1>1. item[r] \in Items /\ item \in [Requests -> Items]
    BY DEF TypeOK
<1>2. i \in Items
    BY <1>1 DEF Items, Opening, Settling
<1>3. item' = [item EXCEPT ![r] = i]
    BY DEF Goto
<1> QED
    BY <1>1, <1>2, <1>3

\* So is one that is decided on its way.
LEMMA DecisionTyped ==
    ASSUME TypeOK, NEW r \in Requests, NEW pc \in Opening \cup Settling,
           NEW d \in {"none", "approve", "deny"},
           item' = [item EXCEPT ![r].pc = pc, ![r].decision = d]
    PROVE  item' \in [Requests -> Items]
<1> DEFINE i == [item[r] EXCEPT !.pc = pc, !.decision = d]
<1>1. item[r] \in Items /\ item \in [Requests -> Items]
    BY DEF TypeOK
<1>2. i \in Items
    BY <1>1 DEF Items, Opening, Settling
<1>3. item' = [item EXCEPT ![r] = i]
    OBVIOUS
<1> QED
    BY <1>1, <1>2, <1>3

\* And one that has its result.
LEMMA ResultTyped ==
    ASSUME TypeOK, NEW r \in Requests, NEW x \in Effects, NEW s \in BOOLEAN, Result(r, x, s)
    PROVE  item' \in [Requests -> Items]
<1> DEFINE i == [item[r] EXCEPT !.pc = "result", !.result = x, !.started = s]
<1>1. item[r] \in Items /\ item \in [Requests -> Items]
    BY DEF TypeOK
<1>2. i \in Items
    BY <1>1 DEF Items
<1>3. item' = [item EXCEPT ![r] = i]
    BY DEF Result
<1> QED
    BY <1>1, <1>2, <1>3

\* A call that throws or is denied.
LEMMA StoppedTyped ==
    ASSUME TypeOK, NEW r \in Requests, Throw(r) \/ Deny(r)
    PROVE  item' \in [Requests -> Items]
<1>1. "stopped" \in Opening \cup Settling /\ "decided" \in Opening \cup Settling
    BY DEF Opening, InReview
<1> QED
    BY <1>1, GotoTyped, DecisionTyped DEF Throw, Deny

\* Entries that differ from one in the ledger in a field are entries.
LEMMA EntryTyped ==
    ASSUME NEW e \in Entries
    PROVE  /\ [e EXCEPT !.proposed = TRUE] \in Entries
           /\ \A d \in {"none", "approve", "deny", "escalate"} : [e EXCEPT !.decision = d] \in Entries
           /\ \A x \in Effects \cup {"running", "undelivered"} : [e EXCEPT !.exec = x] \in Entries
BY DEF Entries

\* What is written of an entry, or fails to be, keeps the ledger a ledger.
LEMMA RecordTyped ==
    ASSUME TypeOK, NEW r \in Requests, NEW e \in Entries,
           Record(r, e) \/ RecordThrows(r, e) \/ SecondThrows(r, e)
    PROVE  ledger' \in [Requests -> Entries] /\ disk' \in [Requests -> Entries]
<1> DEFINE f == [ledger[r] EXCEPT !.exec = "running"]
<1>1. /\ ledger \in [Requests -> Entries] /\ disk \in [Requests -> Entries]
      /\ ledger[r] \in Entries
    BY DEF TypeOK
<1>2. f \in Entries
    BY <1>1, EntryTyped
<1>3. CASE Record(r, e)
    BY <1>1, <1>3 DEF Record
<1>4. CASE RecordThrows(r, e)
    BY <1>1, <1>4 DEF RecordThrows
<1>5. CASE SecondThrows(r, e)
    <2>1. ledger' = [ledger EXCEPT ![r] = f]
        BY <1>5 DEF SecondThrows
    <2>2. disk' \in {[disk EXCEPT ![r] = f], [disk EXCEPT ![r] = e]}
        BY <1>1, <1>5, <2>1 DEF SecondThrows
    <2> QED
        BY <1>1, <1>2, <2>1, <2>2
<1> QED
    BY <1>3, <1>4, <1>5
\* No step of a call makes anything else of it.
LEMMA ItemTyped ==
    ASSUME TypeOK, NEW r \in Requests, Act(r)
    PROVE  item' \in [Requests -> Items]
<1> USE DEF Opening, Settling, InReview, InExecution
<1>1. CASE Propose(r)
    BY <1>1 DEF Propose, TypeOK
<1>2. CASE Commit(r)
    BY <1>2 DEF Commit, TypeOK
<1>3. CASE Authorize(r)
    BY <1>3 DEF Authorize, TypeOK
<1>4. CASE Check(r)
    BY <1>4 DEF Check, TypeOK
<1>5. CASE ReviewStart(r)
    BY <1>5, GotoTyped DEF ReviewStart
<1>6. CASE ReviewGivenUp(r)
    <2> DEFINE i == [item[r] EXCEPT !.pc = "reconcile", !.failed = TRUE]
    <2>1. item[r] \in Items /\ item \in [Requests -> Items]
        BY DEF TypeOK
    <2>2. i \in Items
        BY <2>1 DEF Items
    <2>3. item' = [item EXCEPT ![r] = i]
        BY <1>6 DEF ReviewGivenUp
    <2> QED
        BY <2>1, <2>2, <2>3
<1>7. CASE Deliver(r)
    BY <1>7, DecisionTyped, GotoTyped DEF Deliver, Goto
<1>8. CASE PolicyDenial(r)
    BY <1>8, StoppedTyped DEF PolicyDenial
<1>9. CASE Reconcile(r)
    BY <1>9, GotoTyped, StoppedTyped DEF Reconcile
<1>10. CASE ReconcileCheck(r)
    BY <1>10, StoppedTyped DEF ReconcileCheck
<1>11. CASE Operator(r)
    BY <1>11, DecisionTyped, StoppedTyped DEF Operator
<1>12. CASE OperatorCommit(r)
    <2>1. item[r].decision \in {"none", "approve", "deny"}
        BY DEF TypeOK, Items
    <2> QED
        BY <1>12, GotoTyped, DecisionTyped DEF OperatorCommit
<1>13. CASE OperatorAuthorize(r)
    BY <1>13, GotoTyped, DecisionTyped DEF OperatorAuthorize
<1>14. CASE Reviewed(r)
    <2> DEFINE i(pc, x) == [item[r] EXCEPT !.pc = pc, !.result = x]
    <2>1. item[r] \in Items /\ item \in [Requests -> Items]
        BY DEF TypeOK
    <2>2. i("result", "none") \in Items /\ i("ready", "no") \in Items /\ i("stopped", "no") \in Items
        BY <2>1 DEF Items, Effects
    <2>3. \/ item' = [item EXCEPT ![r] = i("result", "none")]
          \/ item' = [item EXCEPT ![r] = i("ready", "no")]
          \/ item' = [item EXCEPT ![r] = i("stopped", "no")]
        BY <1>14 DEF Reviewed
    <2> HIDE DEF i
    <2> QED
        BY <2>1, <2>2, <2>3
<1>15. CASE Begin(r)
    BY <1>15, GotoTyped, ResultTyped DEF Begin, Effects
<1>16. CASE Start(r)
    BY <1>16, GotoTyped, ResultTyped DEF Start, Effects
<1>17. CASE Publish(r)
    BY <1>17, GotoTyped, StoppedTyped DEF Publish
<1>18. CASE Call(r)
    BY <1>18, GotoTyped, ResultTyped DEF Call, Uncertain, Effects
<1>19. CASE Touch(r)
    BY <1>19 DEF Touch, TypeOK
<1>20. CASE Return(r)
    <2>1. item \in [Requests -> Items]
        BY DEF TypeOK
    <2> QED
        BY <1>20, <2>1, ResultTyped DEF Return, Uncertain, Effects
<1>21. CASE GiveUp(r)
    BY <1>21, ResultTyped DEF GiveUp, Uncertain, Effects
<1>22. CASE CommitResult(r)
    BY <1>22, GotoTyped DEF CommitResult
<1>23. CASE Account(r)
    BY <1>23, GotoTyped DEF Account
<1>24. CASE AccountGovernance(r)
    BY <1>24, GotoTyped DEF AccountGovernance
<1>25. CASE Postpone(r)
    BY <1>25, GotoTyped DEF Postpone
<1>26. CASE ReconcilePending(r)
    BY <1>26 DEF ReconcilePending, TypeOK
<1> QED BY <1>1, <1>2, <1>3, <1>4, <1>5, <1>6, <1>7, <1>8, <1>9, <1>10, <1>11, <1>12,
   <1>13, <1>14, <1>15, <1>16, <1>17, <1>18, <1>19, <1>20, <1>21, <1>22, <1>23, <1>24,
   <1>25, <1>26 DEF Act

\* Nor anything else of an entry.
LEMMA EntriesTyped ==
    ASSUME TypeOK, NEW r \in Requests, Act(r)
    PROVE  ledger' \in [Requests -> Entries] /\ disk' \in [Requests -> Entries]
<1>0. /\ ledger \in [Requests -> Entries] /\ disk \in [Requests -> Entries]
      /\ ledger[r] \in Entries /\ item[r] \in Items /\ journal.result[r] \in Effects
    BY DEF TypeOK, Journals
<1>a. /\ item[r].decision \in {"none", "approve", "deny"} /\ item[r].result \in Effects
       /\ ledger[r].exec \in Effects \cup {"running", "undelivered"}
    BY <1>0 DEF Items, Entries
<1>1. CASE Propose(r)
    BY <1>0, <1>a, <1>1, EntryTyped, RecordTyped DEF Propose
<1>2. CASE Commit(r)
    BY <1>0, <1>a, <1>2, EntryTyped, RecordTyped DEF Commit
<1>3. CASE PolicyDenial(r)
    <2>1. [ledger[r] EXCEPT !.exec = "none"] \in Entries
        BY <1>0, EntryTyped DEF Effects
    <2>2. [[ledger[r] EXCEPT !.exec = "none"] EXCEPT !.exec = "running"] \in Entries
        BY <2>1, EntryTyped
    <2> QED
        BY <1>3, <2>1, <2>2, RecordTyped DEF PolicyDenial
<1>4. CASE Reconcile(r)
    <2>1. Reconciled(ledger[r]) \in Entries
        BY <1>0, EntryTyped DEF Reconciled
    <2>2. [Reconciled(ledger[r]) EXCEPT !.exec = "running"] \in Entries
        BY <2>1, EntryTyped
    <2> QED
        BY <1>0, <1>4, <2>1, <2>2, RecordTyped DEF Reconcile
<1>5. CASE OperatorCommit(r)
    BY <1>0, <1>a, <1>5, EntryTyped, RecordTyped DEF OperatorCommit
<1>6. CASE Start(r)
    BY <1>0, <1>a, <1>6, EntryTyped, RecordTyped DEF Start
<1>7. CASE Account(r)
    BY <1>0, <1>a, <1>7, EntryTyped, RecordTyped DEF Account
<1>8. CASE ReconcilePending(r)
    <2> DEFINE e == [ledger[r] EXCEPT !.exec = IF @ = "running" THEN journal.result[r] ELSE @]
    <2>1. e \in Entries
        BY <1>0, <1>a DEF Entries
    <2>2. \/ RecordThrows(r, e)
          \/ ledger' = [ledger EXCEPT ![r] = e] /\ disk' = [disk EXCEPT ![r] = e]
        BY <1>8 DEF ReconcilePending
    <2> HIDE DEF e
    <2> QED
        BY <1>0, <2>1, <2>2, RecordTyped
<1>9. CASE UNCHANGED <<ledger, disk>>
    BY <1>0, <1>9
<1> QED BY <1>1, <1>2, <1>3, <1>4, <1>5, <1>6, <1>7, <1>8, <1>9 DEF Act, Authorize, Check,
   ReviewStart, ReviewGivenUp, Deliver, ReconcileCheck, Operator, OperatorAuthorize,
   Reviewed, Begin, Publish, Call, Touch, Return, GiveUp, CommitResult, AccountGovernance,
   Postpone

\* Nor of the journal of the session.
LEMMA JournalTyped ==
    ASSUME TypeOK, NEW r \in Requests, Act(r)
    PROVE  journal' \in Journals
<1>0. journal \in Journals /\ item[r].result \in Effects
    BY DEF TypeOK, Items
<1>1. CASE Reviewed(r)
    BY <1>0, <1>1 DEF Journals, Reviewed, Persist, PersistThrows
<1>2. CASE Publish(r)
    BY <1>0, <1>2 DEF Journals, Publish, Persist, PersistThrows
<1>3. CASE CommitResult(r)
    <2> DEFINE x == [journal.result EXCEPT ![r] = item[r].result]
               j == [journal EXCEPT !.result = x]
    <2>1. x \in [Requests -> Effects]
        BY <1>0 DEF Journals
    <2>2. j \in Journals
        BY <1>0, <2>1 DEF Journals
    <2>3. journal' \in {journal, j}
        BY <1>3 DEF CommitResult, Persist, PersistThrows
    <2> QED
        BY <1>0, <2>2, <2>3
<1>4. CASE Postpone(r)
    BY <1>0, <1>4 DEF Journals, Postpone, Persist, PersistThrows
<1>5. CASE ReconcilePending(r)
    BY <1>0, <1>5 DEF Journals, ReconcilePending, Persist, PersistThrows
<1>6. CASE UNCHANGED journal
    BY <1>0, <1>6
<1> QED BY <1>1, <1>2, <1>3, <1>4, <1>5, <1>6 DEF Act, outside, uncommitted, unreviewed,
   Propose, Commit, Authorize, Check, ReviewStart, ReviewGivenUp, Deliver, PolicyDenial,
   Reconcile, ReconcileCheck, Operator, OperatorCommit, OperatorAuthorize, Begin, Start,
   Call, Touch, Return, GiveUp, Account, AccountGovernance

\* The types of the other variables.
Plain ==
    /\ turn \in {"open", "settle", "over", "interrupted", "stopped"}
    /\ par \in BOOLEAN /\ readOnly \subseteq Requests
    /\ reviewer \in [Requests -> {"off", "propose", "commit", "authorize", "check",
                                  "recheck", "done", "failed"}]
    /\ gov \in [Requests -> {"none", "open", "closed"}]
    /\ pending \subseteq Requests /\ up \subseteq {"ledger", "gov", "session"}
    /\ cancelled \in BOOLEAN /\ thrown \in BOOLEAN /\ drift \in BOOLEAN
    /\ exec \in [Requests -> {"idle", "running", "ended"}]
    /\ touched \subseteq Requests /\ crashes \in 0 .. MaxCrashes

\* The steps of a call respect them.
LEMMA PlainTyped ==
    ASSUME TypeOK, NEW r \in Requests, Act(r)
    PROVE  Plain'
<1>0. Plain
    BY DEF TypeOK, Plain
<1> USE <1>0 DEF Plain
<1>1. CASE Propose(r)
    BY <1>1 DEF Propose, Record, Review, RecordThrows, outside
<1>2. CASE Commit(r)
    BY <1>2 DEF Commit, Review, Record, RecordThrows, outside
<1>3. CASE Authorize(r)
    BY <1>3 DEF Authorize, Govern, Review, GovernThrows, outside
<1>4. CASE Check(r)
    BY <1>4 DEF Check, SettleUndelivered, Govern, Review, GovernThrows, outside
<1>5. CASE ReviewStart(r)
    BY <1>5 DEF ReviewStart, Review, outside
<1>6. CASE ReviewGivenUp(r)
    BY <1>6 DEF ReviewGivenUp, outside
<1>7. CASE Deliver(r)
    BY <1>7 DEF Deliver, outside
<1>8. CASE PolicyDenial(r)
    BY <1>8 DEF PolicyDenial, Record, Deny, RecordThrows, SecondThrows, Throw, outside
<1>9. CASE Reconcile(r)
    BY <1>9 DEF Reconcile, Record, RecordThrows, Throw, SecondThrows, outside
<1>10. CASE ReconcileCheck(r)
    BY <1>10 DEF ReconcileCheck, SettleUndelivered, Govern, Deny, GovernThrows, Throw,
       outside
<1>11. CASE Operator(r)
    BY <1>11 DEF Operator, Throw, outside
<1>12. CASE OperatorCommit(r)
    BY <1>12 DEF OperatorCommit, Record, RecordThrows, outside
<1>13. CASE OperatorAuthorize(r)
    BY <1>13 DEF OperatorAuthorize, Govern, GovernThrows, outside
<1>14. CASE Reviewed(r)
    BY <1>14 DEF Reviewed, Persist, PersistThrows
<1>15. CASE Begin(r)
    BY <1>15 DEF Begin, unreviewed
<1>16. CASE Start(r)
    BY <1>16 DEF Start, Record, RecordThrows, unreviewed
<1>17. CASE Publish(r)
    BY <1>17 DEF Publish, Persist, PersistThrows, Throw, unreviewed
<1>18. CASE Call(r)
    BY <1>18 DEF Call, unreviewed
<1>19. CASE Touch(r)
    BY <1>19 DEF Touch, unreviewed
<1>20. CASE Return(r)
    BY <1>20 DEF Return, unreviewed
<1>21. CASE GiveUp(r)
    BY <1>21 DEF GiveUp, unreviewed
<1>22. CASE CommitResult(r)
    BY <1>22 DEF CommitResult, Persist, PersistThrows, uncommitted
<1>23. CASE Account(r)
    BY <1>23 DEF Account, Record, RecordThrows, uncommitted
<1>24. CASE AccountGovernance(r)
    BY <1>24 DEF AccountGovernance, Govern, GovernThrows, uncommitted
<1>25. CASE Postpone(r)
    BY <1>25 DEF Postpone, Persist, PersistThrows, uncommitted
<1>26. CASE ReconcilePending(r)
    BY <1>26 DEF ReconcilePending, RecordThrows, GovernThrows, PersistThrows, Persist,
       uncommitted
<1> QED BY <1>1, <1>2, <1>3, <1>4, <1>5, <1>6, <1>7, <1>8, <1>9, <1>10, <1>11, <1>12,
   <1>13, <1>14, <1>15, <1>16, <1>17, <1>18, <1>19, <1>20, <1>21, <1>22, <1>23, <1>24,
   <1>25, <1>26 DEF Act

\* TypeOK is these two and what every call says of its entry and its start.
LEMMA TypeOKParts ==
    ASSUME Typed', Plain', \A r \in Requests : Fits(r)'
    PROVE  TypeOK'
<1>1. ASSUME NEW r \in Requests
      PROVE  /\ disk'[r].exec # "no" => disk'[r].decision = "approve"
             /\ r \in journal'.started \/ exec'[r] # "idle" => disk'[r].exec # "no"
    <2>1. LedgerFits(r)' /\ JournalFits(r)'
        BY DEF Fits
    <2> QED
        BY <2>1 DEF LedgerFits, EntryFits, JournalFits
<1> QED
    BY <1>1 DEF TypeOK, Typed, Plain

\* Types are kept by the steps of the batch and of its process.
LEMMA BatchTyped ==
    ASSUME TypeOK, Settle \/ Over \/ Cancel \/ Drift \/ Crash \/ Restart
    PROVE  Typed' /\ Plain'
<1>0. Typed /\ Plain
    BY DEF TypeOK, Typed, Plain
<1>1. CASE Settle
    <2> DEFINE i(r) == IF cancelled THEN Cancelled(r) ELSE IF thrown THEN Paired(r) ELSE item[r]
    <2>1. ASSUME NEW r \in Requests
          PROVE  [i(r) EXCEPT !.pc = "commit"] \in Items
        <3>1. item[r] \in Items
            BY <1>0 DEF Typed
        <3>2. i(r) \in Items
            BY <3>1, CancelledFields, PairedFields
        <3> HIDE DEF i
        <3> QED
            BY <3>2 DEF Items
    <2>2. item' = [r \in Requests |-> [i(r) EXCEPT !.pc = "commit"]]
        BY <1>1 DEF Settle
    <2> HIDE DEF i
    <2>3. item' \in [Requests -> Items]
        BY <2>1, <2>2
    <2> QED
        BY <1>0, <1>1, <2>3 DEF Settle, Typed, Plain
<1>2. CASE Over
    BY <1>0, <1>2 DEF Over, uncommitted, Typed, Plain
<1>3. CASE Cancel
    BY <1>0, <1>3 DEF Cancel, Typed, Plain
<1>4. CASE Drift
    BY <1>0, <1>4 DEF Drift, Typed, Plain
<1>5. CASE Crash
    <2>1. Sealed \in Items
        BY DEF Sealed, Items, Effects
    <2>2. [Sealed EXCEPT !.pc = "finished"] \in Items
        BY <2>1 DEF Items
    <2>3. item' \in [Requests -> Items]
        BY <1>5, <2>2 DEF Crash
    <2>4. crashes' \in 0 .. MaxCrashes
        BY <1>0, <1>5 DEF Crash, Plain
    <2>5. /\ turn' \in {"interrupted", "stopped"} /\ reviewer' = [r \in Requests |-> "off"]
          /\ ledger' = disk /\ pending' = {}
          /\ UNCHANGED <<par, readOnly, disk, gov, journal, up, cancelled, thrown, drift, exec, touched>>
        BY <1>5 DEF Crash
    <2>6. Typed'
        BY <1>0, <2>3, <2>5 DEF Typed
    <2>7. Plain'
        BY <1>0, <2>4, <2>5 DEF Plain
    <2> QED
        BY <2>6, <2>7
<1>6. CASE Restart
    <2> DEFINE x == [r \in Requests |-> Repair(r)]
    <2>1. journal \in Journals
        BY <1>0 DEF Typed
    <2>2. x \in [Requests -> Effects]
        BY <2>1 DEF Repair, Journals, Effects
    <2>3. [journal EXCEPT !.result = x] \in Journals
        BY <2>1, <2>2 DEF Journals
    <2>4. journal' \in Journals /\ pending' \subseteq Requests
        BY <1>6, <2>1, <2>3 DEF Restart, Journals
    <2> QED
        BY <1>0, <1>6, <2>4 DEF Restart, Typed, Plain
<1> QED
    BY <1>1, <1>2, <1>3, <1>4, <1>5, <1>6

----------------------------------------------------------------------------
(* The invariant, and what it says. *)

\* At first no call is under way and nothing is on record.
LEMMA InitInv == Init => Inv
<1> SUFFICES ASSUME Init PROVE Inv
    OBVIOUS
<1> DEFINE Paid == [Sealed EXCEPT !.pc = "result", !.result = "none"]
<1>1. /\ Sealed \in Items /\ Sealed.pc = "sealed" /\ Sealed.decision = "none"
      /\ Sealed.result = "no" /\ ~Sealed.started /\ ~Sealed.failed
    BY DEF Sealed, Items, Effects
<1>2. /\ Paid \in Items /\ Paid.pc = "result" /\ Paid.decision = "none"
      /\ Paid.result = "none" /\ ~Paid.started /\ ~Paid.failed
    BY <1>1 DEF Items, Effects
<1>3. NoEntry \in Entries /\ NoEntry.exec = "no" /\ ~NoEntry.proposed /\ NoEntry.decision = "none"
    BY DEF NoEntry, Entries, Effects
<1>4. /\ item \in [Requests -> {Sealed, Paid}] /\ turn = "open"
      /\ reviewer = [r \in Requests |-> "off"] /\ gov = [r \in Requests |-> "none"]
      /\ ledger = [r \in Requests |-> NoEntry] /\ disk = ledger
      /\ exec = [r \in Requests |-> "idle"]
      /\ journal = [started |-> {}, result |-> [r \in Requests |-> "no"], pending |-> {}]
      /\ pending = {} /\ touched = {}
    BY DEF Init
<1>5. Typed
    BY <1>1, <1>2, <1>3, <1>4 DEF Typed, Journals, Effects
<1>6. Plain
    <2>1. /\ par \in BOOLEAN /\ readOnly \subseteq Requests /\ up = {"ledger", "gov", "session"}
          /\ cancelled = FALSE /\ thrown = FALSE /\ drift = FALSE /\ crashes = 0
        BY DEF Init
    <2>2. crashes \in 0 .. MaxCrashes
        BY <2>1
    <2>3. /\ reviewer \in [Requests -> {"off", "propose", "commit", "authorize", "check",
                                        "recheck", "done", "failed"}]
          /\ gov \in [Requests -> {"none", "open", "closed"}]
          /\ exec \in [Requests -> {"idle", "running", "ended"}]
        BY <1>4
    <2>4. pending \subseteq Requests /\ touched \subseteq Requests /\ turn = "open"
        BY <1>4
    <2> QED
        BY <2>1, <2>2, <2>3, <2>4 DEF Plain
<1> HIDE DEF Paid
<1>7. ASSUME NEW r \in Requests
      PROVE  Fits(r)
    <2>1. /\ item[r].pc \in {"sealed", "result"} /\ item[r].decision = "none"
          /\ item[r].pc = "sealed" => item[r].result = "no"
          /\ item[r].pc = "result" => item[r].result = "none"
          /\ ~item[r].started /\ ~item[r].failed
        BY <1>1, <1>2, <1>4
    <2>2. /\ ledger[r].exec = "no" /\ disk[r].exec = "no" /\ ledger[r] = disk[r]
        BY <1>3, <1>4
    <2>3. /\ journal.result[r] = "no" /\ journal.started = {} /\ journal.pending = {}
          /\ pending = {} /\ touched = {} /\ exec[r] = "idle" /\ gov[r] = "none"
          /\ reviewer[r] = "off" /\ turn = "open"
        BY <1>4
    <2> USE <2>1, <2>2, <2>3
    <2>4. PhaseFits(r) BY DEF PhaseFits, Opening
    <2>5. ItemFits(r) BY DEF ItemFits, InExecution
    <2>6. ReviewerFits(r) BY DEF ReviewerFits
    <2>7. LedgerFits(r) BY DEF LedgerFits, EntryFits, Unstarted, Approved, Started
    <2>8. JournalFits(r) BY DEF JournalFits
    <2>9. ExecutorFits(r) BY DEF ExecutorFits
    <2>10. TerminalFits(r) BY DEF TerminalFits, EndFits
    <2>11. EffectFits(r) BY DEF EffectFits, Effective
    <2>12. ClosureFits(r) BY DEF ClosureFits
    <2>13. PairingFits(r) BY DEF PairingFits
    <2> QED
        BY <2>4, <2>5, <2>6, <2>7, <2>8, <2>9, <2>10, <2>11, <2>12, <2>13 DEF Fits
<1>8. \A r \in Requests : /\ disk[r].exec = "no" /\ r \notin journal.started /\ exec[r] = "idle"
    BY <1>3, <1>4
<1>9. TypeOK
    BY <1>5, <1>6, <1>8 DEF TypeOK, Typed, Plain
<1> QED
    BY <1>7, <1>9 DEF Inv

\* Whatever a call does, it fits afterwards.
LEMMA ActFits ==
    ASSUME TypeOK, NEW r \in Requests, Fits(r), Act(r)
    PROVE  Fits(r)'
BY ProposeFits, CommitFits, AuthorizeFits, CheckFits, ReviewStartFits, ReviewGivenUpFits,
   DeliverFits, PolicyDenialFits, ReconcileFits, ReconcileCheckFits, OperatorFits,
   OperatorCommitFits, OperatorAuthorizeFits, ReviewedFits, BeginFits, StartFits,
   PublishFits, CallFits, TouchFits, ReturnFits, GiveUpFits, CommitResultFits, AccountFits,
   AccountGovernanceFits, PostponeFits, ReconcilePendingFits DEF Act

\* Every step keeps the invariant.
LEMMA NextInv ==
    ASSUME Inv, [Next]_vars
    PROVE  Inv'
<1>0. TypeOK /\ \A r \in Requests : Fits(r)
    BY DEF Inv
<1>1. ASSUME NEW r \in Requests, Act(r)
      PROVE  Inv'
    <2>1. ASSUME NEW q \in Requests
          PROVE  Fits(q)'
        <3>1. CASE q = r
            BY <1>0, <1>1, <3>1, ActFits
        <3>2. CASE q # r
            BY <1>0, <1>1, <3>2, OthersApart, ApartFits
        <3> QED
            BY <3>1, <3>2
    <2>2. Typed'
        BY <1>0, <1>1, ItemTyped, EntriesTyped, JournalTyped DEF Typed
    <2>3. Plain'
        BY <1>0, <1>1, PlainTyped
    <2>4. TypeOK'
        BY <2>1, <2>2, <2>3, TypeOKParts
    <2> QED
        BY <2>1, <2>4 DEF Inv
<1>2. CASE Settle \/ Over \/ Cancel \/ Drift \/ Crash \/ Restart
    <2>1. \A r \in Requests : Fits(r)'
        BY <1>0, <1>2, SettleFits, OverFits, CancelFits, DriftFits, CrashFits, RestartFits
    <2>2. TypeOK'
        BY <1>0, <1>2, <2>1, BatchTyped, TypeOKParts
    <2> QED
        BY <2>1, <2>2 DEF Inv
<1>3. CASE UNCHANGED vars
    <2>1. ASSUME NEW q \in Requests
          PROVE  Fits(q)'
        <3>1. Apart(q)
            BY <1>3 DEF vars, Apart
        <3> QED
            BY <1>0, <3>1, ApartFits
    <2>2. TypeOK'
        BY <1>0, <1>3 DEF TypeOK, vars
    <2> QED
        BY <2>1, <2>2 DEF Inv
<1> QED
    BY <1>1, <1>2, <1>3 DEF Next, Act

\* The parts of every call fit each other, whatever fails or dies.
THEOREM ToolInvariant == Spec => []Inv
<1> QED
    BY InitInv, NextInv, PTL DEF Spec

\* TypeOK: a call runs only when it was approved, and what the journal of the
\* session or the executor knows as started the ledger has (beginExecution).
THEOREM ToolTypeCorrect == Spec => []TypeOK
<1>1. Inv => TypeOK
    BY DEF Inv
<1> QED
    BY <1>1, ToolInvariant, PTL

\* EffectHonest: a call that changed something outside is on record nowhere as
\* having had no effect (loop.js #commit, interrupted-tools.js, settle).
THEOREM EffectsAreHonest == Spec => []EffectHonest
<1>1. ASSUME Inv PROVE EffectHonest
    <2>1. SUFFICES ASSUME NEW r \in touched
                   PROVE  /\ journal.result[r] # "none"
                          /\ ledger[r].exec \notin {"none", "undelivered"}
                          /\ disk[r].exec \notin {"none", "undelivered"}
        BY DEF EffectHonest
    <2>2. r \in Requests
        BY <1>1 DEF Inv, TypeOK
    <2>3. Fits(r)
        BY <1>1, <2>2 DEF Inv
    <2>4. journal.result[r] # "none" /\ r \in journal.started
        BY <2>3 DEF Fits, EffectFits, Effective, JournalFits
    <2>5. EndFits(r, ledger[r].exec) /\ EndFits(r, disk[r].exec)
        BY <2>3 DEF Fits, TerminalFits
    <2> QED
        BY <2>4, <2>5 DEF EndFits
<1> QED
    BY <1>1, ToolInvariant, PTL

\* EffectsHoldCompletion: a change outside that is not on record as completed holds
\* completion open, also for a process that reads the ledger again
\* (reviewer-ledger.js completionState).
THEOREM EffectsHoldTheTurn == Spec => []EffectsHoldCompletion
<1>1. ASSUME Inv PROVE EffectsHoldCompletion
    <2>1. SUFFICES ASSUME NEW r \in touched, journal.result[r] # "completed"
                   PROVE  ~SettledOutcome(disk[r])
        BY DEF EffectsHoldCompletion
    <2>2. r \in Requests
        BY <1>1 DEF Inv, TypeOK
    <2>3. Fits(r)
        BY <1>1, <2>2 DEF Inv
    <2>4. /\ journal.result[r] # "none" /\ r \in journal.started /\ disk[r].exec # "no"
        BY <2>3 DEF Fits, EffectFits, Effective, JournalFits
    <2>5. EndFits(r, disk[r].exec)
        BY <2>3 DEF Fits, TerminalFits
    <2> QED
        BY <2>1, <2>4, <2>5 DEF EndFits, SettledOutcome
<1> QED
    BY <1>1, ToolInvariant, PTL

\* LedgerAgrees: the terminal of a call in the ledger is its result in the
\* transcript, or there was nothing to report (settle, reconcilePendingSettlements).
THEOREM LedgerIsTheTranscript == Spec => []LedgerAgrees
<1>1. ASSUME Inv PROVE LedgerAgrees
    <2>1. \A r \in Requests : EndFits(r, disk[r].exec)
        BY <1>1 DEF Inv, Fits, TerminalFits
    <2> QED
        BY <2>1 DEF LedgerAgrees, EndFits
<1> QED
    BY <1>1, ToolInvariant, PTL

\* UndeliveredClosed: of a review that was given up no approval stays open, in
\* whatever order the reviewer and the governor come to their ends
\* (reviewer-delivery.js settleUndeliveredApproval).
THEOREM GivenUpIsClosed == Spec => []UndeliveredClosed
<1>1. ASSUME Inv PROVE UndeliveredClosed
    <2>1. SUFFICES ASSUME NEW r \in Requests, item[r].failed,
                          item[r].pc \notin {"reconcile", "check"},
                          reviewer[r] \in {"done", "failed"}, {"ledger", "gov"} \subseteq up
                   PROVE  gov[r] # "open" /\ SettledOutcome(ledger[r])
        BY DEF UndeliveredClosed
    <2>2. ClosureFits(r)
        BY <1>1 DEF Inv, Fits
    <2> QED
        BY <2>1, <2>2 DEF ClosureFits
<1> QED
    BY <1>1, ToolInvariant, PTL

\* ApprovedPaired: a call that was approved has a durable result when its batch is
\* over, whatever threw on the way (pairUnsettledApprovals, #settleCancellation).
THEOREM ApprovedHaveResults == Spec => []ApprovedPaired
<1>1. ASSUME Inv PROVE ApprovedPaired
    <2>1. SUFFICES ASSUME turn = "over", "session" \in up,
                          NEW r \in Requests, item[r].decision = "approve"
                   PROVE  journal.result[r] # "no"
        BY DEF ApprovedPaired
    <2>2. PhaseFits(r) /\ PairingFits(r)
        BY <1>1 DEF Inv, Fits
    <2> QED
        BY <2>1, <2>2 DEF PhaseFits, PairingFits, Settling
<1> QED
    BY <1>1, ToolInvariant, PTL
=============================================================================
