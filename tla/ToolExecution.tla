---------------------------- MODULE ToolExecution ----------------------------
(***************************************************************************)
(* One batch of tool calls: the loop (src/src/tools/loop.js), the governor *)
(* (tools/governor.js), the mandatory reviewer behind an event boundary    *)
(* with a deadline (events.js, reviewer.js), the operator's permission     *)
(* prompt (permission-broker.js), the reviewer ledger and governance with  *)
(* journals of their own, and the journal of the session.                  *)
(*                                                                         *)
(* A step is what runs between two awaits.  A journal that fails once      *)
(* stays unavailable until the process is started again (JournalStore);    *)
(* the record that failed may be on the disk.  A tool that is read-only    *)
(* has no effect; what the executor reports of its effect is taken to be   *)
(* true.                                                                   *)
(***************************************************************************)
EXTENDS Naturals, FiniteSets

CONSTANTS
    Count,       \* calls in the batch
    MaxCrashes   \* bound: crashes of the process

ASSUME CountAssumption == Count \in Nat \ {0}
ASSUME CrashAssumption == MaxCrashes \in Nat

Requests == 1 .. Count

VARIABLES
    turn,      \* of the batch: "open", "settle", "over", "interrupted", "stopped"
    par,       \* the calls are one parallel group
    readOnly,  \* calls of read-only tools
    item,      \* the calls as the loop knows them
    reviewer,  \* where the reviewer is with a call
    ledger,    \* entries of the reviewer ledger
    disk,      \* the same in its journal
    gov,       \* the approval in governance: "none", "open", "closed"
    journal,   \* of the session: started events, results, pending settlements
    pending,   \* pendingSettlements
    up,        \* journals that have not failed: "ledger", "gov", "session"
    cancelled, \* the turn is cancelled and its signal aborted
    thrown,    \* process() has met an error
    drift,     \* authority, policy or workspace are not those of the approvals
    exec,      \* the executors: "idle", "running", "ended"
    touched,   \* history: calls that changed something outside
    crashes

vars == <<turn, par, readOnly, item, reviewer, ledger, disk, gov, journal,
          pending, up, cancelled, thrown, drift, exec, touched, crashes>>

\* What no step of the reviewer or of the governor's review changes.
outside == <<turn, par, readOnly, journal, pending, cancelled, drift, exec,
             touched, crashes>>

NoEntry == [proposed |-> FALSE, decision |-> "none", exec |-> "no"]
Sealed == [pc |-> "sealed", decision |-> "none", result |-> "no",
           started |-> FALSE, failed |-> FALSE]

\* Every call is sealed and its tool_request durable, or it was invalid and has
\* its result.
Init ==
    /\ turn = "open" /\ par \in BOOLEAN /\ readOnly \in SUBSET Requests
    /\ item \in [Requests -> {Sealed, [Sealed EXCEPT !.pc = "result", !.result = "none"]}]
    /\ reviewer = [r \in Requests |-> "off"]
    /\ ledger = [r \in Requests |-> NoEntry] /\ disk = ledger
    /\ gov = [r \in Requests |-> "none"]
    /\ journal = [started |-> {}, result |-> [r \in Requests |-> "no"], pending |-> {}]
    /\ pending = {} /\ up = {"ledger", "gov", "session"}
    /\ cancelled = FALSE /\ thrown = FALSE /\ drift = FALSE
    /\ exec = [r \in Requests |-> "idle"] /\ touched = {} /\ crashes = 0

Goto(r, pc) == item' = [item EXCEPT ![r].pc = pc]
Review(r, pc) == reviewer' = [reviewer EXCEPT ![r] = pc]

\* An entry is written to the ledger, or the write throws.
Record(r, e) ==
    /\ "ledger" \in up
    /\ ledger' = [ledger EXCEPT ![r] = e] /\ disk' = [disk EXCEPT ![r] = e]
    /\ UNCHANGED up
RecordThrows(r, e) ==
    /\ up' = up \ {"ledger"}
    /\ disk' \in {disk} \cup IF "ledger" \in up THEN {[disk EXCEPT ![r] = e]} ELSE {}
    /\ UNCHANGED ledger

\* Of the two records that close a call nobody runs only the start is written.
SecondThrows(r, e) ==
    /\ "ledger" \in up /\ up' = up \ {"ledger"}
    /\ ledger' = [ledger EXCEPT ![r].exec = "running"]
    /\ disk' \in {[disk EXCEPT ![r] = ledger'[r]], [disk EXCEPT ![r] = e]}

\* A record is written to governance, or the write throws.
Govern(r, s) == "gov" \in up /\ gov' = [gov EXCEPT ![r] = s] /\ UNCHANGED up
GovernThrows == up' = up \ {"gov"} /\ UNCHANGED gov

\* A record is written to the journal of the session, or the write throws.
Persist(j) == "session" \in up /\ journal' = j /\ UNCHANGED up
PersistThrows(j) ==
    /\ up' = up \ {"session"}
    /\ journal' \in {journal} \cup IF "session" \in up THEN {j} ELSE {}

----------------------------------------------------------------------------
(* The reviewer, which goes on when nobody waits for it any more. *)

Propose(r) ==
    /\ reviewer[r] = "propose"
    /\ LET e == [ledger[r] EXCEPT !.proposed = TRUE]
       IN  \/ Record(r, e) /\ Review(r, "commit")
           \/ RecordThrows(r, e) /\ Review(r, "failed")
    /\ UNCHANGED <<item, gov, thrown>> /\ UNCHANGED outside

\* It has judged; a decision that is there already stays.
Commit(r) ==
    /\ reviewer[r] = "commit"
    /\ \/ /\ ledger[r].decision # "none"
          /\ Review(r, "authorize")
          /\ UNCHANGED <<ledger, disk, up>>
       \/ /\ ledger[r].decision = "none"
          /\ \E d \in {"approve", "deny", "escalate"} :
               LET e == [ledger[r] EXCEPT !.decision = d]
               IN  \/ Record(r, e) /\ Review(r, "authorize")
                   \/ RecordThrows(r, e) /\ Review(r, "failed")
       \/ Review(r, "failed") /\ UNCHANGED <<ledger, disk, up>>
    /\ UNCHANGED <<item, gov, thrown>> /\ UNCHANGED outside

\* governance.recordAuthorization of the committed decision.
Authorize(r) ==
    /\ reviewer[r] = "authorize"
    /\ \/ /\ Govern(r, IF ledger[r].decision = "approve" THEN "open" ELSE gov[r])
          /\ Review(r, "check")
       \/ GovernThrows /\ Review(r, "recheck")
    /\ UNCHANGED <<item, ledger, disk, thrown>> /\ UNCHANGED outside

\* settleUndeliveredApproval: an approval that the ledger has closed as not
\* delivered is closed in governance too.
Undelivered(r) == ledger[r].exec = "undelivered" /\ gov[r] = "open"
SettleUndelivered(r) ==
    IF Undelivered(r) THEN Govern(r, "closed") ELSE UNCHANGED <<gov, up>>

\* Mutant: the reviewer does not look again.
CheckSkipped(r) ==
    /\ reviewer[r] \in {"check", "recheck"}
    /\ Review(r, IF reviewer[r] = "check" THEN "done" ELSE "failed")
    /\ UNCHANGED <<gov, up, item, ledger, disk, thrown>> /\ UNCHANGED outside

\* The finally of recordAndSettleAuthorization; review() returns.
Check(r) ==
    /\ reviewer[r] \in {"check", "recheck"}
    /\ \/ /\ SettleUndelivered(r)
          /\ Review(r, IF reviewer[r] = "check" THEN "done" ELSE "failed")
       \/ Undelivered(r) /\ GovernThrows /\ Review(r, "failed")
    /\ UNCHANGED <<item, ledger, disk, thrown>> /\ UNCHANGED outside

----------------------------------------------------------------------------
(* The governor's review of a call. *)

InReview == {"review", "policy", "reconcile", "check", "operator", "operatorCommit",
             "operatorAuthorize", "decided"}
InExecution == {"begin", "publish", "run", "wait"}
\* The loop awaits a review or an execution.
Busy == \E r \in Requests : item[r].pc \in InReview \cup InExecution

Group(r) == IF par THEN Requests ELSE {r}
\* Earlier calls are through, or, of the same group, reviewed.
Before(r) ==
    \A q \in 1 .. r - 1 : item[q].pc = "result" \/ (par /\ item[q].pc = "ready")

\* #review dispatches permission.pre.
ReviewStart(r) ==
    /\ turn = "open" /\ ~thrown /\ ~cancelled /\ ~Busy
    /\ item[r].pc = "sealed" /\ Before(r)
    /\ Goto(r, "review") /\ Review(r, "propose")
    /\ UNCHANGED <<ledger, disk, gov, up, thrown>> /\ UNCHANGED outside

\* The boundary answers for a reviewer that threw, is too late, is cancelled or
\* returned too much.  The proposal is ahead of it in the queue of the ledger.
ReviewGivenUp(r) ==
    /\ item[r].pc = "review" /\ reviewer[r] # "propose"
    /\ item' = [item EXCEPT ![r].pc = "reconcile", ![r].failed = TRUE]
    /\ UNCHANGED <<reviewer, ledger, disk, gov, up, thrown>> /\ UNCHANGED outside

\* The reviewer's decision is delivered; another subscriber may still deny.
Deliver(r) ==
    /\ item[r].pc = "review" /\ reviewer[r] = "done"
    /\ \/ ledger[r].decision = "approve"
          /\ item' \in {[item EXCEPT ![r].pc = "decided", ![r].decision = "approve"],
                        [item EXCEPT ![r].pc = "policy"]}
       \/ ledger[r].decision = "deny"
          /\ item' = [item EXCEPT ![r].pc = "decided", ![r].decision = "deny"]
       \/ ledger[r].decision = "escalate"
          /\ item' \in {[item EXCEPT ![r].pc = "decided", ![r].decision = "deny"],
                        [item EXCEPT ![r].pc = "operator"]}
    /\ UNCHANGED <<reviewer, ledger, disk, gov, up, thrown>> /\ UNCHANGED outside

Throw(r) == Goto(r, "stopped") /\ thrown' = TRUE
Deny(r) == /\ item' = [item EXCEPT ![r].pc = "decided", ![r].decision = "deny"]
           /\ UNCHANGED thrown

\* An approval another subscriber denied is closed in the ledger, in two records.
PolicyDenial(r) ==
    /\ item[r].pc = "policy"
    /\ LET e == [ledger[r] EXCEPT !.exec = "none"]
       IN  \/ Record(r, e) /\ Deny(r)
           \/ (RecordThrows(r, [e EXCEPT !.exec = "running"]) \/ SecondThrows(r, e)) /\ Throw(r)
    /\ UNCHANGED <<reviewer, gov>> /\ UNCHANGED outside

Reconciled(e) ==
    IF e.decision = "none" THEN [e EXCEPT !.decision = "deny"]
    ELSE IF e.decision = "approve" /\ e.exec = "no" THEN [e EXCEPT !.exec = "undelivered"]
    ELSE e

\* #failedReview: reconcileReviewFailure records the denial, or closes an approval
\* that was never delivered, in two records.
Reconcile(r) ==
    /\ item[r].pc = "reconcile"
    /\ LET e == Reconciled(ledger[r])
       IN  \/ /\ ~ledger[r].proposed \/ e = ledger[r]
              /\ Goto(r, "check")
              /\ UNCHANGED <<ledger, disk, up, thrown>>
           \/ /\ ledger[r].proposed /\ e # ledger[r]
              /\ \/ Record(r, e) /\ Goto(r, "check") /\ UNCHANGED thrown
                 \/ e.exec = "no" /\ RecordThrows(r, e) /\ Throw(r)
                 \/ /\ e.exec = "undelivered" /\ Throw(r)
                    /\ RecordThrows(r, [e EXCEPT !.exec = "running"]) \/ SecondThrows(r, e)
    /\ UNCHANGED <<reviewer, gov>> /\ UNCHANGED outside

\* #failedReview: settleUndeliveredApproval, then the denial is returned.
ReconcileCheck(r) ==
    /\ item[r].pc = "check"
    /\ \/ SettleUndelivered(r) /\ Deny(r)
       \/ Undelivered(r) /\ GovernThrows /\ Throw(r)
    /\ UNCHANGED <<reviewer, ledger, disk>> /\ UNCHANGED outside

\* The operator allows, or denies; or the request times out, is aborted, or the
\* broker throws.
Operator(r) ==
    /\ item[r].pc = "operator"
    /\ \/ ~cancelled /\ item' = [item EXCEPT ![r].pc = "operatorCommit", ![r].decision = "approve"]
          /\ UNCHANGED thrown
       \/ item' = [item EXCEPT ![r].pc = "operatorCommit", ![r].decision = "deny"]
          /\ UNCHANGED thrown
       \/ Throw(r)
    /\ UNCHANGED <<reviewer, ledger, disk, gov, up>> /\ UNCHANGED outside

\* An error on the way leaves the call without a decision.
OperatorCommit(r) ==
    /\ item[r].pc = "operatorCommit"
    /\ LET e == [ledger[r] EXCEPT !.decision = item[r].decision]
       IN  \/ Record(r, e) /\ Goto(r, "operatorAuthorize") /\ UNCHANGED thrown
           \/ /\ RecordThrows(r, e)
              /\ item' = [item EXCEPT ![r].pc = "stopped", ![r].decision = "none"]
              /\ thrown' = TRUE
    /\ UNCHANGED <<reviewer, gov>> /\ UNCHANGED outside
OperatorAuthorize(r) ==
    /\ item[r].pc = "operatorAuthorize"
    /\ \/ /\ Govern(r, IF item[r].decision = "approve" THEN "open" ELSE gov[r])
          /\ Goto(r, "decided") /\ UNCHANGED thrown
       \/ /\ GovernThrows
          /\ item' = [item EXCEPT ![r].pc = "stopped", ![r].decision = "none"]
          /\ thrown' = TRUE
    /\ UNCHANGED <<reviewer, ledger, disk>> /\ UNCHANGED outside

\* The decision reaches the loop; lifecycle events are persisted before it counts.
Reviewed(r) ==
    /\ item[r].pc = "decided"
    /\ LET deny == item[r].decision = "deny"
           to(pc) == item' = [item EXCEPT ![r].pc = IF deny THEN "result" ELSE pc,
                                          ![r].result = IF deny THEN "none" ELSE "no"]
       IN  \/ Persist(journal) /\ to("ready") /\ UNCHANGED thrown
           \/ PersistThrows(journal) /\ to("stopped") /\ thrown' = TRUE
    /\ UNCHANGED <<turn, par, readOnly, reviewer, ledger, disk, gov, pending,
                   cancelled, drift, exec, touched, crashes>>

----------------------------------------------------------------------------
(* Execution.  A worker takes no call after one has thrown; it does take one
   after the turn is cancelled. *)

\* What an execution that yields no success leaves on record.
Uncertain(r) == IF r \in readOnly THEN "none" ELSE "unknown"
Result(r, effect, started) ==
    item' = [item EXCEPT ![r].pc = "result", ![r].result = effect, ![r].started = started]

unreviewed == <<reviewer, gov, par, readOnly, pending, turn, cancelled, drift, crashes>>

\* beginExecution: the approval is compared with what holds now.
Begin(r) ==
    /\ turn = "open" /\ ~thrown /\ item[r].pc = "ready"
    /\ \A q \in Group(r) : item[q].pc \notin {"sealed"} \cup InReview
    /\ \/ ~drift /\ Goto(r, "begin")
       \/ Result(r, "none", FALSE)
    /\ UNCHANGED <<ledger, disk, journal, up, thrown, exec, touched>> /\ UNCHANGED unreviewed

\* Mutant: the start is not recorded in the ledger.
StartUnrecorded(r) ==
    /\ item[r].pc = "begin"
    /\ Goto(r, "publish")
    /\ UNCHANGED <<ledger, disk, up, journal, thrown, exec, touched>> /\ UNCHANGED unreviewed

\* The start is on record in the ledger, or the call is blocked.
Start(r) ==
    /\ item[r].pc = "begin"
    /\ LET e == [ledger[r] EXCEPT !.exec = "running"]
       IN  \/ ledger[r].exec = "no" /\ Record(r, e) /\ Goto(r, "publish")
           \/ ledger[r].exec = "no" /\ RecordThrows(r, e) /\ Result(r, "none", FALSE)
           \/ ledger[r].exec # "no" /\ Result(r, "none", FALSE) /\ UNCHANGED <<ledger, disk, up>>
    /\ UNCHANGED <<journal, thrown, exec, touched>> /\ UNCHANGED unreviewed

\* tool_execution.started is in the journal before the executor is called.
Publish(r) ==
    /\ item[r].pc = "publish"
    /\ LET j == [journal EXCEPT !.started = @ \cup {r}]
       IN  \/ Persist(j) /\ Goto(r, "run") /\ UNCHANGED thrown
           \/ PersistThrows(j) /\ Throw(r)
    /\ UNCHANGED <<ledger, disk, exec, touched>> /\ UNCHANGED unreviewed

\* The call is announced as running and the executor called, unless the signal is
\* aborted; the announcement may throw.
Call(r) ==
    /\ item[r].pc = "run"
    /\ \/ /\ ~cancelled /\ exec' = [exec EXCEPT ![r] = "running"] /\ Goto(r, "wait")
          /\ UNCHANGED thrown
       \/ cancelled /\ Result(r, Uncertain(r), TRUE) /\ UNCHANGED <<exec, thrown>>
       \/ Goto(r, "lost") /\ thrown' = TRUE /\ UNCHANGED exec
    /\ UNCHANGED <<ledger, disk, journal, up, touched>> /\ UNCHANGED unreviewed

\* The executor changes something, as long as it runs, awaited or not.
Touch(r) ==
    /\ exec[r] = "running" /\ r \notin readOnly
    /\ touched' = touched \cup {r}
    /\ UNCHANGED <<item, ledger, disk, journal, up, thrown, exec>> /\ UNCHANGED unreviewed

\* The executor ends, with the effect it reports or the one its status implies.
Return(r) ==
    /\ exec[r] = "running"
    /\ exec' = [exec EXCEPT ![r] = "ended"]
    /\ \/ /\ item[r].pc = "wait"
          /\ \/ Result(r, "completed", TRUE)
             \/ Result(r, Uncertain(r), TRUE)
             \/ r \notin touched /\ Result(r, "none", TRUE)
       \/ item[r].pc # "wait" /\ UNCHANGED item
    /\ UNCHANGED <<ledger, disk, journal, up, thrown, touched>> /\ UNCHANGED unreviewed

\* Mutant: a call that is given up had no effect.
GiveUpNone(r) ==
    /\ item[r].pc = "wait"
    /\ Result(r, "none", TRUE)
    /\ UNCHANGED <<ledger, disk, journal, up, thrown, exec, touched>> /\ UNCHANGED unreviewed

\* executeBounded gives the call up at its deadline or when the turn is cancelled;
\* the executor goes on.
GiveUp(r) ==
    /\ item[r].pc = "wait"
    /\ Result(r, Uncertain(r), TRUE)
    /\ UNCHANGED <<ledger, disk, journal, up, thrown, exec, touched>> /\ UNCHANGED unreviewed

----------------------------------------------------------------------------
(* Settling the batch. *)

\* Mutant: an approved call that has no result is left without one.
PairedNone(r) == item[r]

\* pairUnsettledApprovals: an approved call that has no result gets one.
Paired(r) ==
    IF item[r].decision = "approve" /\ item[r].result = "no"
    THEN [item[r] EXCEPT !.result = IF item[r].pc = "lost" THEN "unknown" ELSE "none",
                         !.started = item[r].pc = "lost"]
    ELSE item[r]

\* cancelledToolResult.
Cancelled(r) == IF item[r].result = "no" THEN [item[r] EXCEPT !.result = "none"] ELSE item[r]

\* All calls have a result, or process() catches an error or the cancellation.
Settle ==
    /\ turn = "open" /\ ~Busy
    /\ \/ thrown
       \/ \A r \in Requests : item[r].pc = "result"
       \/ cancelled /\ \E r \in Requests : item[r].pc = "sealed" /\ Before(r)
    /\ item' = [r \in Requests |->
                  [ (IF cancelled THEN Cancelled(r) ELSE IF thrown THEN Paired(r) ELSE item[r])
                    EXCEPT !.pc = "commit" ]]
    /\ turn' = "settle"
    /\ UNCHANGED <<par, readOnly, reviewer, ledger, disk, gov, journal, pending, up,
                   cancelled, thrown, drift, exec, touched, crashes>>

\* #commit takes the calls in order.
Committing(r, pc) ==
    /\ turn = "settle" /\ item[r].pc = pc
    /\ \A q \in 1 .. r - 1 : item[q].pc = "finished"

uncommitted == <<par, readOnly, reviewer, cancelled, drift, exec, touched, crashes>>

\* Mutant: the settlement does not wait for the result.
CommitResultLate(r) ==
    /\ Committing(r, "commit")
    /\ Goto(r, IF item[r].started THEN "account" ELSE "finished")
    /\ UNCHANGED <<journal, up, thrown, turn, ledger, disk, gov, pending>> /\ UNCHANGED uncommitted

\* The result of a call becomes durable.
CommitResult(r) ==
    /\ Committing(r, "commit")
    /\ \/ item[r].result = "no" /\ Goto(r, "finished") /\ UNCHANGED <<journal, up, thrown>>
       \/ /\ item[r].result # "no"
          /\ LET j == [journal EXCEPT !.result[r] = item[r].result]
             IN  \/ /\ Persist(j) /\ UNCHANGED thrown
                    /\ Goto(r, IF item[r].started THEN "account" ELSE "finished")
                 \/ PersistThrows(j) /\ Goto(r, "finished") /\ thrown' = TRUE
    /\ UNCHANGED <<turn, ledger, disk, gov, pending>> /\ UNCHANGED uncommitted

\* Mutant: an uncertain effect becomes an applied one.
AccountApplied(r) ==
    /\ Committing(r, "account")
    /\ Record(r, [ledger[r] EXCEPT !.exec = "completed"]) /\ Goto(r, "govern")
    /\ UNCHANGED <<turn, journal, gov, pending, thrown>> /\ UNCHANGED uncommitted

\* governor.settle: the ledger keeps the first terminal it was given.
Account(r) ==
    /\ Committing(r, "account")
    /\ LET e == [ledger[r] EXCEPT !.exec = item[r].result]
       IN  \/ /\ ledger[r].exec \notin {"no", "running"}
              /\ Goto(r, "govern") /\ UNCHANGED <<ledger, disk, up>>
           \/ /\ ledger[r].exec = "running"
              /\ \/ Record(r, e) /\ Goto(r, "govern")
                 \/ RecordThrows(r, e) /\ Goto(r, "pending")
           \/ ledger[r].exec = "no" /\ Goto(r, "pending") /\ UNCHANGED <<ledger, disk, up>>
    /\ UNCHANGED <<turn, journal, gov, pending, thrown>> /\ UNCHANGED uncommitted

AccountGovernance(r) ==
    /\ Committing(r, "govern")
    /\ \/ gov[r] # "none" /\ Govern(r, "closed") /\ Goto(r, "finished")
       \/ GovernThrows /\ Goto(r, "pending")
    /\ UNCHANGED <<turn, ledger, disk, journal, pending, thrown>> /\ UNCHANGED uncommitted

\* A settlement that failed is kept for later.
Postpone(r) ==
    /\ Committing(r, "pending")
    /\ LET j == [journal EXCEPT !.pending = @ \cup {r}]
       IN  \/ Persist(j) /\ pending' = pending \cup {r} /\ UNCHANGED thrown
           \/ PersistThrows(j) /\ thrown' = TRUE /\ UNCHANGED pending
    /\ Goto(r, "finished")
    /\ UNCHANGED <<turn, ledger, disk, gov>> /\ UNCHANGED uncommitted

Over ==
    /\ turn = "settle" /\ \A r \in Requests : item[r].pc = "finished"
    /\ turn' = "over"
    /\ UNCHANGED <<item, ledger, disk, gov, journal, pending, up, thrown>> /\ UNCHANGED uncommitted

\* reconcilePendingSettlements, at the start of a later batch: it stops at the
\* first of its three writes that fails.
ReconcilePending(r) ==
    /\ turn = "over" /\ r \in pending
    /\ LET e == [ledger[r] EXCEPT !.exec = IF @ = "running" THEN journal.result[r] ELSE @]
           j == [journal EXCEPT !.pending = @ \ {r}]
       IN  \/ /\ RecordThrows(r, e) /\ UNCHANGED <<gov, journal, pending>>
           \/ /\ ledger[r].exec # "no" /\ "ledger" \in up
              /\ ledger' = [ledger EXCEPT ![r] = e] /\ disk' = [disk EXCEPT ![r] = e]
              /\ \/ GovernThrows /\ UNCHANGED <<journal, pending>>
                 \/ /\ gov[r] # "none" /\ "gov" \in up /\ gov' = [gov EXCEPT ![r] = "closed"]
                    /\ \/ PersistThrows(j) /\ UNCHANGED pending
                       \/ Persist(j) /\ pending' = pending \ {r}
    /\ UNCHANGED <<turn, item, thrown>> /\ UNCHANGED uncommitted

----------------------------------------------------------------------------
(* The environment. *)

Cancel ==
    /\ turn = "open" /\ ~cancelled
    /\ cancelled' = TRUE
    /\ UNCHANGED <<turn, par, readOnly, item, reviewer, ledger, disk, gov, journal,
                   pending, up, thrown, drift, exec, touched, crashes>>

Drift ==
    /\ turn = "open" /\ ~drift
    /\ drift' = TRUE
    /\ UNCHANGED <<turn, par, readOnly, item, reviewer, ledger, disk, gov, journal,
                   pending, up, thrown, cancelled, exec, touched, crashes>>

\* The process dies.  Its turn was interrupted, unless its end is in the journal.
Crash ==
    /\ turn \in {"open", "settle", "over"} /\ crashes < MaxCrashes
    /\ turn' \in {"interrupted"} \cup IF turn = "over" /\ "session" \in up THEN {"stopped"} ELSE {}
    /\ item' = [r \in Requests |-> [Sealed EXCEPT !.pc = "finished"]]
    /\ reviewer' = [r \in Requests |-> "off"]
    /\ ledger' = disk /\ pending' = {} /\ crashes' = crashes + 1
    /\ UNCHANGED <<par, readOnly, disk, gov, journal, up, cancelled, thrown, drift, exec, touched>>

\* interruptedToolRepairs.
Repair(r) ==
    IF journal.result[r] # "no" THEN journal.result[r]
    ELSE IF r \in journal.started THEN "unknown" ELSE "none"

\* The session is restored: results are made up for the requests of an interrupted
\* turn that have none, and pending settlements are read back.
Restart ==
    /\ turn \in {"interrupted", "stopped"}
    /\ journal' = IF turn = "interrupted"
                  THEN [journal EXCEPT !.result = [r \in Requests |-> Repair(r)]] ELSE journal
    /\ pending' = journal.pending /\ turn' = "over"
    /\ up' = {"ledger", "gov", "session"} /\ cancelled' = FALSE /\ thrown' = FALSE
    /\ UNCHANGED <<par, readOnly, item, reviewer, ledger, disk, gov, drift, exec, touched, crashes>>

----------------------------------------------------------------------------
Next ==
    \/ \E r \in Requests :
         \/ Propose(r) \/ Commit(r) \/ Authorize(r) \/ Check(r)
         \/ ReviewStart(r) \/ ReviewGivenUp(r) \/ Deliver(r) \/ PolicyDenial(r)
         \/ Reconcile(r) \/ ReconcileCheck(r)
         \/ Operator(r) \/ OperatorCommit(r) \/ OperatorAuthorize(r) \/ Reviewed(r)
         \/ Begin(r) \/ Start(r) \/ Publish(r) \/ Call(r)
         \/ Touch(r) \/ Return(r) \/ GiveUp(r)
         \/ CommitResult(r) \/ Account(r) \/ AccountGovernance(r) \/ Postpone(r)
         \/ ReconcilePending(r)
    \/ Settle \/ Over \/ Cancel \/ Drift \/ Crash \/ Restart

Spec == Init /\ [][Next]_vars

----------------------------------------------------------------------------
(* Properties. *)

Effects == {"no", "none", "completed", "unknown"}
Entries == [proposed : BOOLEAN, decision : {"none", "approve", "deny", "escalate"},
            exec : Effects \cup {"running", "undelivered"}]
Items == [pc : {"sealed", "ready", "result", "stopped", "lost", "commit", "account", "govern",
                "pending", "finished"} \cup InReview \cup InExecution,
          decision : {"none", "approve", "deny"}, result : Effects,
          started : BOOLEAN, failed : BOOLEAN]
Journals == [started : SUBSET Requests, result : [Requests -> Effects],
             pending : SUBSET Requests]

\* Types of the variables; a call runs only when it was approved, and what the
\* journal of the session or the executor knows as started the ledger has
\* (beginExecution).
TypeOK ==
    /\ turn \in {"open", "settle", "over", "interrupted", "stopped"}
    /\ par \in BOOLEAN /\ readOnly \subseteq Requests
    /\ item \in [Requests -> Items]
    /\ reviewer \in [Requests -> {"off", "propose", "commit", "authorize", "check",
                                  "recheck", "done", "failed"}]
    /\ ledger \in [Requests -> Entries] /\ disk \in [Requests -> Entries]
    /\ gov \in [Requests -> {"none", "open", "closed"}]
    /\ journal \in Journals
    /\ pending \subseteq Requests /\ up \subseteq {"ledger", "gov", "session"}
    /\ cancelled \in BOOLEAN /\ thrown \in BOOLEAN /\ drift \in BOOLEAN
    /\ exec \in [Requests -> {"idle", "running", "ended"}]
    /\ touched \subseteq Requests /\ crashes \in 0 .. MaxCrashes
    /\ \A r \in Requests :
         /\ disk[r].exec # "no" => disk[r].decision = "approve"
         /\ r \in journal.started \/ exec[r] # "idle" => disk[r].exec # "no"

\* settledOutcome of the ledger: the entry holds no completion open.
SettledOutcome(e) ==
    \/ e.exec \in {"completed", "none", "undelivered"}
    \/ e.exec = "no" /\ e.decision \in {"deny", "escalate"}

\* A call that has changed something outside, or does so later, is on record
\* nowhere as having had no effect: not in the transcript (loop.js #commit,
\* interrupted-tools.js), not in the reviewer ledger (reconcileReviewFailure,
\* settle), also when it was given up, cancelled, lost or its process died.
EffectHonest ==
    \A r \in touched :
      /\ journal.result[r] # "none"
      /\ {ledger[r].exec, disk[r].exec} \cap {"none", "undelivered"} = {}

\* As long as a change outside is not on record as completed, the reviewer ledger
\* holds completion open for it (completionState), also in what a restart reads.
EffectsHoldCompletion ==
    \A r \in touched :
      journal.result[r] # "completed" => ~SettledOutcome(disk[r])

\* The terminal of a call in the reviewer ledger is the result in the transcript;
\* one without an execution may be ahead of it (settle after persist, the pending
\* settlements, reconcileReviewFailure).
LedgerAgrees ==
    \A r \in Requests :
      /\ disk[r].exec \in {"completed", "unknown"} => journal.result[r] = disk[r].exec
      /\ disk[r].exec \in {"none", "undelivered"} => journal.result[r] \in {"no", "none"}

\* When the boundary of a review has been given up and the reviewer has come to
\* its end, in whatever order their steps fell, no approval of the call stays
\* open: neither in the ledger nor in governance (reviewer-delivery.js).
UndeliveredClosed ==
    \A r \in Requests :
      ( /\ item[r].failed /\ item[r].pc \notin {"reconcile", "check"}
        /\ reviewer[r] \in {"done", "failed"} /\ {"ledger", "gov"} \subseteq up )
      => /\ gov[r] # "open"
         /\ ledger[r].proposed => SettledOutcome(ledger[r])

\* A call that was approved has a durable result when its batch is over, whatever
\* threw on the way, unless the journal of the session failed
\* (pairUnsettledApprovals, #commitAvailableResults, #settleCancellation).
ApprovedPaired ==
    turn = "over" /\ "session" \in up =>
      \A r \in Requests : item[r].decision = "approve" => journal.result[r] # "no"

\* tools/synthetic-results.js: "a durable tool_request must never lack a paired
\* tool_result", when its batch is over and no journal has failed.
EveryRequestPaired ==
    turn = "over" /\ up = {"ledger", "gov", "session"} => \A r \in Requests : journal.result[r] # "no"

\* persistence/reviewer-ledger.js: "Only a possible external effect may hold
\* completion open", when the batch is over and no journal has failed.
OnlyEffectsHoldCompletion ==
    turn = "over" /\ crashes = 0 /\ up = {"ledger", "gov", "session"} =>
      \A r \in Requests :
        ledger[r].proposed /\ reviewer[r] \in {"off", "done", "failed"} /\ ~SettledOutcome(ledger[r])
          => exec[r] # "idle"
=============================================================================
