# NotNativeAgent: TLA+ models, checks and proofs

NotNativeAgent is a local-first agent host. Its runtime, `src/src/`, is
JavaScript for Node.js: a session engine runs the turns of an operator against
a language-model provider and tools, and keeps everything it must not lose in
an append-only journal. This directory holds models of that runtime in TLA+,
the TLC configurations that check them on small instances, and proofs that
TLAPS checks for every value of the constants.

`PROJECT.json` lists the components, the runs, the mutants, the source lines
behind every definition, the findings, the hazards and the theorems. Paths
below that begin with `src/` have the repository at `src/`, so that the runtime
is `src/src/` and the tests are `src/test/`; the others are relative to the
runtime.

## 1. Inventory

| Part | State it keeps | Operations | Hard because |
|---|---|---|---|
| Session engine: `engine.js`, `engine/` | the active turn, the lifecycle state, the steering queue | submit, steer, cancel, shutdown, initialize; the step loop and the finalization run in between | four asynchronous activities share memory; each `await` lets the others in; the process may die at any of them |
| Journal store: `store.js`, `persistence/` | file, hash chain, tail of pending writes, failure latch | open, append, replace, close, recover | a write has a deadline and may land after it; torn lines |
| Session lock: `persistence/session-lock.js` | one file | acquire, release, preserve a stale lock | processes race on a path, a step per system call |
| Provider scheduler: `provider/fair-scheduler.js` | per resource: counter, grants, queue, cached limit | acquire, release, abort, configure, discovered limit | capacity is freed on five paths; limits of requests differ |
| Permission and question brokers: `permission-broker.js`, `preauthorization.js`, `question-broker.js` | pending requests, grants | request, decide, answer, timeout, abort, revoke | a decision races a timer and an abort |
| Tool loop, governor, reviewer, ledger: `tools/loop.js`, `tools/governor.js`, `reviewer*.js`, `persistence/reviewer-ledger.js` | items of a batch, decisions, pending settlements | validate, review, begin, execute, commit, reconcile | authority can change between approval and execution; a review can be late; a settlement can fail |
| Lifecycle: `lifecycle.js` | state, child records | transition, start, finish | an unlisted transition throws in the middle of a turn |
| Recovery and completion supervisors: `reliability/` | episodes, progress fingerprints | noProgress, continuation, exhaustion | a turn has to end |
| Manifest transaction: `persistence/manifest-*.js` | target file, receipts database, staged and backup files | transact, reconcile | a crash between any two system calls |
| Telegram gateway: `gateway/`, `notifications/` | offset, inbox, replies | poll, accept, dispatch, notify | at-least-once delivery into bounded durable state |
| Context preparation, memory, skills, MCP, hooks, secrets, attachments, configuration | contents and tables | | effects outside the program, or results that depend on contents |
| Desktop service, activation, installation; OpenCode server; console; web client | a second product around the engine | | larger than the engine; presentation for the most part |

How they meet: an ingress (console, desktop, OpenCode, Telegram, headless)
calls the engine. The engine appends to the journal through one promise chain,
asks the scheduler for a provider slot once for every model call, hands tool
calls to the tool loop, which asks the governor, which asks the reviewer and,
through the permission broker, the operator. At start-up the engine takes the
session lock, reads the journal, restores what it finds and appends what it
decides about turns that were cut off.

What makes each part right:

- Engine: a turn gets one durable terminal record; a direction of the operator
  is consumed or abandoned once and never by a turn that had nothing to do
  with it; the engine is idle only after the commit; a parked turn wakes up;
  a cancelled turn ends; shutdown waits for the commit.
- Lock: one live writer; a dead writer does not keep the session locked.
- Scheduler: slots are accounted for; no limit is exceeded by a grant; a free
  slot is never left beside a waiter; whoever waits for ever waits behind a
  holder that never lets go.
- Store: what was acknowledged survives until the owner replaces it or a
  compaction drops it, and a store appends behind what a recovery returns.
- Brokers and tool loop: nothing runs without a decision that still holds when
  it starts; what may have changed something is never on record as if it had
  not; an approval nobody received is closed.
- Manifest: an operation replaces the revision its caller saw, once, and the
  caller can find out whether it did.

The hazards behind these properties are in `PROJECT.json`, each at the line
where it bites; those that no property covers say why.

## 2. Plan

Done, in this order, the session's concurrency and durability first:

1. `FairScheduler`, checked and proved.
2. `SessionTurn`, checked and proved.
3. `SessionLock`, checked and proved.
4. `DurableLog`, the promise of a journal, and `JournalStore`, which is checked
   and proved to implement it. `SessionTurn` and `ToolExecution` rely on the same contract:
   an append that returned is there after a restart, one that failed may be.
5. `ToolExecution`: tool loop, governor, reviewer, reviewer ledger, governance
   and the operator's prompt, composed around the calls of one batch; checked and
   proved.
6. `ManifestTransaction`, checked and proved.

Next:

7. Stored grants of the permission broker, and the question broker.
8. `StateAuthority`: the transition table against the call sites, as a
   refinement of the `running` state of `SessionTurn`.
9. `TelegramInbox`, and the recovery supervisor's bound on a turn without
   progress.

## 3. Modules

### FairScheduler

One resource of `provider/fair-scheduler.js`. The variables are the fields of
the record `#state` creates, plus the configuration and the promise of each
request (`st`). `AcquireRejected`, `AcquireNow` and `AcquireWait` are the three
ways out of `acquire`; `Abort` is a signal firing, which runs the listeners of
all waiters that share it, each followed by a pump; `Release`, `Configure` and
`SetDiscoveredLimit` end in a pump too. `#pump` is a loop: `PumpGrant`,
`PumpDrop` and `PumpEnd` are one iteration each, and `pc = "pump"` keeps
everything else out until it is over, as the single thread does. `Retry` is a
later call of `ProviderRunner.run` by a session whose `acquire` was rejected,
`NewSignal` the abort controller of its next turn.

### SessionTurn

One session: `engine.js`, `engine/step-loop.js`, `engine/steering.js`,
`engine/finalization.js`, `engine/attention.js`, `engine/initialize.js`,
`turn-cancellation.js`, `shutdown-boundary.js`, and as much of `store.js` and
`persistence/session-history.js` as they rely on. An action is the code from
one `await` to the next. `pc` says where the turn's own activity is; each
steering command has a state of its own in `cmd`; `stop` is the shutdown;
`closing` holds the turns whose finalization is past the commit and still
closes its tools, during which the engine is already idle.

An append is two steps: `Call` puts it at the end of the store's promise chain,
and one of `WriteOk`, `WriteFault`, `WriteRefused` answers it. A write that
fails or misses its deadline latches `failed` and may have reached the file all
the same. `Exit` is the end of the process at any moment: memory is lost, the
journal stays. `Start`, `RestoreNext` and `Ready` are `initializeEngine`, with
the replay of the records (`ActiveTurns`, `Kept`, `Pending`, `Orphaned`).

What a model step does is a choice among its results; so is the time wherever
the code reads a clock. The lifecycle states between `preparing_turn` and
`awaiting_attention` are one state, `running`.

### SessionLock

`persistence/session-lock.js` with a step for each system call: link, stat
after the link, read, probe of the process, rename, verification, link back,
and for release read and unlink. A process can die between any two. A process
links one file in its life, so the process stands for the inode.

### DurableLog and JournalStore

`DurableLog` is what the code that appends to a journal counts on: `log` is
what an opening would find now, `acked` the records whose append has returned.
A crash may take away what nobody was told is there (`Lose`). An operator may
drop records and nothing else (`Thin`). The owner may replace the journal by
whatever records it hands over (`Replace`), once it has asked for that
(`replacing`): the callers of `replace` reorder, regroup and write records of
their own (`persistence/reviewer-ledger.js`, `governance-engine.js` with
`governance/checkpoint.js`). `sound` says whether the promise stands.

`JournalStore` is `store.js` with `recoverJournal` and the operator's `repair`
and `compact` of `persistence/session-data.js`. The file is a sequence of
lines; a line carries the sequence of values before it in place of a hash of
them, and its form says whether it is whole, lacks its newline, is cut off or
has run together with another. `Verified` is the recovery: it stops at the
first line that does not parse or does not continue the chain. A store stands
for one opening of the journal and goes through the states `#append`,
`#replace` and `close` go through: composing, writing and syncing a line are
steps of their own, each of which may fail, and a write given up at its
deadline (`WriteTimeout`) stays under way until `LateWrite`. A process dies at
any step (`Crash`) and leaves any part of a line; power fails (`PowerLoss`) and
takes lines that were not synced. Renames are durable at once, and the prefix
an opening verified is taken to be on the disk.

The operator's commands hold no lock; `command` is what the one under way is at
and has read. Repair is the two renames of `restoreJournalFromVerifiedPrefix`:
`RepairRead` looks at the lock and takes the prefix preserved last, `RepairAway`
renames the journal away, `RepairIn` renames the prefix to the path, whatever is
there by then. When the second rename fails the journal is renamed back
(`RepairBack`). In between nothing is at the path: a session opened there starts
an empty journal (`OpenMissing`), and if the operator's process dies there, or
renaming back fails too, the journal is left under another name (`RepairLost`).
While it is away, `file` and the log stay those of the renamed file, since a
rename back makes it the journal again. Compaction reads (`CompactRead`) and
later renames what it kept to the path (`CompactSwap`).

Four things the journal cannot stand (`Harms`), and `hurt` remembers them: a
write that lands after its store was closed and another one, or a compaction,
has begun ("late"); a repair from a prefix that was preserved before the journal
went on growing ("stale"); a session opened during a compaction ("race"); the
path found empty because of a repair, by a session or because the repair was cut
off ("gap"). Each is possible in the code, and the properties of this module
speak of journals to which none has happened. In particular they do not say
that the deadline of `#flush` is harmless: its dangerous case, a line that
arrives behind another store's, is the first of the four. The third contradicts
the documentation (finding 3); about the others it says nothing. They are in the
list of hazards.

The refinement is `D`, the instance of `DurableLog` with `log <- Log`,
`sound <- (hurt = {})` and `replacing` true while a store is between closing its
file and the rename of `#replace`: as long as no harm has happened, every step
of the store is one of the log or a stutter.

### ToolExecution

One batch of tool calls. A step is what runs between two awaits. It begins when
the calls are validated and admitted: a call is sealed with its request
durable, or invalid and has its result. The reviewer (`Propose`, `Commit`,
`Authorize`, `Check`) goes on behind the boundary of its event when that has
been given up (`ReviewGivenUp`), so `reviewer` and `item` move independently:
`Reconcile` and `ReconcileCheck` are the governor's `#failedReview`, and which
of the two sees the other's record first is open. Its proposal is ahead of the
reconciliation in the queue of the ledger. The operator's prompt of the
permission broker is one step with its three results: a decision, a refusal
for whatever reason (answer, deadline, abort), an error.

`Begin`, `Start`, `Publish` and `Call` are the way from an approval to the
executor, with the comparison of authority (`drift`), the ledger's start and
the journal's started event in the order of the code. The executor runs on its
own: `Touch` is a change outside, which may also come after `GiveUp`. What an
executor reports of its effect is taken as true, read-only tools have none, and
"completed" stands for a success. `Settle`, `CommitResult`, `Account`,
`AccountGovernance` and `Postpone` are `#commit`; `ReconcilePending` is the next
batch's reconciliation. A journal that fails stays unavailable until the
restart and may have the record. `Crash` drops memory; `Restart` is the restored
session with `interruptedToolRepairs`. Governance is kept as memory alone: what
its own restart rebuilds is not modelled.

### ManifestTransaction

`persistence/manifest-transaction.js` and the two modules under it, one manifest
and a step for each system call that can fail. A file is its revision, the
digest of its bytes. The lease is SQLite's lock and dies with its process;
receipts are rows in the order of their insertion, `Window` of them are kept.
`RecoverLink` and `SettleReceipt` are `reconcileManifestReceipts`, which runs
when a lease begins and again in the catch of `commit` (`Catch`). Publishing has
the four forms of the code: link, rename, unlink and nothing. `Edit` is another
program that knows nothing of leases; `foreign` and `raced` remember what no
transaction could have noticed. The last comparison (`Compare`) and the insertion
of the receipt (`Prepare`) are two steps; an edit after the first counts as
foreign.

`told` is the persistence a caller finds in its outcome or its error. Every
error of the transaction that says nothing else says "unpublished"
(`manifestFailure`), also before any receipt was read: when the lease is busy,
when too many wait, when the path is not admitted (`AcquireFail`), when the file
cannot be read while a receipt is being settled (`Fault`). An operation that is
saved can so be answered "unpublished" when it is repeated. `AnswersHonest`
therefore takes "unpublished" as a statement about the attempt that was answered,
which is how `provider/bootstrap.js` uses it, and "saved", like every receipt, as
a statement about the operation; `disowned` remembers a published attempt whose
caller was told "unpublished".

The modules whose names begin with `MC` hold the values of constants that a
configuration cannot write and the symmetry sets.
An operator whose comment begins with `Mutant:` is a plausible bug in the
definition after it; it is used nowhere, and each property is known to fail
when one of them is put in place of its original.

## 4. Runs

| Run | Instance | Shows |
|---|---|---|
| `scheduler` | 3 requests, 2 owners, 2 signals (one shared), up to 2 slots, queue bound 1 or 2 | slots accounted for, limit never stale, no lost wakeup, aborted waiters gone, no grant over any limit, the head of the queue passed over at most once; whoever waits for ever waits behind a holder that never releases |
| `turn_safety` | 2 directions, 2 turns, 2 process starts, queue of 2 | disposition and terminal record once, across crashes; no direction reaches a turn it was not for; idle means committed; the completion checkpoint |
| `turn_liveness` | 2 directions, 1 turn of 2 steps, queue of 1, a shutdown | the bound on steering under racing admissions; shutdown closes the store after the commit; cancelled turns end, parked turns resume, steering is answered |
| `turn_disposition` | 1 direction, 1 turn, 2 starts | finding 1 below |
| `lock_safety` | 3 processes, 3 attempts | one live writer with its lock in place, release removes its own, unless a file that was not inspected is moved away; a process that acquires alone becomes the writer, whatever lock a dead one left |
| `lock_four` | 4 processes | finding 2 below |
| `journal_safety` | 3 openings, 2 values, 3 lines, 3 files at the path | until one of the four harms: the refinement of `DurableLog`; what was acknowledged is recovered; a store appends behind exactly what an opening would find |
| `journal_compaction` | 3 openings, 2 lines | finding 3 below |
| `tool_execution` | 2 calls, one by one or as a parallel group, a crash | no change outside is on record as absent; changes hold completion open until they are on record; ledger and transcript agree; an approval nobody received is closed; an approved call has a result |
| `tool_pairing` | 2 calls | finding 4 below |
| `tool_completion` | 2 calls | finding 5 below |
| `manifest` | 2 operations with every pair of 3 revisions, 1 receipt kept, 2 edits by other programs, 2 crashes | receipts and answers say what happened; the expected revision is replaced, once |

Why these bounds: two waiters of different owners and one of the same owner
are what `nextFairIndex` tells apart, and limits of one and two let the
capacity go up and down under waiters. Two directions race for one place or
leave in either order; two turns let a late direction meet the next turn; two
starts let a restart see what a crash left. A turn interrupted twice needs a
third start and brings no new kind of record. `turn_liveness` has one start,
since a shutdown concerns the memory of one process. On the lock three
processes are the dead owner, the contender and a bystander, or an owner that
leaves, a remover and one whose lock is moved; the theorems below cover any
number. Of three openings of a journal one leaves a late write or a torn line,
one meets it or appends behind it, and one recovers; a second file at the path
is the result of a replacement, a repair or a compaction, and a third comes
after it. The run stops at
states where the journal is hurt, since nothing is promised behind them; the
run of finding 3 goes on. Two calls are enough for one to throw or be cancelled
while the other is before, after or beside it. Two operations on a manifest
fight over a revision, and with one receipt kept the second pushes the first out
of the window; with two crashes the recovery is interrupted as well, and two
edits change the file and change it back.

Deadlock is not checked for the turn, the lock, the journal and the tool calls:
the bounds on turns, starts, processes and openings let the system stop, and a
batch ends. The scheduler and the manifest have none.

Fairness:

- Scheduler: `WF` of the pump, since the loop runs to its end, and nothing else.
  Callers release in a `finally` block, but the call inside it need not end: a
  request on a trusted local route has no deadline (`provider/router.js:64`,
  `src/docs/CONFIGURATION.md:96`). So `NoStarvation` does not say that a waiter
  is granted; it says that if one waits for ever, some holder never releases.
- Turn: `WF` of the store (a write has a deadline), of the turn's own
  continuations (a step, a hook and a tool have deadlines), of closing the
  tools, and of each steering command's continuations. None of submit, steer,
  cancel, shutdown or a restart is fair, nor is a process obliged to live.
- Lock: `WF` of the acquisition of each process: system calls return.

## 5. Findings

1. `turn_disposition`. The comment at `src/src/engine/steering-restore.js:3`
   promises that the journal never shows a `steering_accepted` without a
   successor. A crash after the durable `turn_outcome` and before
   `dropUnconsumedSteering` has written its records leaves one: the replay
   skips directions of a turn that has an outcome, so nothing abandons them
   after the restart. The direction itself is handled as intended (it steers
   nobody); it is the record that is missing.
2. `lock_four`. `#preserveStale` renames whatever is at the path when it runs,
   also when the inspection found the path empty. A lock linked by a live
   process in between is moved away until `verifyPreservedLock` links it back;
   a fourth process that acquires in that window is a second live writer. No
   crash is needed. `ExclusiveUnlessMoved` and its proof show that this is the
   only way: as long as every rename takes the file that was inspected, the
   lock excludes a second writer.
3. `journal_compaction`. `src/docs/CONFIGURATION.md:196` says that compaction
   refuses any lock file and retains all records at or after the newest
   snapshot. `compact` looks for the lock once and holds none
   (`src/src/persistence/session-data.js:151`); a session opened before the
   rename appends records that are synced and acknowledged and then gone.
4. `tool_pairing`. `src/src/tools/synthetic-results.js:2` and
   `src/test/tool-execution-pairing.test.js:57` say that a durable tool request
   never lacks its result. When a review throws, for instance because the
   permission queue is full, only approved calls get one: the call under review
   and the ones after it keep a request alone, and the repair at a restart looks
   at interrupted turns only. `ApprovedPaired` is what holds.
5. `tool_completion`. `src/src/persistence/reviewer-ledger.js:444` says that only
   a possible external effect may hold completion open. An approved call that
   was blocked because authority had drifted, or never dispatched because the
   turn was cancelled, gets a result but no terminal in the ledger, and stays
   unresolved there. The other direction holds: `EffectsHoldCompletion`.

## 6. Proofs

`FairSchedulerProofs` proves, for every finite set of requests, every
assignment of owners and signals, every `MaxConcurrency` and every set of queue
bounds: `TypeCorrect`, `SlotsAreAccounted`, `LimitIsCurrent`, `NoLostWakeup`,
`AbortIsDrained`, `GrantsAreWithinEveryLimit` and `HeadIsPassedOverOnce`.

The assumptions are those `FairScheduler` states about its constants: finitely
many requests, owners and signals assigned to all of them, a positive
concurrency, positive queue bounds.

The invariant is `Inv`, the conjunction of the five state properties. They are
not inductive one by one: that a release leaves no free slot beside a waiter
needs the counter to equal the number of grants and the cached limit to be the
real one; that the limit stays current when a request leaves needs the queue
to hold no request twice. `pc` matters in two of them: inside `#pump` a free
slot beside a waiter is allowed, and so is a waiter whose signal fired.
`NextInv` has a step for each action; what `#grant` and `cancel` do, which
several actions share, are the lemmas `GrantInv` and `CancelInv`, and what the
helpers return are `MinOfLeast`, `EffectiveLimitLeast`, `NextFairIndexInQueue`,
`RemoveIndexProperties` and `AppendDistinct`. `GrantsAreWithinEveryLimit` is an
action property: `GrowthIsGrant` shows that only a grant raises the counter,
and the invariant gives the limits at that moment. `HeadIsPassedOverOnce` is
another: what `nextFairIndex` chooses is `PassedOver`, and the head can only
stay the head if the one removed was behind it, since the queue holds nobody
twice.

`SessionLockProofs` proves, for every set of processes and every positive
number of attempts: `LockTypeCorrect`, `LockIsExclusive` and
`ReleaseTakesOwnLock`. Its invariant adds four facts to the types. Inside the
loop of `acquire` an attempt is left (`AttemptLeft`). What `#preserveStale`
works on was judged stale by looking at a process that is dead, and stays so
(`SeenIsStale`). A moved file is forgotten after a successful verification and
kept after a failed one (`StaleIsLocal`), so that `Moved`, once true, stays
true. And as long as it is false, a process between its link and its unlink has
its lock at the path (`HolderIsAtPath`): a rename takes the lock of a dead
process only. Exclusion follows, because there is one path.

`JournalStoreProofs` proves, for every set of openings and of values, journals
of any length and any number of files at the path: `JournalTypeCorrect`,
`AckedAreRecovered`, `ChainIsTheLog`, and `JournalImplementsLog`, the refinement
of `DurableLog`. It assumes that `None` is no value and that the bounds are
numbers. Two parts of the invariant always hold: only the last line of a file
can lack its newline (`Lined`), and what a store has under way fits its state
(`Writing`). `Sound` holds until the journal is hurt: what was acknowledged is
the beginning of the log; it is on the disk, and a last line without its newline
is not (`OnDisk`); while a command of the operator is under way no store has the
lock, compaction has read what the journal still holds, and repair works on a
journal that is corrupt (`Commanded`); one store
has the lock (`OneActive`), and its chain, its handle and the file belong
together (`OwnerFits`). `Lined` is there for power failures: without it a loss
that ends at a synced line could uncover a line without newline, to which the
next append would be glued. `Commanded` is what makes commands without a lock
harmless short of the harms: a corrupt journal is refused by an opening, so that
nobody has it open when repair renames it away. The proof stands on lemmas about the file alone:
what `recoverJournal` accepts is determined (`RecoversOnce`, `RecoversSome`),
what an append (`PutRecovers`), a changed last line (`LastChanges`), a rewritten
journal (`EncodeRecovers`) and a power failure (`LossRecovers`) make of it, and
that what `compact` keeps is what it read with some records dropped
(`ThinnedRest`). Each action's lemma proves, beside the
invariant, `LogStep`: what the action does to the log and to what was
acknowledged. The refinement then only has to compare `LogStep` with the actions
of `DurableLog`, and to know that the journal stays hurt (`HurtGrows`).

`ToolExecutionProofs` proves, for every set of calls and any number of crashes:
`ToolTypeCorrect`, `EffectsAreHonest`, `EffectsHoldTheTurn`,
`LedgerIsTheTranscript`, `GivenUpIsClosed` and `ApprovedHaveResults`. Its
invariant is a statement `Fits(r)` about every call, in ten parts: how the phase
of the batch, the place of the call in the loop, the reviewer, the ledger in
memory and on disk, the journal of the session, the executor and governance
belong together. None of the five properties is inductive without most of the
others: that a change outside is on record needs the order of ledger, journal
and executor in `Begin`, `Start`, `Publish` and `Call`, and that order is only
known if the reviewer, who may still be at work behind a review that was given
up, cannot touch the entry any more. A step of one call leaves the parts of the
others alone (`OthersApart`, `ApartFits`), which leaves one lemma per action
about its own call.

`ManifestTransactionProofs` proves, for all operations and revisions, every
window of receipts and any number of crashes and edits: `ManifestTypeCorrect`,
`AnswersAreHonest` and `PublicationsAreExpected`. The invariant says that an
operation has one receipt and at most one is prepared (`Rows`), which receipts
there are at each step of a lease (`Phases`), what was published by then
(`Progress`), that an operation without a receipt was not published (`Unknown`),
that the file tells what became of a prepared one unless it was edited
(`Telling`), and that nothing is published twice (`Once`). `AnswersHonest` is
part of it: a repeated request that gets as far is answered from a receipt, and
an attempt that has published ends in the receipt of its operation or in the
catch of `commit`, which says "saved" or "unknown" (`FaultInv`), never in the
default "unpublished" (`RefusedInv`).

`SessionTurnProofs` proves, for every finite set of directions, any number of
turns and of process starts, and every positive limit on model steps and on
steering: `SessionTypeCorrect`, `TurnEndsOnce`, `IdleMeansCommitted`,
`CheckpointIsHonoured` and `ShutdownHasCommitted`. It assumes that no direction
has the name of another activity and that `None` is neither a direction nor a
number. The invariant is built in layers, each of which rests on those before:

- `Shape`: the types, and how the place of the turn, the state of the engine,
  the active turn and the commands in flight belong together.
- `Asking`: every append pending in the store is the one its activity waits for,
  and no activity has two. Without it a write that succeeds could put anything
  into the journal.
- `TurnRecords`: a turn has one acceptance and one terminal record (`Once`); how
  far the active turn is agrees with what the journal says of it, and no other
  turn is open while the engine is up (`Recorded`); what a restart has left to
  interrupt is what the journal lacks (`Interrupts`). `Interrupts` is what makes
  the first two survive a crash in the middle of a restoration.
- `Checkpoint` and `Stopping`: what the completion checkpoint saw, and what a
  shutdown waited for.

The fifteen actions of the step loop that call no append are treated as one,
`TurnMove`: the proofs about them only need where the turn is, that it waits for
nothing, and what it may finalize with.

`SteeringProofs` goes on from there and proves `DirectionsDisposedOnce`,
`AuthorityStaysWithTurn`, `CompletionServesDirections` and
`SteeringStaysBounded`. A write that fails may have reached the file, so memory
and journal can disagree about a direction; but the store then refuses
everything until the process ends, and the parts of the invariant about memory
are claimed only while the store is `Writable`. The layers:

- `Admitted`: a direction is admitted once, for the turn its command names, and
  the state of the command says whether it can be disposed of already.
- `Queued`: what is queued or left to abandon belongs to a command that has its
  answer, or to one of a process that is gone, so that it and a late admission
  cannot both dispose of a direction.
- `Disposing`: journal, pending appends and what is left to append dispose of a
  direction once between them; a queued direction among these is the one being
  consumed or is about to be dropped.
- `Crossing`: a queued direction is of the active turn before its end, or of a
  turn that was interrupted.
- `Serving`: an accepted direction of an open turn is queued or consumed.
- `Bounded`: a restart finds at most one turn to interrupt (`Single`) and no more
  directions of it than the queue holds (`Few`), because each of them was queued
  or in flight when it was written (`Placing`). The bound of the code, a
  reservation in the memory of one process, holds over restarts only because of
  this.

`NumberLemmas` has what both need about numbers and finite sets: a least number,
a listing of places in their order, which is what makes `Selected` well defined,
and that a set whose members are equal has at most one.

The invariants of all modules but the first two were checked by TLC, on small
instances, before they were proved; the runs list the properties
that follow from them.

Every safety property of the passing runs is proved. Only model-checked is
liveness, since fairness is outside the prover's reach: `NoStarvation`,
`CancelEnds`, `ParkedResumes`, `SteerAnswered` and `SoleContenderAcquires`.

## 7. Left out

- Of the engine: output, telemetry and hooks except for the outcomes they can
  force; the contents of context, tools and provider calls; restoration from a
  truncated journal, where only control records are replayed. `Submit` folds the
  records of authority, mission and message that come before `turn_accepted`
  into it; in the code a direction can be accepted among them, ahead of
  `turn_accepted`, and the replay does not depend on that order.
- Of the store: two commands of the operator at once; a second rename of a repair
  that fails after a session was opened in between, where renaming back replaces
  the session's file (the journal is hurt by then); migration of old formats, the limits on what a resume reads,
  the scan for control records, paging, and deletion of a session.
- Of the tool calls: validation and admission, the cache of repeated results,
  the dispositions of missions, workflow leases, what the ledger and governance
  forget when they are full, several prompts at once and stored grants. An output
  or an event dispatch that throws while the journal works (`tools/loop.js:258`,
  `engine.js:430`) is left out, and so is the catch at `tools/loop.js:311`, which
  nothing reaches as `executePrepared` catches everything.
- Of the manifest: which paths are admitted, how many may wait, the checks of
  a document, migration, power failure, and staged files nobody refers to.
- Of the lock: repair by the operator, records without process identity,
  malformed files, a probe that cannot tell whether the process lives.
- Of the scheduler: several resources, which share only the configuration, and
  the arguments that are refused before anything changes.
- The parts listed as not modelled in `PROJECT.json`, each with its reason. By
  lines most of the repository is among them: the desktop application, the web
  client, the console and their servers are presentation around the engine, and
  tools, providers, memory and skills are effects outside the program or depend
  on contents.
