---------------------------- MODULE SessionTurn ----------------------------
(***************************************************************************)
(* One session of the engine (src/src/engine.js and src/src/engine/): the  *)
(* operator submits turns, steers the running one, cancels it, shuts the   *)
(* runtime down; the process may die at any moment and be started again    *)
(* over the journal it left.                                               *)
(*                                                                         *)
(* Several asynchronous activities share the engine's memory: the turn     *)
(* (submit, #runTurn, runModelStepLoop, finalizeOnce), the steering        *)
(* commands (steerEngineTurn), cancel, shutdown, and at start-up the       *)
(* restoration (initializeEngine).  Each runs atomically between two       *)
(* awaits, so an action is the code from one await to the next.            *)
(*                                                                         *)
(* The journal store is modelled as its callers see it: append joins the   *)
(* tail of pending writes (#enqueue), writes are done in that order, a     *)
(* write that fails or misses its deadline latches persistenceFailed and   *)
(* may still have reached the file.                                        *)
(*                                                                         *)
(* The states of StateAuthority between preparing_turn and                 *)
(* awaiting_attention are one state here, "running".  Of the records a     *)
(* turn writes, those that restoration reads for turns and steering are    *)
(* kept.  What a model step does is a choice among its possible results.   *)
(***************************************************************************)
EXTENDS Naturals, Sequences, FiniteSets

CONSTANTS
    Steers,        \* the steering commands that may be issued
    MaxTurns,      \* bound: turns submitted
    MaxSteps,      \* limits.maxModelSteps
    MaxSteering,   \* limits.maxSteering
    MaxStarts,     \* bound: times the process is started
    MaxShutdowns,  \* bound: the first starts that see a shutdown command
    None           \* no turn, no command

ASSUME StepsAssumption == MaxSteps \in Nat \ {0} /\ MaxSteering \in Nat \ {0}
ASSUME BoundsAssumption == {MaxTurns, MaxStarts, MaxShutdowns} \subseteq Nat
ASSUME SteersAssumption == IsFiniteSet(Steers) /\ Steers \cap {"turn", "init", "close"} = {}
ASSUME NoneAssumption == None \notin Steers /\ None \notin Nat

VARIABLES
    journal,   \* durable records, oldest first
    starts,    \* process starts so far
    turns,     \* turns submitted so far; turn identities are 1 .. turns
    up,        \* "down", "restoring", "up"
    tail,      \* appends called and not yet done
    reply,     \* reply[w]: what the append of activity w came to
    failed,    \* store.persistenceFailed
    closed,    \* the journal handle is closed
    state,     \* engine.state
    active,    \* engine.active: the turn, or None
    finalized, \* active.finalized
    cancelled, \* active.cancelled, and its abort signal
    pc,        \* where the turn's activity is
    ret,       \* where #consumeSteering returns to
    steps,     \* modelStepIndex
    outcome,   \* faults.outcome
    woken,     \* the attention waiter has been resolved
    begun,     \* admissions in flight when the completion checkpoint began
    closing,   \* turns whose finalization is past the commit, in tools.close()
    steering,  \* engine.steering
    cmd,       \* the steering commands
    stop,      \* performEngineShutdown: "no", "join", "close", "closed"
    awaited,   \* the turn whose completion it awaits
    todo       \* records a restoration or a drop still has to append

durable == <<journal, starts, turns>>
store   == <<tail, reply, failed, closed>>
turnVars == <<active, finalized, cancelled, pc, ret, steps, outcome, woken,
              begun>>
vars == <<durable, store, turnVars, up, state, closing, steering, cmd,
          stop, awaited, todo>>

Outcomes == {"completed", "limit_reached", "cancelled", "failed", "declined"}
Turns == 1 .. MaxTurns
Activities == Steers \cup {"turn", "init"}

Rec(type, id, turn) == [type |-> type, id |-> id, turn |-> turn]
Item(id, turn) == [id |-> id, turn |-> turn]

\* The members of s at the places I, in their order: Array.filter.
Selected(s, I) ==
    LET n == Cardinality(I)
        at == CHOOSE at \in [1 .. n -> I] : \A i, j \in 1 .. n : i < j => at[i] < at[j]
    IN  [k \in 1 .. n |-> s[at[k]]]

----------------------------------------------------------------------------
(* The store. *)

\* JournalStore.append, up to its first await.
Call(w, rec) ==
    /\ tail' = Append(tail, [who |-> w, rec |-> rec])
    /\ reply' = [reply EXCEPT ![w] = "wait"]

\* An activity picks up the result of its append.
Got(w, r) == reply[w] = r

\* #append of the oldest pending call succeeds.
WriteOk ==
    /\ tail # <<>> /\ ~failed /\ ~closed /\ Head(tail).who \in Activities
    /\ journal' = Append(journal, Head(tail).rec)
    /\ reply' = [reply EXCEPT ![Head(tail).who] = "ok"]
    /\ tail' = Tail(tail)
    /\ UNCHANGED <<starts, turns, failed, closed, turnVars, up, state, closing,
                   steering, cmd, stop, awaited, todo>>

\* It fails, or its flush misses the deadline: the latch is set, and the bytes
\* may be in the file all the same.
WriteFault ==
    /\ tail # <<>> /\ ~failed /\ ~closed /\ Head(tail).who \in Activities
    /\ journal' \in {journal, Append(journal, Head(tail).rec)}
    /\ failed' = TRUE
    /\ reply' = [reply EXCEPT ![Head(tail).who] = "err"]
    /\ tail' = Tail(tail)
    /\ UNCHANGED <<starts, turns, closed, turnVars, up, state, closing,
                   steering, cmd, stop, awaited, todo>>

\* persistence_unavailable after the latch, store_closed after close.
WriteRefused ==
    /\ tail # <<>> /\ (failed \/ closed) /\ Head(tail).who \in Activities
    /\ reply' = [reply EXCEPT ![Head(tail).who] = "err"]
    /\ tail' = Tail(tail)
    /\ UNCHANGED <<durable, failed, closed, turnVars, up, state, closing,
                   steering, cmd, stop, awaited, todo>>

\* #close, which waits for the appends called before it.
WriteClose ==
    /\ tail # <<>> /\ Head(tail).who = "close"
    /\ closed' = TRUE
    /\ tail' = Tail(tail)
    /\ UNCHANGED <<durable, reply, failed, turnVars, up, state, closing,
                   steering, cmd, stop, awaited, todo>>

----------------------------------------------------------------------------
(* The turn. *)

\* submit: only from idle, whatever the journal or a shutdown is doing.  The
\* records of authority, mission and message before turn_accepted are part of it.
Submit ==
    /\ up = "up" /\ state = "idle"
    /\ turns < MaxTurns
    /\ turns' = turns + 1
    /\ active' = turns + 1
    /\ finalized' = FALSE /\ cancelled' = FALSE /\ woken' = FALSE
    /\ steps' = 0 /\ outcome' = "completed" /\ begun' = {}
    /\ state' = "running"
    /\ pc' = "accept" /\ ret' = "loop"
    /\ Call("turn", Rec("turn_accepted", None, turns + 1))
    /\ UNCHANGED <<journal, starts, failed, closed, up, closing, steering, cmd,
                   stop, awaited, todo>>

\* #finalize: the flag is set at once, finalizeOnce runs in a later microtask.
\* The loop is left, its locals with it.
Finalize(o) ==
    /\ finalized' = TRUE
    /\ outcome' = o
    /\ pc' = "finalize"
    /\ ret' = "loop" /\ steps' = 0 /\ woken' = FALSE

\* An exception in the turn: #runTurn's catch.
Throw == Finalize(IF cancelled THEN "cancelled" ELSE "failed")

\* The turn goes on to p.
Goto(p) == pc' = p /\ UNCHANGED <<finalized, outcome>>

AcceptWritten ==
    /\ pc = "accept"
    /\ \/ Got("turn", "ok") /\ Goto("start") /\ UNCHANGED <<ret, steps, woken>>
       \/ Got("turn", "err") /\ Finalize("failed")
    /\ UNCHANGED <<durable, store, active, cancelled, begun, up, state,
                   closing, steering, cmd, stop, awaited, todo>>

\* What every action of the turn between two appends leaves alone.
TurnOnly == UNCHANGED <<durable, store, active, cancelled, up, state, closing,
                        steering, cmd, stop, awaited, todo>>

\* #runTurn up to the first step: the pre-turn hook or the attachments may end
\* the turn (denied, needs_input).
TurnStart ==
    /\ pc = "start"
    /\ \/ cancelled /\ Throw
       \/ ~cancelled /\ Finalize("declined")
       \/ ~cancelled /\ Goto("step") /\ UNCHANGED <<ret, steps, woken>>
    /\ UNCHANGED begun
    /\ TurnOnly

\* Mutant: the loop goes on at the limit.
WithinStepLimitOff == steps <= MaxSteps
\* limits.maxModelSteps leaves room for a step.
WithinStepLimit == steps < MaxSteps

\* Top of the loop in runModelStepLoop, after a step.  limits.turnWallClockMs
\* may have passed by now: time is a choice wherever it is read.
LoopTop ==
    /\ pc = "loop"
    /\ \/ Finalize("limit_reached")
       \/ /\ WithinStepLimit
          /\ Goto("step") /\ UNCHANGED <<ret, steps, woken>>
    /\ UNCHANGED begun
    /\ TurnOnly

\* #runModelStep ends.  A step that ran tools, or ended in text while steering
\* was queued, consumes the steering; a text step may be the answer; recovery
\* may retry, or be exhausted; anything may throw, and does after an abort.
\* Some recovery steps are not counted.
StepReturns(p, rs) ==
    /\ pc = "step" /\ ~cancelled
    /\ steps' \in {steps, steps + 1}
    /\ Goto(p) /\ ret' \in rs
    /\ UNCHANGED <<woken, begun>>
    /\ TurnOnly

StepContinues == StepReturns("loop", {"loop"})
StepConsumes  == StepReturns("consume", {"loop", "checkpoint", "attention"})
StepAnswers   == steering = <<>> /\ StepReturns("checkpoint", {"loop"})
StepExhausted == StepReturns("attention", {"loop"})

StepThrows ==
    /\ pc = "step"
    /\ Throw
    /\ UNCHANGED begun
    /\ TurnOnly

\* #consumeSteering: commit the consumption of the oldest item.
ConsumeNext ==
    /\ pc = "consume" /\ steering # <<>>
    /\ Call("turn", Rec("steering_consumed", Head(steering).id, active))
    /\ pc' = "consuming"
    /\ UNCHANGED <<durable, failed, closed, active, finalized, cancelled, ret,
                   steps, outcome, woken, begun, up, state, closing, steering,
                   cmd, stop, awaited, todo>>

ConsumeWritten ==
    /\ pc = "consuming"
    /\ \/ /\ Got("turn", "ok")
          /\ steering' = Tail(steering)
          /\ Goto("consume") /\ UNCHANGED <<ret, steps, woken>>
       \/ /\ Got("turn", "err")
          /\ Throw
          /\ UNCHANGED steering
    /\ UNCHANGED <<durable, store, active, cancelled, begun, up, state,
                   closing, cmd, stop, awaited, todo>>

\* prepareContext and the events around a consumption observe the abort.
ConsumeAborted ==
    /\ pc = "consume" /\ cancelled
    /\ Throw
    /\ UNCHANGED begun
    /\ TurnOnly

ConsumeDone ==
    /\ pc = "consume" /\ steering = <<>>
    /\ Goto(ret) /\ ret' = "loop"
    /\ UNCHANGED <<steps, woken, begun>>
    /\ TurnOnly

\* Admissions of the active turn that have not settled.
InFlight(t) == {s \in Steers : cmd[s].turn = t
                               /\ cmd[s].st \in {"accepting", "abandoning"}}
Admissions == Cardinality(InFlight(active))

\* The completion checkpoint: awaitSteeringAdmissions.
CheckpointEnter ==
    /\ pc = "checkpoint"
    /\ begun' = InFlight(active)
    /\ Goto("admissions")
    /\ UNCHANGED <<ret, steps, woken>>
    /\ TurnOnly

\* Mutant: the count is not looked at.
AdmissionsDoneUnread == TRUE
\* active.steeringAdmissions is back to zero.
AdmissionsDone == Admissions = 0

\* It returns early when the clock has run out, and the turn then stops.
AdmissionsSettled ==
    /\ pc = "admissions"
    /\ \/ cancelled /\ Throw
       \/ ~cancelled /\ Finalize("limit_reached")
       \/ /\ ~cancelled /\ AdmissionsDone
          /\ Goto("decide") /\ UNCHANGED <<ret, steps, woken>>
    /\ UNCHANGED begun
    /\ TurnOnly

\* Mutant: the queue is not looked at again after the wait.
NothingQueuedUnread == TRUE
\* No direction came in meanwhile.
NothingQueued == steering = <<>>

\* After the checkpoint: stop at a limit, serve what was queued meanwhile, or
\* complete.  A cancellation that came after the check makes the transition to
\* evaluating_completion illegal, unless a declaration has settled it before.
Decide ==
    /\ pc = "decide"
    /\ \/ Finalize("limit_reached")
       \/ /\ ~NothingQueued /\ WithinStepLimit
          /\ Goto("consume") /\ UNCHANGED <<ret, steps, woken>>
       \/ /\ NothingQueued
          /\ Finalize("completed") \/ (cancelled /\ Throw)
    /\ UNCHANGED begun
    /\ TurnOnly

\* Mutant: a direction queued before the waiter existed does not resolve it.
ArmedAwakeNever == FALSE
\* The waiter is resolved as it is installed when a direction is queued.
ArmedAwake == steering # <<>>

\* awaitEngineAttention: park until the operator steers or cancels; under a
\* manifest without the steering capability the turn ends instead.
AttentionArm ==
    /\ pc = "attention"
    /\ \/ cancelled /\ Throw
       \/ ~cancelled /\ Finalize("limit_reached")
       \/ /\ ~cancelled
          /\ Goto("waiting") /\ woken' = ArmedAwake
          /\ UNCHANGED <<ret, steps>>
    /\ UNCHANGED begun
    /\ TurnOnly

AttentionResume ==
    /\ pc = "waiting" /\ woken
    /\ \/ (cancelled \/ steering = <<>>) /\ Throw
       \/ /\ ~cancelled /\ steering # <<>>
          /\ Goto("consume") /\ woken' = FALSE
          /\ UNCHANGED <<ret, steps>>
    /\ UNCHANGED begun
    /\ TurnOnly

\* finalizeOnce, up to the commit.  A failure captured on the way turns the
\* outcome into failed, unless the turn had failed or stopped already.
FinalizeOnce ==
    /\ pc = "finalize"
    /\ state' = "finalizing_turn"
    /\ \E o \in IF outcome = "completed" THEN {outcome, "failed"} ELSE {outcome} :
         /\ outcome' = o
         /\ Call("turn", Rec("turn_outcome", o, active))
    /\ pc' = "commit"
    /\ UNCHANGED <<durable, failed, closed, active, finalized, cancelled, ret,
                   steps, woken, begun, up, closing, steering, cmd, stop,
                   awaited, todo>>

\* The steering of this turn that nothing consumed.
Unconsumed == Selected(steering, {i \in DOMAIN steering : steering[i].turn = active})

Abandonments(items) ==
    [i \in DOMAIN items |-> Rec("steering_abandoned", items[i].id, items[i].turn)]

\* Mutant: a commit that cannot be verified is captured like the other faults.
CommitFaultCaptured == "drop"
\* Where finalizeOnce is when the commit fails: its promise rejects.
CommitFault == "wedged"

\* The durable terminal record is the commit point: without it the engine
\* stays in finalizing_turn, with its active turn.
CommitWritten ==
    /\ pc = "commit"
    /\ \/ /\ Got("turn", "ok")
          /\ todo' = Abandonments(Unconsumed)
          /\ pc' = "drop"
       \/ /\ Got("turn", "err")
          /\ pc' = CommitFault
          /\ UNCHANGED todo
    /\ UNCHANGED <<durable, store, active, finalized, cancelled, ret, steps,
                   outcome, woken, begun, up, state, closing, steering, cmd,
                   stop, awaited>>

\* dropUnconsumedSteering: one durable steering_abandoned per item; they leave
\* memory together, and only when all were written.
DropNext ==
    /\ pc = "drop" /\ todo # <<>>
    /\ Call("turn", Head(todo))
    /\ todo' = Tail(todo)
    /\ pc' = "dropping"
    /\ UNCHANGED <<durable, failed, closed, active, finalized, cancelled, ret,
                   steps, outcome, woken, begun, up, state, closing, steering,
                   cmd, stop, awaited>>

DropWritten ==
    /\ pc = "dropping"
    /\ \/ Got("turn", "ok") /\ pc' = "drop" /\ UNCHANGED todo
       \/ Got("turn", "err") /\ pc' = "settle" /\ todo' = <<>>
    /\ UNCHANGED <<durable, store, active, finalized, cancelled, ret, steps,
                   outcome, woken, begun, up, state, closing, steering, cmd,
                   stop, awaited>>

DropDone ==
    /\ pc = "drop" /\ todo = <<>>
    /\ steering' = Selected(steering, {i \in DOMAIN steering : steering[i].turn # active})
    /\ pc' = "settle"
    /\ UNCHANGED <<durable, store, active, finalized, cancelled, ret, steps,
                   outcome, woken, begun, up, state, closing, cmd, stop,
                   awaited, todo>>

\* Back to idle; tools.close() is awaited with the turn still active.
Settle ==
    /\ pc = "settle"
    /\ state' = "idle"
    /\ closing' = closing \cup {active}
    /\ pc' = "none" /\ outcome' = "completed" /\ begun' = {}
    /\ UNCHANGED <<durable, store, active, finalized, cancelled, ret, steps,
                   woken, up, steering, cmd, stop, awaited, todo>>

\* tools.close() is done: the turn is forgotten, unless another one has begun.
ToolsClosed(t) ==
    /\ t \in closing
    /\ closing' = closing \ {t}
    /\ \/ /\ state = "idle"
          /\ active' = None /\ finalized' = FALSE /\ cancelled' = FALSE
       \/ state # "idle" /\ UNCHANGED <<active, finalized, cancelled>>
    /\ UNCHANGED <<durable, store, pc, ret, steps, outcome, woken, begun, up,
                   state, steering, cmd, stop, awaited, todo>>

----------------------------------------------------------------------------
(* Commands. *)

\* Mutant: admissions under way are not counted.
HasRoomQueueOnly == Len(steering) < MaxSteering
\* The reservation: queue and admissions share limits.maxSteering.
HasRoom == Len(steering) + Admissions < MaxSteering

\* steerEngineTurn, up to the append of steering_accepted.
SteerCall(s) ==
    /\ up = "up" /\ cmd[s].st = "new"
    /\ \/ /\ active = None \/ finalized
          /\ cmd' = [cmd EXCEPT ![s] = [st |-> "refused", turn |-> None]]
          /\ UNCHANGED <<tail, reply>>
       \/ /\ active # None /\ ~finalized
          /\ ~HasRoom
          /\ cmd' = [cmd EXCEPT ![s] = [st |-> "refused", turn |-> None]]
          /\ UNCHANGED <<tail, reply>>
       \/ /\ active # None /\ ~finalized
          /\ HasRoom
          /\ cmd' = [cmd EXCEPT ![s] = [st |-> "accepting", turn |-> active]]
          /\ Call(s, Rec("steering_accepted", s, active))
    /\ UNCHANGED <<durable, failed, closed, turnVars, up, state, closing,
                   steering, stop, awaited, todo>>

\* Mutant: the turn is not looked at again after the append.
StillOpenUnread(s) == TRUE
\* The turn the command was for is still the active one and still open.
StillOpen(s) == active = cmd[s].turn /\ ~finalized

\* attentionWaiter.resolve('steering').
SteerWakes == woken \/ pc = "waiting"

\* The append of steering_accepted is back.
SteerWritten(s) ==
    /\ cmd[s].st = "accepting"
    /\ \/ /\ Got(s, "ok") /\ StillOpen(s)
          /\ steering' = Append(steering, Item(s, cmd[s].turn))
          /\ cmd' = [cmd EXCEPT ![s].st = "accepted"]
          /\ woken' = SteerWakes
          /\ UNCHANGED <<tail, reply>>
       \/ /\ Got(s, "ok") /\ ~StillOpen(s)
          /\ cmd' = [cmd EXCEPT ![s].st = "abandoning"]
          /\ Call(s, Rec("steering_abandoned", s, cmd[s].turn))
          /\ UNCHANGED <<steering, woken>>
       \/ /\ Got(s, "err")
          /\ cmd' = [cmd EXCEPT ![s].st = "error"]
          /\ UNCHANGED <<steering, woken, tail, reply>>
    /\ UNCHANGED <<durable, failed, closed, active, finalized, cancelled, pc,
                   ret, steps, outcome, begun, up, state, closing, stop,
                   awaited, todo>>

\* Mutant: a failed abandonment leaves the command unanswered.
SteerAbandonedUnanswered(s) ==
    /\ cmd[s].st = "abandoning" /\ Got(s, "ok")
    /\ cmd' = [cmd EXCEPT ![s].st = "refused"]
    /\ UNCHANGED <<durable, store, turnVars, up, state, closing, steering, stop,
                   awaited, todo>>

\* The append of its steering_abandoned is back.
SteerAbandoned(s) ==
    /\ cmd[s].st = "abandoning"
    /\ \/ Got(s, "ok") /\ cmd' = [cmd EXCEPT ![s].st = "refused"]
       \/ Got(s, "err") /\ cmd' = [cmd EXCEPT ![s].st = "error"]
    /\ UNCHANGED <<durable, store, turnVars, up, state, closing, steering,
                   stop, awaited, todo>>

\* Mutant: the abort signal does not resolve the waiter.
AbortWakesNot == woken
\* attentionWaiter listens to the abort signal.
AbortWakes == woken \/ pc = "waiting"

\* cancel and requestTurnCancel.
CancelTurn ==
    /\ cancelled' = TRUE
    /\ woken' = AbortWakes
    /\ state' = IF state \in {"finalizing_turn", "idle"} THEN state
                ELSE "cancelling"

Cancel ==
    /\ up = "up" /\ active # None /\ ~cancelled
    /\ CancelTurn
    /\ UNCHANGED <<durable, store, active, finalized, pc, ret, steps, outcome,
                   begun, up, closing, steering, cmd, stop, awaited, todo>>

\* performEngineShutdown: without an active turn the engine leaves idle at once,
\* with one it cancels it and awaits its completion.
Shutdown ==
    /\ up = "up" /\ stop = "no" /\ starts <= MaxShutdowns
    /\ \/ /\ active = None
          /\ stop' = "close"
          /\ state' = "shutting_down"
          /\ UNCHANGED <<cancelled, woken, awaited>>
       \/ /\ active # None
          /\ stop' = "join" /\ awaited' = active
          /\ CancelTurn
    /\ UNCHANGED <<durable, store, active, finalized, pc, ret, steps, outcome,
                   begun, up, closing, steering, cmd, todo>>

\* Mutant: shutdown does not await the completion.
OverAtOnce(t) == TRUE
\* The operation of turn t has settled.
Over(t) == t \notin closing /\ (active = t => pc \in {"none", "wedged"})

\* The awaited turn is over.  Another one may have been submitted while the
\* engine was idle and the tools were closing: the cleanup then goes on from
\* whatever state that turn is in.
ShutdownJoin ==
    /\ stop = "join" /\ Over(awaited)
    /\ stop' = "close"
    /\ state' = IF state = "idle" THEN "shutting_down" ELSE state
    /\ UNCHANGED <<durable, store, turnVars, up, closing, steering, cmd, awaited,
                   todo>>

\* store.close joins the pending writes.
ShutdownClose ==
    /\ stop = "close"
    /\ stop' = "closed" /\ UNCHANGED awaited
    /\ tail' = Append(tail, [who |-> "close", rec |-> Rec("close", None, None)])
    /\ UNCHANGED <<durable, reply, failed, closed, turnVars, up, state,
                   closing, steering, cmd, todo>>

----------------------------------------------------------------------------
(* Process death, and restoration from the journal. *)

\* What a process that starts finds in its memory.
Fresh ==
    /\ tail' = <<>> /\ reply' = [w \in Activities |-> "none"]
    /\ failed' = FALSE /\ closed' = FALSE
    /\ state' = "idle" /\ active' = None
    /\ finalized' = FALSE /\ cancelled' = FALSE
    /\ woken' = FALSE /\ pc' = "none" /\ ret' = "loop" /\ steps' = 0
    /\ outcome' = "completed" /\ begun' = {} /\ closing' = {}
    /\ stop' = "no" /\ awaited' = None

\* A command whose process is gone gets no answer.
Lost == [s \in Steers |->
           IF cmd[s].st \in {"accepting", "abandoning"}
           THEN [cmd[s] EXCEPT !.st = "lost"] ELSE cmd[s]]

\* The process exits, by crash, by the end of shutdown or of a failed start.
Exit ==
    /\ up # "down"
    /\ up' = "down"
    /\ Fresh
    /\ steering' = <<>> /\ todo' = <<>>
    /\ cmd' = Lost
    /\ UNCHANGED durable

TypesOf(type) == {i \in DOMAIN journal : journal[i].type = type}
TurnsOf(type) == {journal[i].turn : i \in TypesOf(type)}
IdsOf(type) == {journal[i].id : i \in TypesOf(type)}

\* restoreSessionRecords over a journal read whole.
TerminalTurns == TurnsOf("turn_outcome")
\* Mutant: an outcome does not take the turn out of activeTurns.
ActiveTurnsNoOutcome == TurnsOf("turn_accepted") \ TurnsOf("turn_interrupted")
ActiveTurns == TurnsOf("turn_accepted")
                 \ (TerminalTurns \cup TurnsOf("turn_interrupted"))

\* Mutant: a consumption is not replayed.
KeptConsumed == {i \in TypesOf("steering_accepted") :
                   /\ journal[i].turn \notin TerminalTurns
                   /\ journal[i].id \notin IdsOf("steering_abandoned")}
Kept == {i \in TypesOf("steering_accepted") :
           /\ journal[i].turn \notin TerminalTurns
           /\ journal[i].id \notin IdsOf("steering_consumed") \cup IdsOf("steering_abandoned")}

Pending == Selected(journal, {i \in Kept : journal[i].turn \in ActiveTurns})
Orphaned == Selected(journal, {i \in Kept : journal[i].turn \notin ActiveTurns})

\* activeTurns in insertion order, for #markInterrupted.
Interrupted == Selected(journal, {i \in TypesOf("turn_accepted") : journal[i].turn \in ActiveTurns})

\* #restore puts the pending steering back in the queue; abandonOrphanedSteering
\* and #markInterrupted then append their records one by one.
Start ==
    /\ up = "down" /\ starts < MaxStarts
    /\ starts' = starts + 1
    /\ up' = "restoring"
    /\ steering' = [i \in DOMAIN Pending |-> Item(Pending[i].id, Pending[i].turn)]
    /\ todo' = Abandonments(Orphaned)
               \o [i \in DOMAIN Interrupted |->
                     Rec("turn_interrupted", None, Interrupted[i].turn)]
    /\ UNCHANGED <<journal, turns, store, turnVars, state, closing, cmd, stop,
                   awaited>>

RestoreNext ==
    /\ up = "restoring" /\ todo # <<>> /\ reply["init"] \in {"none", "ok"}
    /\ Call("init", Head(todo))
    /\ todo' = Tail(todo)
    /\ UNCHANGED <<durable, failed, closed, turnVars, up, state, closing,
                   steering, cmd, stop, awaited>>

\* Restoration is complete (a failed append makes initialize throw: Exit).
Ready ==
    /\ up = "restoring" /\ todo = <<>> /\ reply["init"] \in {"none", "ok"}
    /\ up' = "up"
    /\ UNCHANGED <<durable, store, turnVars, state, closing, steering, cmd,
                   stop, awaited, todo>>

----------------------------------------------------------------------------
Init ==
    /\ journal = <<>> /\ starts = 0 /\ turns = 0
    /\ up = "down"
    /\ tail = <<>> /\ reply = [w \in Activities |-> "none"]
    /\ failed = FALSE /\ closed = FALSE
    /\ state = "idle" /\ active = None
    /\ finalized = FALSE /\ cancelled = FALSE
    /\ woken = FALSE /\ pc = "none" /\ ret = "loop" /\ steps = 0
    /\ outcome = "completed" /\ begun = {} /\ closing = {}
    /\ steering = <<>>
    /\ cmd = [s \in Steers |-> [st |-> "new", turn |-> None]]
    /\ stop = "no" /\ awaited = None /\ todo = <<>>

Store == WriteOk \/ WriteFault \/ WriteRefused \/ WriteClose

Turn ==
    \/ AcceptWritten \/ TurnStart \/ LoopTop
    \/ StepContinues \/ StepConsumes \/ StepAnswers \/ StepExhausted \/ StepThrows
    \/ ConsumeNext \/ ConsumeWritten \/ ConsumeAborted \/ ConsumeDone
    \/ CheckpointEnter \/ AdmissionsSettled \/ Decide
    \/ AttentionArm \/ AttentionResume
    \/ FinalizeOnce \/ CommitWritten
    \/ DropNext \/ DropWritten \/ DropDone \/ Settle

Steer(s) == SteerCall(s) \/ SteerWritten(s) \/ SteerAbandoned(s)

Next ==
    \/ Store \/ Submit \/ Turn
    \/ \E t \in Turns : ToolsClosed(t)
    \/ \E s \in Steers : Steer(s)
    \/ Cancel \/ Shutdown \/ ShutdownJoin \/ ShutdownClose
    \/ Exit \/ Start \/ RestoreNext \/ Ready

Spec == Init /\ [][Next]_vars

\* Writes are bounded by the flush deadline, a model step, a hook and a tool by
\* theirs, and the event loop runs every continuation that is due.  Nothing
\* obliges the operator to act or the process to live.
FairSpec ==
    /\ Spec
    /\ WF_vars(Store) /\ WF_vars(Turn)
    /\ \A t \in Turns : WF_vars(ToolsClosed(t))
    /\ \A s \in Steers : WF_vars(SteerWritten(s)) /\ WF_vars(SteerAbandoned(s))

----------------------------------------------------------------------------
(* Properties. *)

\* What the journal holds.
Records ==
    [type : {"turn_accepted", "turn_interrupted"}, id : {None}, turn : Turns]
    \cup [type : {"turn_outcome"}, id : Outcomes, turn : Turns]
    \cup [type : {"steering_accepted", "steering_consumed", "steering_abandoned"},
          id : Steers, turn : Turns]
Places == {"none", "accept", "start", "loop", "step", "consume", "consuming",
           "checkpoint", "admissions", "decide", "attention", "waiting",
           "finalize", "commit", "drop", "dropping", "settle", "wedged"}
Commands == [st : {"new", "accepting", "abandoning", "accepted", "refused",
                   "error", "lost"},
             turn : Turns \cup {None}]

JournalTypes == journal \in Seq(Records) /\ todo \in Seq(Records)
StoreTypes ==
    /\ tail \in Seq([who : Activities, rec : Records]
                    \cup {[who |-> "close", rec |-> Rec("close", None, None)]})
    /\ reply \in [Activities -> {"none", "wait", "ok", "err"}]
    /\ failed \in BOOLEAN /\ closed \in BOOLEAN
TurnTypes ==
    /\ active \in Turns \cup {None}
    /\ finalized \in BOOLEAN /\ cancelled \in BOOLEAN /\ woken \in BOOLEAN
    /\ pc \in Places /\ ret \in {"loop", "checkpoint", "attention"}
    /\ steps \in 0 .. MaxSteps /\ outcome \in Outcomes /\ begun \subseteq Steers
EngineTypes ==
    /\ starts \in 0 .. MaxStarts /\ turns \in 0 .. MaxTurns
    /\ up \in {"down", "restoring", "up"}
    /\ state \in {"idle", "running", "cancelling", "finalizing_turn",
                  "shutting_down"}
    /\ closing \subseteq Turns /\ awaited \in Turns \cup {None}
    /\ stop \in {"no", "join", "close", "closed"}
SteeringTypes ==
    /\ steering \in Seq([id : Steers, turn : Turns])
    /\ cmd \in [Steers -> Commands]

\* The engine's variables keep their types: a model step beyond the limit is not
\* begun, and each record carries what restoreSessionRecords expects of its kind.
TypeOK == JournalTypes /\ StoreTypes /\ TurnTypes /\ EngineTypes /\ SteeringTypes

\* An admitted direction is consumed or abandoned at most once, whatever crashes
\* and restarts come between (engine.js, the comment in #consumeSteering).
DisposedOnce ==
    \A s \in Steers :
      Cardinality({i \in DOMAIN journal : journal[i].id = s
        /\ journal[i].type \in {"steering_consumed", "steering_abandoned"}}) <= 1

\* A direction given to a turn that reached its outcome never steers another
\* one; only a turn cut off by a crash hands its steering on.
NoCrossTurnAuthority ==
    \A i, j \in DOMAIN journal :
      /\ journal[i].type = "steering_accepted"
      /\ journal[j].type = "steering_consumed"
      /\ journal[i].id = journal[j].id
      /\ journal[i].turn # journal[j].turn
      => journal[i].turn \notin TerminalTurns

\* A turn gets one terminal record: its outcome, or interrupted by a restart.
TerminalOnce ==
    \A t \in Turns :
      Cardinality({i \in DOMAIN journal : journal[i].turn = t
        /\ journal[i].type \in {"turn_outcome", "turn_interrupted"}}) <= 1

\* The engine offers itself for a new turn only when every turn it accepted has
\* a durable terminal record.
IdleIsCommitted == up = "up" /\ state = "idle" => ActiveTurns = {}

\* Queued directions and admissions under way never exceed limits.maxSteering.
SteeringBounded == active # None => Len(steering) + Admissions <= MaxSteering

\* A turn that completes has served every direction the operator was told was
\* accepted for it.
DirectionServed ==
    \A i \in DOMAIN journal, s \in Steers :
      /\ journal[i].type = "turn_outcome" /\ journal[i].id = "completed"
      /\ cmd[s].st = "accepted" /\ cmd[s].turn = journal[i].turn
      => \E j \in 1 .. i - 1 : /\ journal[j].type = "steering_consumed"
                               /\ journal[j].id = s

\* An admission that was under way when the completion checkpoint began is
\* settled before the turn completes (the comment in runModelStepLoop).
CheckpointHonoured ==
    finalized /\ outcome = "completed" =>
      \A s \in begun : cmd[s].st \notin {"accepting", "abandoning", "refused"}

\* Shutdown closes the store only after the turn it cancelled has its durable
\* terminal record, if the store can still write one.
ShutdownCommits ==
    closed /\ ~failed /\ awaited # None => awaited \notin ActiveTurns

\* A cancelled turn ends: its operation settles, its tools closed, or its commit
\* cannot be written.
CancelEnds ==
    \A t \in Turns : (active = t /\ cancelled) ~> (Over(t) \/ up = "down")

\* A parked turn that is given a direction does not stay parked.
ParkedResumes ==
    (pc = "waiting" /\ steering # <<>>) ~> (pc # "waiting" \/ up = "down")

\* Every steering command is answered, unless the process dies.
SteerAnswered ==
    \A s \in Steers : (cmd[s].st \in {"accepting", "abandoning"})
                         ~> (cmd[s].st \notin {"accepting", "abandoning"})

\* Once the engine waits for turns again, no direction it admitted is without a
\* durable successor: it is queued, or consumed, or abandoned.
Settled == up = "up" /\ state = "idle" /\ closing = {} /\ ~failed
           /\ tail = <<>> /\ \A s \in Steers : cmd[s].st \notin {"accepting", "abandoning"}
EveryAdmissionDisposed ==
    Settled =>
      \A s \in IdsOf("steering_accepted") :
        \/ s \in IdsOf("steering_consumed") \cup IdsOf("steering_abandoned")
        \/ \E i \in DOMAIN steering : steering[i].id = s
=============================================================================
