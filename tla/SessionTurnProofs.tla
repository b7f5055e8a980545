------------------------- MODULE SessionTurnProofs -------------------------
(***************************************************************************)
(* Proofs about SessionTurn, for any number of steering commands, turns,   *)
(* steps, starts of the process and shutdowns.                             *)
(*                                                                         *)
(* The invariant is built in layers, each inductive relative to the ones   *)
(* before it: types and places (Placed), the append each activity waits    *)
(* for (Asking), the records of turns (TurnRecords), the completion        *)
(* checkpoint (Checkpoint), the shutdown (Stopping).                       *)
(***************************************************************************)
EXTENDS SessionTurn, NumberLemmas, SequenceTheorems

Open == {"accept", "start", "loop", "step", "consume", "consuming", "checkpoint",
         "admissions", "decide", "attention", "waiting"}
Awaiting == {"accept", "consuming", "commit", "dropping"}
Finalizing == {"finalize", "commit", "drop", "dropping", "settle", "wedged"}
Dropped == {"drop", "dropping", "settle"}

\* The place of the turn, the state of the engine and the active turn belong
\* together.
Placed ==
    /\ pc # "none" => /\ up = "up" /\ active \in Turns
                      /\ state \in {"running", "cancelling", "finalizing_turn"}
    /\ pc = "step" => steps < MaxSteps
    /\ pc \in {"accept", "start"} => steps = 0
    /\ pc = "consuming" => steering # <<>>
    /\ active # None => up = "up" /\ (finalized <=> pc \in Finalizing \cup {"none"})
    /\ active # None => active <= turns
    /\ up # "up" => state = "idle" /\ stop = "no" /\ awaited = None /\ closing = {}
    /\ up = "down" => tail = <<>> /\ todo = <<>> /\ steering = <<>>
    /\ up = "down" => reply["init"] = "none"
    /\ closing \subseteq 1 .. turns

\* A command in flight is of a live process and for a turn that was submitted.
Commanded ==
    \A s \in Steers :
      /\ cmd[s].turn # None => cmd[s].turn <= turns
      /\ cmd[s].st \in {"accepting", "abandoning", "accepted"} => cmd[s].turn # None
      /\ cmd[s].st \in {"accepting", "abandoning"} => up = "up"
      /\ cmd[s].st = "abandoning" => cmd[s].turn # active \/ finalized

Shape == TypeOK /\ Placed /\ Commanded

\* What the turn has asked the store for.
TurnAsks(r) ==
    \/ pc = "accept" /\ r = Rec("turn_accepted", None, active)
    \/ pc = "consuming" /\ r = Rec("steering_consumed", Head(steering).id, active)
    \/ pc = "commit" /\ r = Rec("turn_outcome", outcome, active)
    \/ pc = "dropping" /\ r.type = "steering_abandoned"

Asks(w, r) ==
    /\ w = "turn" => TurnAsks(r)
    /\ w = "init" => up = "restoring" /\ r.type \in {"steering_abandoned", "turn_interrupted"}
    /\ w = "close" => stop = "closed"
    /\ w \in Steers => \/ cmd[w].st = "accepting" /\ r = Rec("steering_accepted", w, cmd[w].turn)
                       \/ cmd[w].st = "abandoning" /\ r = Rec("steering_abandoned", w, cmd[w].turn)

\* Every pending append is the one its activity waits for.
Pended ==
    /\ \A i \in DOMAIN tail : /\ Asks(tail[i].who, tail[i].rec)
                              /\ tail[i].who \in Activities => reply[tail[i].who] = "wait"
    /\ \A i, j \in DOMAIN tail : tail[i].who = tail[j].who => i = j

\* An activity waits where it has called append, and what is left to write is of
\* the kinds that a restoration or a drop writes.
Waits ==
    /\ reply["turn"] = "wait" => pc \in Awaiting
    /\ reply["init"] = "wait" => up = "restoring"
    /\ \A s \in Steers : reply[s] = "wait" => cmd[s].st \in {"accepting", "abandoning"}
    /\ up = "restoring" => \A i \in DOMAIN todo :
                              todo[i].type \in {"steering_abandoned", "turn_interrupted"}
    /\ up = "up" => \A i \in DOMAIN todo : todo[i].type = "steering_abandoned"
    /\ closed => stop = "closed"

Asking == Pended /\ Waits

TerminalTypes == {"turn_outcome", "turn_interrupted"}
Terminal == TurnsOf("turn_outcome") \cup TurnsOf("turn_interrupted")
Committed == pc \in Dropped \cup {"none"} \/ (pc = "commit" /\ reply["turn"] = "ok")

\* A turn has one record of its acceptance and one terminal record.
Once ==
    \A i, j \in DOMAIN journal :
      /\ journal[i].turn = journal[j].turn
      /\ \/ journal[i].type = "turn_accepted" /\ journal[j].type = "turn_accepted"
         \/ journal[i].type \in TerminalTypes /\ journal[j].type \in TerminalTypes
      => i = j

\* How far the active turn is and what the journal says of it belong together;
\* an engine that is up has no other turn without a terminal record.
Recorded ==
    /\ TurnsOf("turn_accepted") \cup Terminal \subseteq 1 .. turns
    /\ pc = "accept" /\ reply["turn"] = "wait" => active \notin TurnsOf("turn_accepted")
    /\ active \in Terminal => \/ pc \in Dropped \cup {"none", "wedged"}
                              \/ pc = "commit" /\ reply["turn"] # "wait"
    /\ up = "up" => ActiveTurns \subseteq IF Committed THEN {} ELSE {active}

\* What a restart still has to record as interrupted.
Left == {i \in DOMAIN todo : todo[i].type = "turn_interrupted"}
LeftTurns == {todo[i].turn : i \in Left}
Sent == {i \in DOMAIN tail : tail[i].rec.type = "turn_interrupted"}
SentTurns == {tail[i].rec.turn : i \in Sent}
Interrupts ==
    /\ \A i, j \in Left : todo[i].turn = todo[j].turn => i = j
    /\ LeftTurns \cap SentTurns = {} /\ LeftTurns \cup SentTurns \subseteq ActiveTurns
    /\ up = "restoring" /\ reply["init"] # "err" => ActiveTurns \subseteq LeftTurns \cup SentTurns

TurnRecords == Once /\ Recorded /\ Interrupts

\* Admissions that were under way when the checkpoint began.
Checkpoint ==
    \A s \in begun :
      /\ active # None /\ pc # "none" /\ cmd[s].turn = active /\ cmd[s].st # "new"
      /\ ~finalized => cmd[s].st \in {"accepting", "accepted", "error"}
      /\ pc = "decide" \/ (finalized /\ outcome = "completed") => cmd[s].st \in {"accepted", "error"}

\* The turn a shutdown has waited for.
Stopping ==
    /\ \A w \in Activities : reply[w] = "err" => failed \/ closed
    /\ pc = "wedged" => failed \/ closed
    /\ stop = "no" => awaited = None
    /\ awaited # None => awaited <= turns
    /\ stop \in {"close", "closed"} /\ awaited # None =>
         failed \/ (awaited \notin ActiveTurns /\ (active = awaited => pc = "none"))

----------------------------------------------------------------------------
(* Sequences. *)

\* q has the members of s at the places I, each of them once.
Picks(q, s, I) ==
    \E at \in [1 .. Cardinality(I) -> I] :
       /\ DOMAIN q = 1 .. Cardinality(I) /\ Len(q) = Cardinality(I)
       /\ \A k \in 1 .. Cardinality(I) : q[k] = s[at[k]]
       /\ \A i, j \in 1 .. Cardinality(I) : at[i] = at[j] => i = j
       /\ \A x \in I : \E k \in 1 .. Cardinality(I) : at[k] = x

\* What is selected of a sequence.
LEMMA SelectedIs ==
    ASSUME NEW S, NEW s \in Seq(S), NEW I, I \subseteq DOMAIN s
    PROVE  /\ Selected(s, I) \in Seq(S) /\ IsFiniteSet(I) /\ Cardinality(I) \in Nat
           /\ Picks(Selected(s, I), s, I)
<1> DEFINE n == Cardinality(I)
<1> DEFINE Orders(at) == \A i, j \in 1 .. n : i < j => at[i] < at[j]
<1>1. Len(s) \in Nat /\ DOMAIN s = 1 .. Len(s) /\ \A i \in DOMAIN s : s[i] \in S
    OBVIOUS
<1>2. IsFiniteSet(I) /\ n \in Nat /\ \E at : Lists(at, I)
    BY <1>1, PlacesListed
<1>3. PICK ay : Lists(ay, I)
    BY <1>2
<1> DEFINE at == CHOOSE at \in [1 .. n -> I] : Orders(at)
<1>4. ay \in [1 .. n -> I] /\ Orders(ay)
    BY <1>3 DEF Lists
<1>5. Selected(s, I) = [k \in 1 .. n |-> s[at[k]]]
    BY DEF Selected
<1>6. at \in [1 .. n -> I] /\ Orders(at)
    <2> HIDE DEF Orders, n
    <2> QED BY <1>4
<1> HIDE DEF at
<1>7. \A i \in 1 .. n : at[i] \in Nat
    BY <1>1, <1>6
<1>8. ASSUME NEW i \in 1 .. n, NEW j \in 1 .. n, at[i] = at[j] PROVE i = j
    <2>1. ~(i < j) /\ ~(j < i)
        <3>1. i < j => at[i] < at[j]
            BY <1>6
        <3>2. j < i => at[j] < at[i]
            BY <1>6
        <3>3. at[i] \in Nat /\ at[j] \in Nat
            BY <1>7
        <3> QED BY <1>8, <3>1, <3>2, <3>3
    <2>2. i \in Nat /\ j \in Nat
        BY <1>2
    <2> QED BY <2>1, <2>2
<1> HIDE DEF n, Orders
<1>9. \A x \in I : \E k \in 1 .. n : at[k] = x
    <2>1. at \in Injection(1 .. n, I)
        BY <1>6, <1>8 DEF Injection, IsInjective
    <2>2. Cardinality(1 .. n) = n
        BY <1>2, FS_Interval
    <2>3. at \in Surjection(1 .. n, I)
        BY <1>2, <2>1, <2>2, FS_Injection DEF n
    <2> QED BY <2>3 DEF Surjection
<1>10. Selected(s, I) \in [1 .. n -> S] /\ DOMAIN Selected(s, I) = 1 .. n
       /\ \A k \in 1 .. n : Selected(s, I)[k] = s[at[k]]
    BY <1>1, <1>5, <1>6
<1>11. Selected(s, I) \in Seq(S) /\ Len(Selected(s, I)) = n
    BY <1>2, <1>10, IsASeq
<1> QED
    BY <1>2, <1>6, <1>8, <1>9, <1>10, <1>11 DEF n, Picks

----------------------------------------------------------------------------
(* The turn between two appends. *)

\* What the loop of a turn may do by itself: go on to a place where it waits for
\* no append, or be finalized.
TurnMove ==
    /\ pc \in Open /\ (pc \in Awaiting => reply["turn"] # "wait")
    /\ \/ /\ pc' \in Open \ Awaiting /\ UNCHANGED <<finalized, outcome>>
          /\ pc' = "step" => steps' < MaxSteps
          /\ pc' = "start" => steps' = 0
          /\ pc' = "decide" => Admissions = 0 /\ begun' = begun
       \/ /\ pc' = "finalize" /\ finalized' = TRUE /\ outcome' \in Outcomes /\ begun' = begun
          /\ outcome' = "completed" => pc = "decide" /\ steering = <<>>
    /\ steps' \in 0 .. MaxSteps /\ ret' \in {"loop", "checkpoint", "attention"} /\ woken' \in BOOLEAN
    /\ begun' \in {begun, InFlight(active)}
    /\ UNCHANGED <<durable, store, active, cancelled, up, state, closing, steering, cmd, stop, awaited, todo>>

\* The turn is over in the loop.
LEMMA FinalizeMoves ==
    ASSUME Shape, NEW o \in Outcomes, Finalize(o), pc \in Open, pc \in Awaiting => reply["turn"] # "wait",
           o = "completed" => pc = "decide" /\ steering = <<>>,
           UNCHANGED begun, TurnOnly
    PROVE  TurnMove
<1>1. 0 \in 0 .. MaxSteps
    BY StepsAssumption
<1> QED
    BY <1>1 DEF Finalize, TurnMove, TurnOnly

\* An exception is no completion.
LEMMA ThrowMoves ==
    ASSUME Shape, Throw, pc \in Open, pc \in Awaiting => reply["turn"] # "wait", UNCHANGED begun, TurnOnly
    PROVE  TurnMove
<1> DEFINE o == IF cancelled THEN "cancelled" ELSE "failed"
<1>1. Finalize(o) /\ o \in Outcomes /\ o # "completed"
    BY DEF Throw, Outcomes
<1> HIDE DEF o
<1> QED
    BY <1>1, FinalizeMoves

\* The loop goes on.
LEMMA GotoMoves ==
    ASSUME Shape, NEW p \in Open \ Awaiting, Goto(p), pc \in Open, pc \in Awaiting => reply["turn"] # "wait",
           p = "step" => steps' < MaxSteps, p = "start" => steps' = 0,
           p = "decide" => Admissions = 0 /\ begun' = begun,
           steps' \in 0 .. MaxSteps, ret' \in {"loop", "checkpoint", "attention"}, woken' \in BOOLEAN,
           begun' \in {begun, InFlight(active)}, TurnOnly
    PROVE  TurnMove
BY DEF Goto, TurnMove, TurnOnly

\* The actions of runModelStepLoop and #runTurn between two awaits.
Moving ==
    \/ AcceptWritten \/ TurnStart \/ LoopTop
    \/ StepContinues \/ StepConsumes \/ StepAnswers \/ StepExhausted \/ StepThrows
    \/ ConsumeAborted \/ ConsumeDone \/ CheckpointEnter \/ AdmissionsSettled \/ Decide
    \/ AttentionArm \/ AttentionResume

\* A step of the model returns.
LEMMA ReturnMoves ==
    ASSUME Shape, NEW p \in {"loop", "consume", "checkpoint", "attention"},
           NEW rs, rs \subseteq {"loop", "checkpoint", "attention"}, StepReturns(p, rs)
    PROVE  TurnMove
<1>1. pc = "step" /\ steps \in 0 .. MaxSteps /\ steps < MaxSteps /\ woken \in BOOLEAN
    BY DEF StepReturns, Shape, TypeOK, TurnTypes, Placed
<1>2. steps' \in {steps, steps + 1} /\ Goto(p) /\ ret' \in rs /\ UNCHANGED <<woken, begun>> /\ TurnOnly
    BY DEF StepReturns
<1>3. steps' \in 0 .. MaxSteps
    BY <1>1, <1>2, StepsAssumption
<1>4. p \in Open \ Awaiting /\ pc \in Open /\ pc \notin Awaiting /\ p \notin {"step", "start", "decide"}
    BY <1>1 DEF Open, Awaiting
<1> QED
    BY <1>1, <1>2, <1>3, <1>4, GotoMoves

\* Each of these actions is such a move.
LEMMA MovingIsMove ==
    ASSUME Shape, Moving
    PROVE  TurnMove
<1> USE DEF Open, Awaiting
<1>0. /\ steps \in 0 .. MaxSteps /\ ret \in {"loop", "checkpoint", "attention"} /\ woken \in BOOLEAN
      /\ MaxSteps \in Nat \ {0} /\ (pc \in {"accept", "start"} => steps = 0)
    BY StepsAssumption DEF Shape, TypeOK, TurnTypes, Placed
<1>1. CASE AcceptWritten
    <2>1. pc = "accept" /\ UNCHANGED begun /\ TurnOnly
        BY <1>1 DEF AcceptWritten, TurnOnly
    <2>2. CASE Got("turn", "ok") /\ Goto("start") /\ UNCHANGED <<ret, steps, woken>>
        BY <1>0, <2>1, <2>2, GotoMoves DEF Got
    <2>3. CASE Got("turn", "err") /\ Finalize("failed")
        BY <2>1, <2>3, FinalizeMoves DEF Got, Outcomes
    <2> QED BY <1>1, <2>2, <2>3 DEF AcceptWritten
<1>2. CASE TurnStart
    <2>1. pc = "start" /\ UNCHANGED begun /\ TurnOnly
        BY <1>2 DEF TurnStart
    <2>2. CASE Throw
        BY <2>1, <2>2, ThrowMoves
    <2>3. CASE Finalize("declined")
        BY <2>1, <2>3, FinalizeMoves DEF Outcomes
    <2>4. CASE Goto("step") /\ UNCHANGED <<ret, steps, woken>>
        BY <1>0, <2>1, <2>4, GotoMoves
    <2> QED BY <1>2, <2>2, <2>3, <2>4 DEF TurnStart
<1>3. CASE LoopTop
    <2>1. pc = "loop" /\ UNCHANGED begun /\ TurnOnly
        BY <1>3 DEF LoopTop
    <2>2. CASE Finalize("limit_reached")
        BY <2>1, <2>2, FinalizeMoves DEF Outcomes
    <2>3. CASE WithinStepLimit /\ Goto("step") /\ UNCHANGED <<ret, steps, woken>>
        BY <1>0, <2>1, <2>3, GotoMoves DEF WithinStepLimit
    <2> QED BY <1>3, <2>2, <2>3 DEF LoopTop
<1>4. CASE StepContinues \/ StepConsumes \/ StepAnswers \/ StepExhausted
    BY <1>4, ReturnMoves DEF StepContinues, StepConsumes, StepAnswers, StepExhausted
<1>5. CASE StepThrows
    BY <1>5, ThrowMoves DEF StepThrows
<1>6. CASE ConsumeAborted
    BY <1>6, ThrowMoves DEF ConsumeAborted
<1>7. CASE ConsumeDone
    <2>1. pc = "consume" /\ UNCHANGED begun /\ TurnOnly /\ Goto(ret) /\ ret' = "loop" /\ UNCHANGED <<steps, woken>>
        BY <1>7 DEF ConsumeDone
    <2> QED BY <1>0, <2>1, GotoMoves
<1>8. CASE CheckpointEnter
    <2>1. /\ pc = "checkpoint" /\ begun' = InFlight(active) /\ TurnOnly /\ Goto("admissions")
          /\ UNCHANGED <<ret, steps, woken>>
        BY <1>8 DEF CheckpointEnter
    <2> QED BY <1>0, <2>1, GotoMoves
<1>9. CASE AdmissionsSettled
    <2>1. pc = "admissions" /\ UNCHANGED begun /\ TurnOnly
        BY <1>9 DEF AdmissionsSettled
    <2>2. CASE Throw
        BY <2>1, <2>2, ThrowMoves
    <2>3. CASE Finalize("limit_reached")
        BY <2>1, <2>3, FinalizeMoves DEF Outcomes
    <2>4. CASE AdmissionsDone /\ Goto("decide") /\ UNCHANGED <<ret, steps, woken>>
        BY <1>0, <2>1, <2>4, GotoMoves DEF AdmissionsDone
    <2> QED BY <1>9, <2>2, <2>3, <2>4 DEF AdmissionsSettled
<1>10. CASE Decide
    <2>1. pc = "decide" /\ UNCHANGED begun /\ TurnOnly
        BY <1>10 DEF Decide
    <2>2. CASE Finalize("limit_reached")
        BY <2>1, <2>2, FinalizeMoves DEF Outcomes
    <2>3. CASE Goto("consume") /\ UNCHANGED <<ret, steps, woken>>
        BY <1>0, <2>1, <2>3, GotoMoves
    <2>4. CASE NothingQueued /\ Finalize("completed")
        BY <2>1, <2>4, FinalizeMoves DEF Outcomes, NothingQueued
    <2>5. CASE Throw
        BY <2>1, <2>5, ThrowMoves
    <2> QED BY <1>10, <2>2, <2>3, <2>4, <2>5 DEF Decide
<1>11. CASE AttentionArm
    <2>1. pc = "attention" /\ UNCHANGED begun /\ TurnOnly
        BY <1>11 DEF AttentionArm
    <2>2. CASE Throw
        BY <2>1, <2>2, ThrowMoves
    <2>3. CASE Finalize("limit_reached")
        BY <2>1, <2>3, FinalizeMoves DEF Outcomes
    <2>4. CASE Goto("waiting") /\ woken' = ArmedAwake /\ UNCHANGED <<ret, steps>>
        <3>1. woken' \in BOOLEAN
            BY <2>4 DEF ArmedAwake
        <3> QED BY <1>0, <2>1, <2>4, <3>1, GotoMoves
    <2> QED BY <1>11, <2>2, <2>3, <2>4 DEF AttentionArm
<1>12. CASE AttentionResume
    <2>1. pc = "waiting" /\ UNCHANGED begun /\ TurnOnly
        BY <1>12 DEF AttentionResume
    <2>2. CASE Throw
        BY <2>1, <2>2, ThrowMoves
    <2>3. CASE Goto("consume") /\ woken' = FALSE /\ UNCHANGED <<ret, steps>>
        BY <1>0, <2>1, <2>3, GotoMoves
    <2> QED BY <1>12, <2>2, <2>3 DEF AttentionResume
<1> QED
    BY <1>1, <1>2, <1>3, <1>4, <1>5, <1>6, <1>7, <1>8, <1>9, <1>10, <1>11, <1>12 DEF Moving

----------------------------------------------------------------------------
(* Types and places. *)

\* What an append asks for joins the tail.
LEMMA CallTyped ==
    ASSUME StoreTypes, NEW w \in Activities, NEW r \in Records, Call(w, r), UNCHANGED <<failed, closed>>
    PROVE  StoreTypes'
<1> DEFINE E == [who : Activities, rec : Records] \cup {[who |-> "close", rec |-> Rec("close", None, None)]}
<1>1. tail \in Seq(E) /\ [who |-> w, rec |-> r] \in E
    BY DEF StoreTypes
<1>2. tail' \in Seq(E)
    <2> HIDE DEF E
    <2> QED BY <1>1, AppendProperties DEF Call
<1> QED
    BY <1>2 DEF StoreTypes, Call

\* The oldest pending append leaves the tail.
LEMMA HeadTyped ==
    ASSUME Shape, tail # <<>>
    PROVE  /\ Head(tail) \in [who : Activities, rec : Records] \cup {[who |-> "close", rec |-> Rec("close", None, None)]}
           /\ Head(tail).who \in Activities => Head(tail).rec \in Records
           /\ Tail(tail) \in Seq([who : Activities, rec : Records] \cup {[who |-> "close", rec |-> Rec("close", None, None)]})
<1> DEFINE E == [who : Activities, rec : Records] \cup {[who |-> "close", rec |-> Rec("close", None, None)]}
<1>1. tail \in Seq(E)
    BY DEF Shape, TypeOK, StoreTypes
<1>2. Head(tail) \in E /\ Tail(tail) \in Seq(E)
    <2> HIDE DEF E
    <2> QED BY <1>1, HeadTailProperties
<1>3. "close" \notin Activities
    BY SteersAssumption DEF Activities
<1> QED
    BY <1>2, <1>3

\* A process starts with nothing in its memory.
LEMMA InitShape == Init => Shape
<1> SUFFICES ASSUME Init PROVE Shape
    OBVIOUS
<1>0. \A S : <<>> \in Seq(S)
    OBVIOUS
<1>1. JournalTypes /\ StoreTypes
    <2>1. reply \in [Activities -> {"none", "wait", "ok", "err"}]
        BY DEF Init
    <2> QED BY <1>0, <2>1 DEF Init, JournalTypes, StoreTypes
<1>2. TurnTypes /\ EngineTypes
    <2>1. 0 \in 0 .. MaxSteps /\ 0 \in 0 .. MaxStarts /\ 0 \in 0 .. MaxTurns
        BY StepsAssumption, BoundsAssumption
    <2>2. TurnTypes
        BY <2>1, Zenon DEF Init, TurnTypes, Places, Outcomes
    <2> QED BY <2>1, <2>2, Zenon DEF Init, EngineTypes
<1>3. SteeringTypes
    BY DEF Init, SteeringTypes, Commands
<1>4. Placed
    BY DEF Init, Placed, Activities
<1>5. Commanded
    BY DEF Init, Commanded
<1> QED
    BY <1>1, <1>2, <1>3, <1>4, <1>5 DEF Shape, TypeOK

\* The turn moves.
LEMMA MoveShape ==
    ASSUME Shape, TurnMove
    PROVE  Shape'
<1>1. JournalTypes' /\ StoreTypes' /\ EngineTypes' /\ SteeringTypes'
    BY DEF Shape, TypeOK, JournalTypes, StoreTypes, EngineTypes, SteeringTypes, TurnMove, durable, store
<1>2. begun' \subseteq Steers
    BY DEF Shape, TypeOK, TurnTypes, TurnMove, InFlight
<1>3. pc' \in Places /\ outcome' \in Outcomes /\ finalized' \in BOOLEAN
    BY DEF Shape, TypeOK, TurnTypes, TurnMove, Open, Places
<1>4. TurnTypes'
    BY <1>2, <1>3 DEF Shape, TypeOK, TurnTypes, TurnMove
<1>5. pc' \in Open \ Awaiting \/ pc' = "finalize"
    BY DEF TurnMove
<1>6. pc \in Open /\ active \in Turns /\ active # None /\ up = "up" /\ state \in {"running", "cancelling", "finalizing_turn"}
      /\ ~finalized
    BY NoneAssumption DEF Shape, Placed, TurnMove, Open, Finalizing, Turns
<1>7. finalized' <=> pc' \in Finalizing \cup {"none"}
    BY <1>5, <1>6 DEF TurnMove, Open, Awaiting, Finalizing
<1>8. Placed'
    BY <1>5, <1>6, <1>7 DEF Shape, Placed, TurnMove, Open, Awaiting, durable, store
<1>9. Commanded'
    BY <1>6 DEF Shape, Commanded, TurnMove, durable
<1> QED
    BY <1>1, <1>4, <1>8, <1>9 DEF Shape, TypeOK

\* The store answers.
LEMMA WriteShape ==
    ASSUME Shape, Store
    PROVE  Shape'
<1>1. /\ UNCHANGED <<starts, turns, turnVars, up, state, closing, steering, cmd, stop, awaited, todo>>
      /\ tail # <<>> /\ tail' = Tail(tail)
    BY DEF Store, WriteOk, WriteFault, WriteRefused, WriteClose, durable
<1>2. reply' \in [Activities -> {"none", "wait", "ok", "err"}] /\ failed' \in BOOLEAN /\ closed' \in BOOLEAN
    BY DEF Store, WriteOk, WriteFault, WriteRefused, WriteClose, Shape, TypeOK, StoreTypes
<1>3. StoreTypes'
    BY <1>1, <1>2, HeadTyped DEF StoreTypes
<1>4. JournalTypes'
    <2>1. journal \in Seq(Records) /\ todo' \in Seq(Records)
        BY <1>1 DEF Shape, TypeOK, JournalTypes
    <2>2. journal' = journal \/ (Head(tail).who \in Activities /\ journal' = Append(journal, Head(tail).rec))
        BY DEF Store, WriteOk, WriteFault, WriteRefused, WriteClose, durable
    <2>3. journal' \in Seq(Records)
        <3>1. ASSUME NEW r \in Records PROVE Append(journal, r) \in Seq(Records)
            BY <2>1, AppendProperties
        <3>2. Head(tail).who \in Activities => Head(tail).rec \in Records
            BY <1>1, HeadTyped
        <3> QED BY <2>1, <2>2, <3>1, <3>2
    <2> QED BY <2>1, <2>3 DEF JournalTypes
<1>5. TurnTypes' /\ EngineTypes' /\ SteeringTypes'
    BY <1>1 DEF Shape, TypeOK, TurnTypes, EngineTypes, SteeringTypes, turnVars
<1>6. up # "down"
    BY <1>1 DEF Shape, Placed
<1>7. Placed'
    BY <1>1, <1>6 DEF Shape, Placed, turnVars
<1>8. Commanded'
    BY <1>1 DEF Shape, Commanded, turnVars
<1> QED
    BY <1>3, <1>4, <1>5, <1>7, <1>8 DEF Shape, TypeOK

\* submit.
LEMMA SubmitShape ==
    ASSUME Shape, Submit
    PROVE  Shape'
<1>1. /\ turns \in Nat /\ MaxTurns \in Nat /\ turns + 1 \in Turns /\ turns + 1 # None
      /\ turns' = turns + 1 /\ turns' \in 0 .. MaxTurns /\ MaxSteps \in Nat \ {0}
    BY BoundsAssumption, StepsAssumption, NoneAssumption DEF Submit, Shape, TypeOK, EngineTypes, Turns
<1>2. JournalTypes'
    BY DEF Submit, Shape, TypeOK, JournalTypes
<1>3. StoreTypes'
    <2>1. "turn" \in Activities /\ Rec("turn_accepted", None, turns + 1) \in Records
        BY <1>1 DEF Activities, Rec, Records
    <2> QED BY <2>1, CallTyped DEF Submit, Shape, TypeOK
<1>4. TurnTypes'
    <2>1. 0 \in 0 .. MaxSteps
        BY <1>1
    <2>2. active' \in Turns /\ {} \subseteq Steers
        BY <1>1 DEF Submit
    <2> QED BY <2>1, <2>2, Zenon DEF Submit, TurnTypes, Places, Outcomes
<1>5. EngineTypes' /\ SteeringTypes'
    BY <1>1 DEF Submit, Shape, TypeOK, EngineTypes, SteeringTypes
<1>6. Placed'
    <2>1. \A t \in 1 .. turns : t \in 1 .. turns'
        BY <1>1
    <2>2. active' <= turns'
        BY <1>1 DEF Submit
    <2> QED BY <1>1, <2>1, <2>2 DEF Submit, Shape, Placed, Finalizing
<1>7. Commanded'
    <2>1. ASSUME NEW s \in Steers, cmd[s].turn # None
          PROVE  cmd[s].turn <= turns' /\ cmd[s].turn # active'
        <3>1. cmd[s].turn \in Turns /\ cmd[s].turn <= turns
            BY <2>1 DEF Shape, TypeOK, SteeringTypes, Commands, Commanded
        <3>2. cmd[s].turn \in Nat
            BY <3>1 DEF Turns
        <3> QED BY <1>1, <3>1, <3>2 DEF Submit
    <2> QED BY <2>1 DEF Submit, Shape, Commanded
<1> QED
    BY <1>2, <1>3, <1>4, <1>5, <1>6, <1>7 DEF Shape, TypeOK

\* Head and Tail of the queue and of what is left to write.
LEMMA QueueTyped ==
    ASSUME Shape
    PROVE  /\ steering # <<>> => /\ Head(steering) \in [id : Steers, turn : Turns]
                                 /\ Tail(steering) \in Seq([id : Steers, turn : Turns])
           /\ todo # <<>> => Head(todo) \in Records /\ Tail(todo) \in Seq(Records)
BY HeadTailProperties DEF Shape, TypeOK, SteeringTypes, JournalTypes

\* The turn has its place and its number.
LEMMA ActiveTyped ==
    ASSUME Shape, pc # "none"
    PROVE  active \in Turns /\ active # None /\ up = "up" /\ state \in {"running", "cancelling", "finalizing_turn"}
           /\ (finalized <=> pc \in Finalizing)
BY NoneAssumption DEF Shape, Placed, Turns

\* #consumeSteering asks for the consumption of the oldest direction.
LEMMA ConsumeNextShape ==
    ASSUME Shape, ConsumeNext
    PROVE  Shape'
<1>1. pc = "consume" /\ steering # <<>>
    BY DEF ConsumeNext
<1>2. active \in Turns /\ active # None /\ up = "up" /\ state \in {"running", "cancelling", "finalizing_turn"} /\ ~finalized
    BY <1>1, ActiveTyped DEF Finalizing
<1>3. StoreTypes'
    <2>1. "turn" \in Activities
        BY DEF Activities
    <2>2. Head(steering).id \in Steers
        BY <1>1, QueueTyped
    <2>3. Rec("steering_consumed", Head(steering).id, active) \in Records
        BY <1>2, <2>2 DEF Rec, Records
    <2> QED BY <2>1, <2>3, CallTyped DEF ConsumeNext, Shape, TypeOK
<1>4. pc' = "consuming" /\ pc' \in Places
    BY DEF ConsumeNext, Places
<1>5. JournalTypes' /\ TurnTypes' /\ EngineTypes' /\ SteeringTypes'
    BY <1>4 DEF ConsumeNext, Shape, TypeOK, JournalTypes, TurnTypes, EngineTypes, SteeringTypes, durable
<1>6. Placed'
    BY <1>1, <1>2, <1>4 DEF ConsumeNext, Shape, Placed, Finalizing, durable
<1>7. Commanded'
    BY DEF ConsumeNext, Shape, Commanded, durable
<1> QED
    BY <1>3, <1>5, <1>6, <1>7 DEF Shape, TypeOK

\* The consumption is on record, or it failed and the turn ends.
LEMMA ConsumeWrittenIs ==
    ASSUME Shape, ConsumeWritten
    PROVE  TurnMove \/ (/\ Got("turn", "ok") /\ pc = "consuming" /\ pc' = "consume" /\ steering # <<>> /\ steering' = Tail(steering)
                        /\ UNCHANGED <<durable, store, active, finalized, cancelled, ret, steps, outcome, woken,
                                       begun, up, state, closing, cmd, stop, awaited, todo>>)
<1>1. pc = "consuming" /\ steering # <<>> /\ pc \in Open
    BY DEF ConsumeWritten, Shape, Placed, Open
<1>2. CASE Got("turn", "ok") /\ steering' = Tail(steering) /\ Goto("consume") /\ UNCHANGED <<ret, steps, woken>>
    BY <1>1, <1>2 DEF ConsumeWritten, Goto
<1>3. CASE Got("turn", "err") /\ Throw /\ UNCHANGED steering
    <2>1. UNCHANGED begun /\ TurnOnly /\ reply["turn"] # "wait"
        BY <1>3 DEF ConsumeWritten, TurnOnly, Got
    <2> QED BY <1>1, <1>3, <2>1, ThrowMoves
<1> QED
    BY <1>2, <1>3 DEF ConsumeWritten

\* The consumed direction leaves the queue.
LEMMA ConsumeWrittenShape ==
    ASSUME Shape, ConsumeWritten
    PROVE  Shape'
<1>1. CASE TurnMove
    BY <1>1, MoveShape
<1>2. CASE /\ pc = "consuming" /\ pc' = "consume" /\ steering # <<>> /\ steering' = Tail(steering)
           /\ UNCHANGED <<durable, store, active, finalized, cancelled, ret, steps, outcome, woken,
                          begun, up, state, closing, cmd, stop, awaited, todo>>
    <2>1. steering' \in Seq([id : Steers, turn : Turns]) /\ pc' \in Places
        BY <1>2, QueueTyped DEF Places
    <2>2. active # None /\ up = "up" /\ ~finalized
        BY <1>2, ActiveTyped DEF Finalizing
    <2>3. JournalTypes' /\ StoreTypes' /\ TurnTypes' /\ EngineTypes' /\ SteeringTypes'
        BY <1>2, <2>1 DEF Shape, TypeOK, JournalTypes, StoreTypes, TurnTypes, EngineTypes, SteeringTypes, durable, store
    <2>4. Placed'
        BY <1>2, <2>2 DEF Shape, Placed, Finalizing, durable, store
    <2>5. Commanded'
        BY <1>2 DEF Shape, Commanded, durable
    <2> QED BY <2>3, <2>4, <2>5 DEF Shape, TypeOK
<1> QED
    BY <1>1, <1>2, ConsumeWrittenIs

\* finalizeOnce asks for the commit.
LEMMA FinalizeOnceShape ==
    ASSUME Shape, FinalizeOnce
    PROVE  Shape'
<1>1. pc = "finalize" /\ pc' = "commit" /\ pc' \in Places
    BY DEF FinalizeOnce, Places
<1>2. active \in Turns /\ active # None /\ up = "up" /\ finalized
    BY <1>1, ActiveTyped DEF Finalizing
<1>3. PICK o \in Outcomes : outcome' = o /\ Call("turn", Rec("turn_outcome", o, active))
    BY DEF FinalizeOnce, Shape, TypeOK, TurnTypes, Outcomes
<1>4. StoreTypes'
    <2>1. "turn" \in Activities /\ Rec("turn_outcome", o, active) \in Records
        BY <1>2 DEF Activities, Rec, Records
    <2> QED BY <1>3, <2>1, CallTyped DEF FinalizeOnce, Shape, TypeOK
<1>5. JournalTypes' /\ TurnTypes' /\ EngineTypes' /\ SteeringTypes'
    BY <1>1, <1>3 DEF FinalizeOnce, Shape, TypeOK, JournalTypes, TurnTypes, EngineTypes, SteeringTypes, durable
<1>6. Placed'
    BY <1>1, <1>2 DEF FinalizeOnce, Shape, Placed, Finalizing, durable
<1>7. Commanded'
    BY DEF FinalizeOnce, Shape, Commanded, durable
<1> QED
    BY <1>4, <1>5, <1>6, <1>7 DEF Shape, TypeOK

\* The finalization goes on after the commit.
LEMMA AfterCommitShape ==
    ASSUME Shape, pc \in Finalizing, pc' \in Finalizing, pc' \in Places, todo' \in Seq(Records),
           steering' \in Seq([id : Steers, turn : Turns]),
           UNCHANGED <<durable, store, active, finalized, cancelled, ret, steps, outcome, woken,
                       begun, up, state, closing, cmd, stop, awaited>>
    PROVE  Shape'
<1>1. pc # "none" /\ pc' \notin {"none", "step", "accept", "start", "consuming"}
    BY DEF Finalizing
<1>2. active \in Turns /\ active # None /\ up = "up" /\ finalized
    BY <1>1, ActiveTyped
<1>3. JournalTypes' /\ StoreTypes' /\ TurnTypes' /\ EngineTypes' /\ SteeringTypes'
    BY DEF Shape, TypeOK, JournalTypes, StoreTypes, TurnTypes, EngineTypes, SteeringTypes, durable, store
<1>4. Placed'
    BY <1>1, <1>2 DEF Shape, Placed, durable, store
<1>5. Commanded'
    BY DEF Shape, Commanded, durable
<1> QED
    BY <1>3, <1>4, <1>5 DEF Shape, TypeOK

\* The records that abandon directions.
LEMMA AbandonmentsTyped ==
    ASSUME NEW items \in Seq([id : Steers, turn : Turns])
    PROVE  /\ Abandonments(items) \in Seq(Records) /\ DOMAIN Abandonments(items) = DOMAIN items
           /\ Len(Abandonments(items)) = Len(items)
           /\ \A i \in DOMAIN items : /\ Abandonments(items)[i].type = "steering_abandoned"
                                      /\ Abandonments(items)[i].id = items[i].id
                                      /\ Abandonments(items)[i].turn = items[i].turn
<1>1. Len(items) \in Nat /\ DOMAIN items = 1 .. Len(items)
      /\ \A i \in DOMAIN items : items[i].id \in Steers /\ items[i].turn \in Turns
    <2>1. Len(items) \in Nat /\ DOMAIN items = 1 .. Len(items)
        BY LenProperties
    <2>2. \A i \in DOMAIN items : items[i] \in [id : Steers, turn : Turns]
        BY ElementOfSeq, <2>1
    <2> QED BY <2>1, <2>2
<1>2. \A i \in DOMAIN items : Rec("steering_abandoned", items[i].id, items[i].turn) \in Records
    BY <1>1 DEF Rec, Records
<1>3. Abandonments(items) \in [1 .. Len(items) -> Records]
    BY <1>1, <1>2 DEF Abandonments
<1>4. Abandonments(items) \in Seq(Records) /\ Len(Abandonments(items)) = Len(items)
    BY <1>1, <1>3, IsASeq
<1> QED
    BY <1>1, <1>4 DEF Abandonments, Rec

\* finalizeOnce, from its commit to the end of the drop.
LEMMA DropShape ==
    ASSUME Shape, CommitWritten \/ DropWritten \/ DropDone
    PROVE  Shape'
<1> DEFINE Items == Seq([id : Steers, turn : Turns])
<1>1. steering \in Items /\ todo \in Seq(Records) /\ <<>> \in Seq(Records)
    BY DEF Shape, TypeOK, SteeringTypes, JournalTypes
<1>2. ASSUME NEW I, I \subseteq DOMAIN steering PROVE Selected(steering, I) \in Items
    BY <1>1, <1>2, SelectedIs
<1>3. todo' \in Seq(Records)
    <2>1. Abandonments(Unconsumed) \in Seq(Records)
        BY <1>2, AbandonmentsTyped DEF Unconsumed
    <2> QED BY <1>1, <2>1 DEF CommitWritten, DropWritten, DropDone
<1>4. steering' \in Items
    BY <1>1, <1>2 DEF CommitWritten, DropWritten, DropDone
<1>5. pc \in Finalizing /\ pc' \in Finalizing /\ pc' \in Places
    BY DEF CommitWritten, DropWritten, DropDone, CommitFault, Finalizing, Places
<1>6. UNCHANGED <<durable, store, active, finalized, cancelled, ret, steps, outcome, woken,
                  begun, up, state, closing, cmd, stop, awaited>>
    BY DEF CommitWritten, DropWritten, DropDone
<1> QED
    BY <1>3, <1>4, <1>5, <1>6, AfterCommitShape

\* dropUnconsumedSteering asks for the next record.
LEMMA DropNextShape ==
    ASSUME Shape, DropNext
    PROVE  Shape'
<1>1. pc = "drop" /\ pc' = "dropping" /\ pc' \in Places
    BY DEF DropNext, Places
<1>2. active \in Turns /\ active # None /\ up = "up" /\ finalized
    BY <1>1, ActiveTyped DEF Finalizing
<1>3. Head(todo) \in Records /\ Tail(todo) \in Seq(Records)
    BY QueueTyped DEF DropNext
<1>4. StoreTypes'
    <2>1. "turn" \in Activities
        BY DEF Activities
    <2> QED BY <1>3, <2>1, CallTyped DEF DropNext, Shape, TypeOK
<1>5. JournalTypes' /\ TurnTypes' /\ EngineTypes' /\ SteeringTypes'
    BY <1>1, <1>3 DEF DropNext, Shape, TypeOK, JournalTypes, TurnTypes, EngineTypes, SteeringTypes, durable
<1>6. Placed'
    BY <1>1, <1>2 DEF DropNext, Shape, Placed, Finalizing, durable
<1>7. Commanded'
    BY DEF DropNext, Shape, Commanded, durable
<1> QED
    BY <1>4, <1>5, <1>6, <1>7 DEF Shape, TypeOK

\* Back to idle, and the end of tools.close().
LEMMA SettleShape ==
    ASSUME Shape, Settle \/ \E t \in Turns : ToolsClosed(t)
    PROVE  Shape'
<1>1. CASE Settle
    <2>1. pc = "settle" /\ pc' = "none" /\ pc' \in Places /\ outcome' \in Outcomes
        BY <1>1 DEF Settle, Places, Outcomes
    <2>2. active \in Turns /\ active # None /\ up = "up" /\ finalized /\ active \in 1 .. turns
        <3>1. active \in Turns /\ active # None /\ up = "up" /\ finalized
            BY <2>1, ActiveTyped DEF Finalizing
        <3>2. active <= turns /\ turns \in Nat
            BY <3>1 DEF Shape, Placed, TypeOK, EngineTypes
        <3> QED BY <3>1, <3>2 DEF Turns
    <2>3. JournalTypes' /\ StoreTypes' /\ TurnTypes' /\ EngineTypes' /\ SteeringTypes'
        BY <1>1, <2>1, <2>2 DEF Settle, Shape, TypeOK, JournalTypes, StoreTypes, TurnTypes, EngineTypes, SteeringTypes, durable, store
    <2>4. Placed'
        BY <1>1, <2>1, <2>2 DEF Settle, Shape, Placed, durable, store
    <2>5. Commanded'
        BY <1>1 DEF Settle, Shape, Commanded, durable
    <2> QED BY <2>3, <2>4, <2>5 DEF Shape, TypeOK
<1>2. ASSUME NEW t \in Turns, ToolsClosed(t) PROVE Shape'
    <2>1. up = "up"
        BY <1>2 DEF ToolsClosed, Shape, Placed
    <2>2. JournalTypes' /\ StoreTypes' /\ TurnTypes' /\ EngineTypes' /\ SteeringTypes'
        <3>1. JournalTypes' /\ StoreTypes' /\ SteeringTypes'
            BY <1>2 DEF ToolsClosed, Shape, TypeOK, JournalTypes, StoreTypes, SteeringTypes, durable, store
        <3>2. EngineTypes'
            BY <1>2 DEF ToolsClosed, Shape, TypeOK, EngineTypes, durable
        <3>3. active' \in Turns \cup {None} /\ finalized' \in BOOLEAN /\ cancelled' \in BOOLEAN
            BY <1>2 DEF ToolsClosed, Shape, TypeOK, TurnTypes
        <3>4. TurnTypes'
            BY <1>2, <3>3 DEF ToolsClosed, Shape, TypeOK, TurnTypes
        <3> QED BY <3>1, <3>2, <3>4
    <2>3. state = "idle" => pc = "none"
        BY DEF Shape, Placed
    <2>4. Placed'
        BY <1>2, <2>1, <2>3 DEF ToolsClosed, Shape, Placed, durable, store
    <2>5. Commanded'
        BY <1>2 DEF ToolsClosed, Shape, Commanded, durable
    <2> QED BY <2>2, <2>4, <2>5 DEF Shape, TypeOK
<1> QED
    BY <1>1, <1>2

\* One command goes on.
LEMMA CommandShape ==
    ASSUME Shape, NEW s \in Steers, NEW c \in Commands, cmd' = [cmd EXCEPT ![s] = c], up = "up",
           c.turn # None => c.turn <= turns,
           c.st \in {"accepting", "abandoning", "accepted"} => c.turn # None,
           c.st = "abandoning" => c.turn # active \/ finalized,
           StoreTypes', steering' \in Seq([id : Steers, turn : Turns]), steering # <<>> => steering' # <<>>,
           woken' \in BOOLEAN,
           UNCHANGED <<durable, failed, closed, active, finalized, cancelled, pc, ret, steps, outcome, begun,
                       up, state, closing, stop, awaited, todo>>
    PROVE  Shape'
<1>1. JournalTypes' /\ EngineTypes'
    BY DEF Shape, TypeOK, JournalTypes, EngineTypes, durable
<1>2. TurnTypes'
    BY DEF Shape, TypeOK, TurnTypes
<1>3. SteeringTypes'
    BY DEF Shape, TypeOK, SteeringTypes
<1>4. Placed'
    BY DEF Shape, Placed, durable
<1>5. Commanded'
    BY DEF Shape, Commanded, durable, TypeOK, SteeringTypes
<1> QED
    BY <1>1, <1>2, <1>3, <1>4, <1>5 DEF Shape, TypeOK

\* A command and its turn.
LEMMA CommandTyped ==
    ASSUME Shape, NEW s \in Steers
    PROVE  /\ cmd \in [Steers -> Commands] /\ cmd[s] \in Commands /\ cmd[s].turn \in Turns \cup {None}
           /\ cmd[s].turn # None => cmd[s].turn <= turns
           /\ cmd[s].st \in {"accepting", "abandoning"} => up = "up" /\ cmd[s].turn # None
           /\ cmd[s].st = "accepted" => cmd[s].turn # None
           /\ \A x \in {"new", "accepting", "abandoning", "accepted", "refused", "error", "lost"} :
                /\ [cmd EXCEPT ![s].st = x] = [cmd EXCEPT ![s] = [st |-> x, turn |-> cmd[s].turn]]
                /\ [st |-> x, turn |-> cmd[s].turn] \in Commands
<1>1. cmd \in [Steers -> Commands] /\ cmd[s] \in Commands
    BY DEF Shape, TypeOK, SteeringTypes
<1>2. cmd[s].turn \in Turns \cup {None} /\ cmd[s] = [st |-> cmd[s].st, turn |-> cmd[s].turn]
    BY <1>1 DEF Commands
<1>3. ASSUME NEW x \in {"new", "accepting", "abandoning", "accepted", "refused", "error", "lost"}
      PROVE  /\ [cmd EXCEPT ![s].st = x] = [cmd EXCEPT ![s] = [st |-> x, turn |-> cmd[s].turn]]
             /\ [st |-> x, turn |-> cmd[s].turn] \in Commands
    <2>1. [cmd[s] EXCEPT !.st = x] = [st |-> x, turn |-> cmd[s].turn]
        BY <1>1 DEF Commands
    <2>2. [st |-> x, turn |-> cmd[s].turn] \in Commands
        BY <1>2 DEF Commands
    <2> QED BY <2>1, <2>2
<1> QED
    BY <1>1, <1>2, <1>3 DEF Shape, Commanded

\* steerEngineTurn reserves a place and asks for its record, or refuses.
LEMMA SteerCallShape ==
    ASSUME Shape, NEW s \in Steers, SteerCall(s)
    PROVE  Shape'
<1>1. /\ up = "up" /\ UNCHANGED <<durable, failed, closed, turnVars, up, state, closing, steering, stop, awaited, todo>>
      /\ woken \in BOOLEAN /\ steering \in Seq([id : Steers, turn : Turns])
    BY DEF SteerCall, Shape, TypeOK, TurnTypes, SteeringTypes
<1>2. CASE cmd' = [cmd EXCEPT ![s] = [st |-> "refused", turn |-> None]] /\ UNCHANGED <<tail, reply>>
    <2>1. StoreTypes'
        BY <1>1, <1>2 DEF Shape, TypeOK, StoreTypes
    <2>2. PICK c \in Commands : c = [st |-> "refused", turn |-> None]
        BY DEF Commands
    <2>3. c.st = "refused" /\ c.turn = None
        BY <2>2
    <2>4. cmd' = [cmd EXCEPT ![s] = c]
        BY <1>2, <2>2
    <2> HIDE <1>2, <2>2
    <2> QED BY <1>1, <2>1, <2>3, <2>4, CommandShape DEF turnVars
<1>3. CASE /\ active # None /\ ~finalized /\ Call(s, Rec("steering_accepted", s, active))
           /\ cmd' = [cmd EXCEPT ![s] = [st |-> "accepting", turn |-> active]]
    <2>1. active \in Turns /\ active <= turns
        BY <1>3 DEF Shape, TypeOK, TurnTypes, Placed
    <2>2. StoreTypes'
        <3>1. s \in Activities /\ Rec("steering_accepted", s, active) \in Records
            BY <2>1 DEF Activities, Rec, Records
        <3> QED BY <1>1, <1>3, <3>1, CallTyped DEF Shape, TypeOK
    <2>3. PICK c \in Commands : c = [st |-> "accepting", turn |-> active]
        BY <2>1 DEF Commands
    <2>4. c.st = "accepting" /\ c.turn = active
        BY <2>3
    <2>5. cmd' = [cmd EXCEPT ![s] = c]
        BY <1>3, <2>3
    <2> HIDE <1>3, <2>3
    <2> QED BY <1>1, <1>3, <2>1, <2>2, <2>4, <2>5, CommandShape DEF turnVars
<1> QED
    BY <1>2, <1>3 DEF SteerCall

\* Its record is written, too late or not at all.
LEMMA SteerWrittenShape ==
    ASSUME Shape, NEW s \in Steers, SteerWritten(s) \/ SteerAbandoned(s)
    PROVE  Shape'
<1>0. cmd[s].st \in {"accepting", "abandoning"}
    BY DEF SteerWritten, SteerAbandoned
<1>1. /\ up = "up" /\ cmd[s].turn # None /\ cmd[s].turn \in Turns /\ cmd[s].turn <= turns
      /\ \A x \in {"new", "accepting", "abandoning", "accepted", "refused", "error", "lost"} :
                /\ [cmd EXCEPT ![s].st = x] = [cmd EXCEPT ![s] = [st |-> x, turn |-> cmd[s].turn]]
                /\ [st |-> x, turn |-> cmd[s].turn] \in Commands
    BY <1>0, CommandTyped
<1>2. /\ UNCHANGED <<durable, failed, closed, active, finalized, cancelled, pc, ret, steps, outcome, begun,
                     up, state, closing, stop, awaited, todo>>
      /\ steering \in Seq([id : Steers, turn : Turns])
    BY DEF SteerWritten, SteerAbandoned, durable, store, turnVars, Shape, TypeOK, SteeringTypes
<1>3. woken' \in BOOLEAN
    BY DEF SteerWritten, SteerAbandoned, SteerWakes, turnVars, Shape, TypeOK, TurnTypes
<1>4. /\ steering' \in Seq([id : Steers, turn : Turns])
      /\ steering # <<>> => steering' # <<>>
    <2>1. Item(s, cmd[s].turn) \in [id : Steers, turn : Turns]
        BY <1>1 DEF Item
    <2>2. CASE steering' = steering
        BY <1>2, <2>2
    <2>3. CASE steering' = Append(steering, Item(s, cmd[s].turn))
        BY <1>2, <2>1, <2>3, AppendProperties
    <2> QED BY <2>2, <2>3 DEF SteerWritten, SteerAbandoned
<1>5. StoreTypes'
    <2>1. CASE UNCHANGED <<tail, reply>>
        BY <1>2, <2>1 DEF Shape, TypeOK, StoreTypes
    <2>2. CASE Call(s, Rec("steering_abandoned", s, cmd[s].turn))
        <3>1. s \in Activities /\ Rec("steering_abandoned", s, cmd[s].turn) \in Records
            BY <1>1 DEF Activities, Rec, Records
        <3> QED BY <1>2, <2>2, <3>1, CallTyped DEF Shape, TypeOK
    <2> QED BY <2>1, <2>2 DEF SteerWritten, SteerAbandoned, store
<1>6. PICK x \in {"accepted", "abandoning", "error", "refused"} :
        cmd' = [cmd EXCEPT ![s].st = x] /\ (x = "abandoning" => ~StillOpen(s))
    BY DEF SteerWritten, SteerAbandoned
<1>7. PICK c \in Commands : c = [st |-> x, turn |-> cmd[s].turn]
    BY <1>1
<1>8. cmd' = [cmd EXCEPT ![s] = c] /\ c.st = x /\ c.turn = cmd[s].turn
    BY <1>1, <1>6, <1>7
<1>9. c.st = "abandoning" => c.turn # active \/ finalized
    BY <1>6, <1>8 DEF StillOpen
<1> HIDE <1>6, <1>7
<1> QED
    BY <1>1, <1>2, <1>3, <1>4, <1>5, <1>8, <1>9, CommandShape

\* cancel and shutdown.
LEMMA StopShape ==
    ASSUME Shape, Cancel \/ Shutdown \/ ShutdownJoin \/ ShutdownClose
    PROVE  Shape'
<1>1. /\ UNCHANGED <<durable, reply, failed, closed, active, finalized, pc, ret, steps, outcome, begun,
                     up, closing, steering, cmd, todo>>
    BY DEF Cancel, Shutdown, ShutdownJoin, ShutdownClose, durable, store, turnVars
<1>2. up = "up"
    BY DEF Cancel, Shutdown, ShutdownJoin, ShutdownClose, Shape, Placed
<1>3. JournalTypes' /\ SteeringTypes'
    BY <1>1 DEF Shape, TypeOK, JournalTypes, SteeringTypes, durable
<1>4. cancelled' \in BOOLEAN /\ woken' \in BOOLEAN
    BY DEF Cancel, Shutdown, ShutdownJoin, ShutdownClose, CancelTurn, AbortWakes, turnVars, Shape, TypeOK, TurnTypes
<1>5. TurnTypes'
    BY <1>1, <1>4 DEF Shape, TypeOK, TurnTypes
<1>6. /\ state' \in {state, "cancelling", "shutting_down"}
      /\ pc # "none" => state' \in {"running", "cancelling", "finalizing_turn"}
      /\ stop' \in {"no", "join", "close", "closed"} /\ awaited' \in Turns \cup {None}
    <2>1. CASE Cancel
        BY <2>1 DEF Cancel, CancelTurn, Shape, TypeOK, EngineTypes, Placed
    <2>2. CASE Shutdown
        <3>1. pc # "none" => active # None
            BY ActiveTyped
        <3> QED BY <2>2, <3>1 DEF Shutdown, CancelTurn, Shape, TypeOK, EngineTypes, TurnTypes, Placed
    <2>3. CASE ShutdownJoin \/ ShutdownClose
        BY <2>3 DEF ShutdownJoin, ShutdownClose, Shape, TypeOK, EngineTypes, Placed
    <2> QED BY <2>1, <2>2, <2>3
<1>7. EngineTypes'
    BY <1>1, <1>6 DEF Shape, TypeOK, EngineTypes, durable
<1>8. StoreTypes'
    <2> DEFINE E == [who : Activities, rec : Records] \cup {[who |-> "close", rec |-> Rec("close", None, None)]}
    <2>1. tail \in Seq(E) /\ [who |-> "close", rec |-> Rec("close", None, None)] \in E
        BY DEF Shape, TypeOK, StoreTypes
    <2>2. tail' = tail \/ tail' = Append(tail, [who |-> "close", rec |-> Rec("close", None, None)])
        BY DEF Cancel, Shutdown, ShutdownJoin, ShutdownClose, store
    <2>3. tail' \in Seq(E)
        <3> HIDE DEF E
        <3> QED BY <2>1, <2>2, AppendProperties
    <2> QED BY <1>1, <2>3 DEF Shape, TypeOK, StoreTypes
<1>9. Placed'
    BY <1>1, <1>2, <1>6 DEF Shape, Placed, durable
<1>10. Commanded'
    BY <1>1 DEF Shape, Commanded, durable
<1> QED
    BY <1>3, <1>5, <1>7, <1>8, <1>9, <1>10 DEF Shape, TypeOK

----------------------------------------------------------------------------
(* Process death and restoration. *)

\* What each kind of record carries.
LEMMA RecordTyped ==
    ASSUME NEW r \in Records
    PROVE  /\ r.turn \in Turns
           /\ r.type \in {"steering_accepted", "steering_consumed", "steering_abandoned"} => r.id \in Steers
           /\ r.type \in {"turn_accepted", "turn_interrupted"} => r.id = None
           /\ r.type \in {"turn_accepted", "turn_interrupted", "turn_outcome", "steering_accepted",
                          "steering_consumed", "steering_abandoned"}
           /\ r = Rec(r.type, r.id, r.turn)
<1>1. CASE r \in [type : {"turn_accepted", "turn_interrupted"}, id : {None}, turn : Turns]
    BY <1>1 DEF Rec
<1>2. CASE r \in [type : {"turn_outcome"}, id : Outcomes, turn : Turns]
    BY <1>2 DEF Rec
<1>3. CASE r \in [type : {"steering_accepted", "steering_consumed", "steering_abandoned"}, id : Steers, turn : Turns]
    BY <1>3 DEF Rec
<1> QED
    BY <1>1, <1>2, <1>3 DEF Records

\* What a restart takes from the journal: records of the kind it looks for, each
\* once.
LEMMA TakenTyped ==
    ASSUME Shape, NEW type, NEW I, I \subseteq TypesOf(type)
    PROVE  /\ Selected(journal, I) \in Seq(Records)
           /\ \A k \in DOMAIN Selected(journal, I) :
                Selected(journal, I)[k] \in Records /\ Selected(journal, I)[k].type = type
           /\ \A k \in DOMAIN Selected(journal, I) : \E i \in I : Selected(journal, I)[k] = journal[i]
           /\ \A i \in I : \E k \in DOMAIN Selected(journal, I) : Selected(journal, I)[k] = journal[i]
<1>1. journal \in Seq(Records) /\ I \subseteq DOMAIN journal
    BY DEF Shape, TypeOK, JournalTypes, TypesOf
<1> DEFINE q == Selected(journal, I)
<1>2. q \in Seq(Records)
    BY <1>1, SelectedIs
<1>3. PICK at \in [1 .. Cardinality(I) -> I] :
                /\ DOMAIN q = 1 .. Cardinality(I)
                /\ \A k \in 1 .. Cardinality(I) : q[k] = journal[at[k]]
                /\ \A x \in I : \E k \in 1 .. Cardinality(I) : at[k] = x
    <2>1. Picks(q, journal, I)
        BY <1>1, SelectedIs
    <2> HIDE DEF q
    <2> QED BY <2>1 DEF Picks
<1> HIDE DEF q
<1>4. \A k \in DOMAIN q : q[k] = journal[at[k]] /\ at[k] \in I
    BY <1>3
<1>5. \A i \in I : journal[i].type = type /\ journal[i] \in Records
    BY <1>1 DEF TypesOf
<1>6. \A i \in I : \E k \in DOMAIN q : q[k] = journal[i]
    BY <1>3
<1> QED
    BY <1>2, <1>4, <1>5, <1>6 DEF q

\* The queue and the records a restart begins with.
LEMMA RestoredTyped ==
    ASSUME Shape
    PROVE  /\ Pending \in Seq(Records) /\ Orphaned \in Seq(Records) /\ Interrupted \in Seq(Records)
           /\ [i \in DOMAIN Pending |-> Item(Pending[i].id, Pending[i].turn)] \in Seq([id : Steers, turn : Turns])
           /\ Abandonments(Orphaned) \in Seq(Records)
           /\ DOMAIN Abandonments(Orphaned) = DOMAIN Orphaned
           /\ \A i \in DOMAIN Orphaned : Abandonments(Orphaned)[i] = Rec("steering_abandoned", Orphaned[i].id, Orphaned[i].turn)
           /\ [i \in DOMAIN Interrupted |-> Rec("turn_interrupted", None, Interrupted[i].turn)] \in Seq(Records)
<1>1. ASSUME NEW I, I \subseteq Kept
      PROVE  /\ Selected(journal, I) \in Seq(Records)
             /\ \A k \in DOMAIN Selected(journal, I) :
                  Selected(journal, I)[k].id \in Steers /\ Selected(journal, I)[k].turn \in Turns
    <2>1. I \subseteq TypesOf("steering_accepted")
        BY <1>1 DEF Kept
    <2>2. /\ Selected(journal, I) \in Seq(Records)
          /\ \A k \in DOMAIN Selected(journal, I) :
                  Selected(journal, I)[k] \in Records /\ Selected(journal, I)[k].type = "steering_accepted"
        BY <2>1, TakenTyped
    <2> HIDE <2>1
    <2> QED BY <2>2, RecordTyped
<1>2. /\ Pending \in Seq(Records) /\ Orphaned \in Seq(Records)
      /\ \A k \in DOMAIN Pending : Pending[k].id \in Steers /\ Pending[k].turn \in Turns
      /\ \A k \in DOMAIN Orphaned : Orphaned[k].id \in Steers /\ Orphaned[k].turn \in Turns
    BY <1>1 DEF Pending, Orphaned
<1>3. Interrupted \in Seq(Records) /\ \A k \in DOMAIN Interrupted : Interrupted[k].turn \in Turns
    <2>1. {i \in TypesOf("turn_accepted") : journal[i].turn \in ActiveTurns} \subseteq TypesOf("turn_accepted")
        OBVIOUS
    <2>2. /\ Interrupted \in Seq(Records)
          /\ \A k \in DOMAIN Interrupted : Interrupted[k] \in Records
        BY <2>1, TakenTyped DEF Interrupted
    <2> QED BY <2>2, RecordTyped
<1>4. ASSUME NEW S, NEW q \in Seq(Records), NEW f, DOMAIN f = DOMAIN q, f = [i \in DOMAIN q |-> f[i]],
             \A k \in DOMAIN q : f[k] \in S
      PROVE  f \in Seq(S)
    <2>1. Len(q) \in Nat /\ DOMAIN q = 1 .. Len(q)
        BY LenProperties
    <2>2. f \in [1 .. Len(q) -> S]
        BY <1>4, <2>1
    <2> QED BY <2>1, <2>2, IsASeq
<1>5. [i \in DOMAIN Pending |-> Item(Pending[i].id, Pending[i].turn)] \in Seq([id : Steers, turn : Turns])
    <2> DEFINE f == [i \in DOMAIN Pending |-> Item(Pending[i].id, Pending[i].turn)]
    <2>1. DOMAIN f = DOMAIN Pending /\ f = [i \in DOMAIN Pending |-> f[i]]
        OBVIOUS
    <2>2. \A k \in DOMAIN Pending : f[k] \in [id : Steers, turn : Turns]
        BY <1>2 DEF Item
    <2> HIDE DEF f
    <2>3. f \in Seq([id : Steers, turn : Turns])
        BY <1>2, <1>4, <2>1, <2>2
    <2> QED BY <2>3 DEF f
<1>6. [i \in DOMAIN Interrupted |-> Rec("turn_interrupted", None, Interrupted[i].turn)] \in Seq(Records)
    <2> DEFINE f == [i \in DOMAIN Interrupted |-> Rec("turn_interrupted", None, Interrupted[i].turn)]
    <2>1. DOMAIN f = DOMAIN Interrupted /\ f = [i \in DOMAIN Interrupted |-> f[i]]
        OBVIOUS
    <2>2. \A k \in DOMAIN Interrupted : f[k] \in Records
        BY <1>3 DEF Rec, Records
    <2> HIDE DEF f
    <2>3. f \in Seq(Records)
        BY <1>3, <1>4, <2>1, <2>2
    <2> QED BY <2>3 DEF f
<1>7. /\ Abandonments(Orphaned) \in Seq(Records) /\ DOMAIN Abandonments(Orphaned) = DOMAIN Orphaned
      /\ \A i \in DOMAIN Orphaned : Abandonments(Orphaned)[i] = Rec("steering_abandoned", Orphaned[i].id, Orphaned[i].turn)
    <2> DEFINE f == Abandonments(Orphaned)
    <2>1. /\ DOMAIN f = DOMAIN Orphaned /\ f = [i \in DOMAIN Orphaned |-> f[i]]
          /\ \A i \in DOMAIN Orphaned : f[i] = Rec("steering_abandoned", Orphaned[i].id, Orphaned[i].turn)
        BY DEF Abandonments
    <2>2. \A k \in DOMAIN Orphaned : f[k] \in Records
        BY <1>2, <2>1 DEF Rec, Records
    <2> HIDE DEF f
    <2>3. f \in Seq(Records)
        BY <1>2, <1>4, <2>1, <2>2
    <2> QED BY <2>1, <2>3 DEF f
<1> QED
    BY <1>2, <1>3, <1>5, <1>6, <1>7

\* The process dies.
LEMMA ExitShape ==
    ASSUME Shape, Exit
    PROVE  Shape'
<1>0. \A S : <<>> \in Seq(S)
    OBVIOUS
<1>1. JournalTypes'
    BY <1>0 DEF Exit, Shape, TypeOK, JournalTypes, durable
<1>2. StoreTypes'
    <2>1. reply' \in [Activities -> {"none", "wait", "ok", "err"}]
        BY DEF Exit, Fresh
    <2> QED BY <1>0, <2>1 DEF Exit, Fresh, StoreTypes
<1>3. TurnTypes'
    <2>1. 0 \in 0 .. MaxSteps
        BY StepsAssumption
    <2> QED BY <2>1, Zenon DEF Exit, Fresh, TurnTypes, Places, Outcomes
<1>4. EngineTypes'
    BY DEF Exit, Fresh, Shape, TypeOK, EngineTypes, durable
<1>5. ASSUME NEW s \in Steers
      PROVE  /\ Lost[s] \in Commands /\ Lost[s].turn = cmd[s].turn
             /\ Lost[s].st \notin {"accepting", "abandoning"}
             /\ Lost[s].st = "accepted" => cmd[s].st = "accepted"
    <2>0. cmd[s] \in Commands
        BY CommandTyped
    <2>1. [cmd[s] EXCEPT !.st = "lost"] = [st |-> "lost", turn |-> cmd[s].turn]
        BY <2>0 DEF Commands
    <2>2. [st |-> "lost", turn |-> cmd[s].turn] \in Commands
        BY CommandTyped DEF Commands
    <2> QED BY <2>0, <2>1, <2>2 DEF Lost
<1>6. SteeringTypes'
    <2>1. cmd' \in [Steers -> Commands]
        BY <1>5 DEF Exit, Lost
    <2> QED BY <1>0, <2>1 DEF Exit, SteeringTypes
<1>7. Placed'
    <2>1. reply'["init"] = "none"
        BY DEF Exit, Fresh, Activities
    <2> QED BY <2>1 DEF Exit, Fresh, Placed
<1>8. Commanded'
    <2>1. ASSUME NEW s \in Steers
          PROVE  /\ cmd[s].turn # None => cmd[s].turn <= turns
                 /\ cmd[s].st = "accepted" => cmd[s].turn # None
        BY CommandTyped
    <2>2. turns' = turns /\ cmd' = Lost
        BY DEF Exit, durable
    <2> HIDE DEF Lost
    <2> QED BY <1>5, <2>1, <2>2 DEF Commanded
<1> QED
    BY <1>1, <1>2, <1>3, <1>4, <1>6, <1>7, <1>8 DEF Shape, TypeOK

\* The process starts again, and restores.
LEMMA StartShape ==
    ASSUME Shape, Start \/ RestoreNext \/ Ready
    PROVE  Shape'
<1>1. CASE Start
    <2>1. steering' \in Seq([id : Steers, turn : Turns])
        BY <1>1, RestoredTyped DEF Start
    <2>2. todo' \in Seq(Records)
        <3>1. \A p, q : p \in Seq(Records) /\ q \in Seq(Records) => p \o q \in Seq(Records)
            BY ConcatProperties
        <3> QED BY <1>1, <3>1, RestoredTyped DEF Start
    <2>3. JournalTypes' /\ StoreTypes' /\ TurnTypes' /\ SteeringTypes'
        BY <1>1, <2>1, <2>2 DEF Start, Shape, TypeOK, JournalTypes, StoreTypes, TurnTypes, SteeringTypes, store, turnVars
    <2>4. EngineTypes'
        <3>1. starts' \in 0 .. MaxStarts
            BY <1>1, BoundsAssumption DEF Start, Shape, TypeOK, EngineTypes
        <3> QED BY <1>1, <3>1 DEF Start, Shape, TypeOK, EngineTypes
    <2>5. Placed'
        BY <1>1 DEF Start, Shape, Placed, store, turnVars
    <2>6. Commanded'
        BY <1>1 DEF Start, Shape, Commanded, turnVars
    <2> QED BY <2>3, <2>4, <2>5, <2>6 DEF Shape, TypeOK
<1>2. CASE RestoreNext
    <2>1. Head(todo) \in Records /\ Tail(todo) \in Seq(Records) /\ "init" \in Activities
        BY <1>2, QueueTyped DEF RestoreNext, Activities
    <2>2. StoreTypes'
        BY <1>2, <2>1, CallTyped DEF RestoreNext, Shape, TypeOK
    <2>3. JournalTypes' /\ TurnTypes' /\ EngineTypes' /\ SteeringTypes'
        BY <1>2, <2>1 DEF RestoreNext, Shape, TypeOK, JournalTypes, TurnTypes, EngineTypes, SteeringTypes, durable, turnVars
    <2>4. Placed'
        BY <1>2 DEF RestoreNext, Shape, Placed, durable, turnVars
    <2>5. Commanded'
        BY <1>2 DEF RestoreNext, Shape, Commanded, durable, turnVars
    <2> QED BY <2>2, <2>3, <2>4, <2>5 DEF Shape, TypeOK
<1>3. CASE Ready
    <2>1. JournalTypes' /\ StoreTypes' /\ TurnTypes' /\ EngineTypes' /\ SteeringTypes'
        BY <1>3 DEF Ready, Shape, TypeOK, JournalTypes, StoreTypes, TurnTypes, EngineTypes, SteeringTypes, durable, store, turnVars
    <2>2. Placed'
        BY <1>3 DEF Ready, Shape, Placed, durable, store, turnVars
    <2>3. Commanded'
        BY <1>3 DEF Ready, Shape, Commanded, durable, turnVars
    <2> QED BY <2>1, <2>2, <2>3 DEF Shape, TypeOK
<1> QED
    BY <1>1, <1>2, <1>3

\* Nothing happens.
LEMMA StutterShape ==
    ASSUME Shape, UNCHANGED vars
    PROVE  Shape'
<1>1. JournalTypes' /\ StoreTypes' /\ TurnTypes' /\ EngineTypes' /\ SteeringTypes'
    BY DEF Shape, TypeOK, JournalTypes, StoreTypes, TurnTypes, EngineTypes, SteeringTypes, vars, durable, store, turnVars
<1>2. Placed' /\ Commanded'
    BY DEF Shape, Placed, Commanded, vars, durable, store, turnVars
<1> QED
    BY <1>1, <1>2 DEF Shape, TypeOK

\* The steps of the system, as the proofs below take them apart.
Steps ==
    \/ Store \/ Moving \/ Submit
    \/ ConsumeNext \/ ConsumeWritten \/ FinalizeOnce \/ CommitWritten \/ DropNext \/ DropWritten \/ DropDone
    \/ Settle \/ (\E t \in Turns : ToolsClosed(t))
    \/ (\E s \in Steers : SteerCall(s) \/ SteerWritten(s) \/ SteerAbandoned(s))
    \/ Cancel \/ Shutdown \/ ShutdownJoin \/ ShutdownClose
    \/ Exit \/ Start \/ RestoreNext \/ Ready

\* These are all the steps.
LEMMA NextIsSteps == Next => Steps
BY DEF Next, Steps, Turn, Moving, Steer

\* Every step keeps types and places.
LEMMA NextShape ==
    ASSUME Shape, [Next]_vars
    PROVE  Shape'
<1>1. CASE UNCHANGED vars
    BY <1>1, StutterShape
<1>2. CASE Moving
    BY <1>2, MovingIsMove, MoveShape
<1>3. CASE Next
    <2>1. Steps
        BY <1>3, NextIsSteps
    <2> QED
        BY <1>2, <2>1, WriteShape, SubmitShape, ConsumeNextShape, ConsumeWrittenShape, FinalizeOnceShape,
           DropShape, DropNextShape, SettleShape, SteerCallShape, SteerWrittenShape, StopShape,
           ExitShape, StartShape DEF Steps
<1> QED
    BY <1>1, <1>3

----------------------------------------------------------------------------
(* The completion checkpoint. *)

\* Steps that do not touch what the checkpoint looks at.
LEMMA CheckpointKept ==
    ASSUME Checkpoint, UNCHANGED <<begun, active, finalized, cmd>>,
           outcome' = "completed" => outcome = "completed",
           pc # "none" => pc' # "none", pc' = "decide" => pc = "decide"
    PROVE  Checkpoint'
BY DEF Checkpoint

\* awaitSteeringAdmissions: the admissions that it found under way have settled
\* when it lets the turn decide.
LEMMA MoveCheckpoint ==
    ASSUME Shape, Checkpoint, TurnMove
    PROVE  Checkpoint'
<1>1. pc \in Open /\ active # None /\ ~finalized /\ pc' # "none" /\ UNCHANGED <<active, cmd>>
    <2>1. pc \in Open /\ pc # "none"
        BY DEF TurnMove, Open
    <2>2. active # None /\ ~finalized
        BY <2>1, ActiveTyped DEF Open, Finalizing
    <2> QED BY <2>1, <2>2 DEF TurnMove, Open
<1>2. ASSUME NEW s \in InFlight(active)
      PROVE  s \in Steers /\ cmd[s].turn = active /\ cmd[s].st = "accepting"
    BY <1>1, <1>2 DEF InFlight, Shape, Commanded
<1>3. ASSUME Admissions = 0 PROVE InFlight(active) = {}
    <2>1. IsFiniteSet(InFlight(active))
        BY SteersAssumption, FS_Subset DEF InFlight
    <2> QED BY <1>3, <2>1, FS_EmptySet DEF Admissions
<1>4. ASSUME NEW s \in begun' PROVE cmd[s].turn = active /\ cmd[s].st \in {"accepting", "accepted", "error"}
    BY <1>1, <1>2, <1>4 DEF TurnMove, Checkpoint
<1>5. ASSUME NEW s \in begun', pc' = "decide" PROVE cmd[s].st \in {"accepted", "error"}
    <2>1. begun' = begun /\ InFlight(active) = {}
        BY <1>1, <1>3, <1>5 DEF TurnMove
    <2>2. s \in Steers
        BY <1>5, <2>1 DEF Shape, TypeOK, TurnTypes
    <2> QED BY <1>4, <1>5, <2>1, <2>2 DEF InFlight
<1>6. ASSUME NEW s \in begun', finalized', outcome' = "completed" PROVE cmd[s].st \in {"accepted", "error"}
    <2>1. pc = "decide" /\ begun' = begun
        BY <1>1, <1>6 DEF TurnMove
    <2> QED BY <1>6, <2>1 DEF Checkpoint
<1> QED
    BY <1>1, <1>4, <1>5, <1>6 DEF Checkpoint

\* steerEngineTurn: an admission found under way is not refused before the turn
\* is finalized.
LEMMA SteerCheckpoint ==
    ASSUME Shape, Checkpoint, NEW s \in Steers, SteerCall(s) \/ SteerWritten(s) \/ SteerAbandoned(s)
    PROVE  Checkpoint'
<1>1. UNCHANGED <<begun, active, finalized, outcome, pc>>
    BY DEF SteerCall, SteerWritten, SteerAbandoned, turnVars
<1>2. PICK c : cmd' = [cmd EXCEPT ![s] = c]
    BY DEF SteerCall, SteerWritten, SteerAbandoned
<1>3. cmd \in [Steers -> Commands] /\ begun \subseteq Steers
    BY DEF Shape, TypeOK, SteeringTypes, TurnTypes
<1>4. \A t \in Steers : t # s => cmd'[t] = cmd[t]
    BY <1>2, <1>3
<1>5. CASE s \notin begun
    BY <1>1, <1>3, <1>4, <1>5 DEF Checkpoint
<1>6. CASE s \in begun
    <2>1. /\ active # None /\ pc # "none" /\ cmd[s].turn = active /\ cmd[s].st # "new"
          /\ ~finalized => cmd[s].st \in {"accepting", "accepted", "error"}
          /\ pc = "decide" \/ (finalized /\ outcome = "completed") => cmd[s].st \in {"accepted", "error"}
        BY <1>6 DEF Checkpoint
    <2>2. ~SteerCall(s)
        BY <2>1 DEF SteerCall
    <2>3. PICK x \in {"accepted", "abandoning", "error", "refused"} :
            /\ cmd' = [cmd EXCEPT ![s].st = x] /\ cmd[s].st \in {"accepting", "abandoning"}
            /\ x = "abandoning" => ~StillOpen(s)
            /\ x = "refused" => cmd[s].st = "abandoning"
        BY <2>2 DEF SteerWritten, SteerAbandoned
    <2>4. cmd'[s].st = x /\ cmd'[s].turn = cmd[s].turn
        BY <1>3, <2>3 DEF Commands
    <2>5. ~finalized => x \in {"accepted", "error"}
        BY <2>1, <2>3 DEF StillOpen
    <2>6. pc = "decide" => ~finalized
        BY <2>1, ActiveTyped DEF Finalizing
    <2>7. ~(finalized /\ outcome = "completed")
        BY <2>1, <2>3
    <2> HIDE <2>3
    <2>8. \A t \in begun : t # s => cmd'[t] = cmd[t]
        BY <1>3, <1>4
    <2> QED BY <1>1, <2>1, <2>4, <2>5, <2>6, <2>7, <2>8 DEF Checkpoint
<1> QED
    BY <1>5, <1>6

\* Every step keeps the checkpoint.
LEMMA NextCheckpoint ==
    ASSUME Shape, Checkpoint, [Next]_vars
    PROVE  Checkpoint'
<1>1. CASE UNCHANGED vars \/ Store \/ Cancel \/ Shutdown \/ ShutdownJoin \/ ShutdownClose \/ Start \/ RestoreNext \/ Ready
    <2>1. UNCHANGED <<begun, active, finalized, cmd, outcome, pc>>
        BY <1>1 DEF vars, Store, WriteOk, WriteFault, WriteRefused, WriteClose, Cancel, Shutdown, ShutdownJoin,
                    ShutdownClose, Start, RestoreNext, Ready, turnVars
    <2> QED BY <2>1, CheckpointKept
<1>2. CASE ConsumeNext \/ FinalizeOnce \/ CommitWritten \/ DropNext \/ DropWritten \/ DropDone
    <2>1. /\ UNCHANGED <<begun, active, finalized, cmd>> /\ pc' # "none" /\ pc' # "decide"
          /\ outcome' = "completed" => outcome = "completed"
        BY <1>2 DEF ConsumeNext, FinalizeOnce, CommitWritten, DropNext, DropWritten, DropDone, CommitFault
    <2> QED BY <2>1, CheckpointKept
<1>3. CASE Moving
    BY <1>3, MovingIsMove, MoveCheckpoint
<1>4. CASE ConsumeWritten
    BY <1>4, ConsumeWrittenIs, MoveCheckpoint, CheckpointKept
<1>5. CASE Submit \/ Settle \/ Exit
    <2>1. begun' = {}
        BY <1>5 DEF Submit, Settle, Exit, Fresh
    <2> QED BY <2>1 DEF Checkpoint
<1>6. ASSUME NEW t \in Turns, ToolsClosed(t) PROVE Checkpoint'
    <2>1. CASE state = "idle"
        <3>1. pc = "none" /\ begun' = begun
            BY <1>6, <2>1 DEF ToolsClosed, Shape, Placed
        <3> QED BY <3>1 DEF Checkpoint
    <2>2. CASE state # "idle"
        BY <1>6, <2>2, CheckpointKept DEF ToolsClosed
    <2> QED BY <2>1, <2>2
<1>7. CASE \E s \in Steers : SteerCall(s) \/ SteerWritten(s) \/ SteerAbandoned(s)
    BY <1>7, SteerCheckpoint
<1> QED
    BY <1>1, <1>2, <1>3, <1>4, <1>5, <1>6, <1>7, NextIsSteps DEF Steps

----------------------------------------------------------------------------
(* The appends under way. *)

\* An activity that waits for its append stays where it is.
Undisturbed ==
    /\ reply["turn"] = "wait" => /\ UNCHANGED <<pc, active, outcome>>
                                 /\ pc = "consuming" => Head(steering)' = Head(steering)
    /\ reply["init"] = "wait" => up' = up
    /\ stop = "closed" => stop' = "closed"
    /\ \A s \in Steers : reply[s] = "wait" => cmd'[s] = cmd[s]

\* What it asked for is then still what it waits for.
LEMMA AsksKept ==
    ASSUME Undisturbed, NEW w, NEW r, w \in Activities => reply[w] = "wait", Asks(w, r)
    PROVE  Asks(w, r)'
<1>1. CASE w = "turn"
    BY <1>1 DEF Undisturbed, Asks, TurnAsks, Activities
<1>2. CASE w # "turn"
    BY <1>2 DEF Undisturbed, Asks, Activities
<1> QED BY <1>1, <1>2

\* The pending appends are in the tail.
LEMMA TailTyped ==
    ASSUME Shape
    PROVE  /\ Len(tail) \in Nat /\ DOMAIN tail = 1 .. Len(tail)
           /\ \A i \in DOMAIN tail : tail[i].who \in Activities \cup {"close"}
           /\ \A w, r : /\ DOMAIN Append(tail, [who |-> w, rec |-> r]) = 1 .. Len(tail) + 1
                        /\ \A i \in 1 .. Len(tail) : Append(tail, [who |-> w, rec |-> r])[i] = tail[i]
                        /\ Append(tail, [who |-> w, rec |-> r])[Len(tail) + 1].who = w
                        /\ Append(tail, [who |-> w, rec |-> r])[Len(tail) + 1].rec = r
           /\ tail # <<>> => /\ Head(tail) = tail[1] /\ 1 \in DOMAIN tail
                             /\ DOMAIN Tail(tail) = 1 .. Len(tail) - 1
                             /\ \A i \in DOMAIN Tail(tail) : Tail(tail)[i] = tail[i + 1] /\ i + 1 \in DOMAIN tail
<1> DEFINE E == [who : Activities, rec : Records] \cup {[who |-> "close", rec |-> Rec("close", None, None)]}
<1>1. tail \in Seq(E)
    BY DEF Shape, TypeOK, StoreTypes
<1>2. \A e \in E : e.who \in Activities \cup {"close"}
    OBVIOUS
<1> HIDE DEF E
<1>3. Len(tail) \in Nat /\ DOMAIN tail = 1 .. Len(tail) /\ \A i \in DOMAIN tail : tail[i] \in E
    BY <1>1
<1>4. ASSUME NEW e
      PROVE  /\ DOMAIN Append(tail, e) = 1 .. Len(tail) + 1
             /\ \A i \in 1 .. Len(tail) : Append(tail, e)[i] = tail[i]
             /\ Append(tail, e)[Len(tail) + 1] = e
    BY <1>1
<1>5. \A w, r : [who |-> w, rec |-> r].who = w /\ [who |-> w, rec |-> r].rec = r
    OBVIOUS
<1>6. tail # <<>> => /\ Head(tail) = tail[1] /\ 1 \in DOMAIN tail
                     /\ DOMAIN Tail(tail) = 1 .. Len(tail) - 1
                     /\ \A i \in DOMAIN Tail(tail) : Tail(tail)[i] = tail[i + 1] /\ i + 1 \in DOMAIN tail
    BY <1>1, <1>3
<1> QED
    BY <1>2, <1>3, <1>4, <1>5, <1>6

\* No append is called or answered.
LEMMA PendedKept ==
    ASSUME Pended, Undisturbed, UNCHANGED <<tail, reply>>
    PROVE  Pended'
<1>1. \A w, r : (w \in Activities => reply[w] = "wait") /\ Asks(w, r) => Asks(w, r)'
    BY AsksKept
<1>2. ASSUME NEW i \in DOMAIN tail PROVE Asks(tail[i].who, tail[i].rec)'
    <2>1. PICK w, r : w = tail[i].who /\ r = tail[i].rec
        OBVIOUS
    <2>2. Asks(w, r)'
        BY <1>1, <2>1 DEF Pended
    <2>3. tail'[i].who = w /\ tail'[i].rec = r
        BY <2>1
    <2> QED BY <2>2, <2>3 DEF Asks, TurnAsks
<1> QED
    BY <1>2 DEF Pended

\* An append is called.
LEMMA PendedCall ==
    ASSUME Shape, Pended, Undisturbed, NEW w \in Activities \cup {"close"}, NEW r,
           tail' = Append(tail, [who |-> w, rec |-> r]),
           w \in Activities => reply' = [reply EXCEPT ![w] = "wait"] /\ reply[w] # "wait",
           w = "close" => reply' = reply /\ stop # "closed",
           Asks(w, r)'
    PROVE  Pended'
<1>1. \A v, q : (v \in Activities => reply[v] = "wait") /\ Asks(v, q) => Asks(v, q)'
    BY AsksKept
<1>2. /\ Len(tail) \in Nat /\ DOMAIN tail = 1 .. Len(tail) /\ DOMAIN tail' = 1 .. Len(tail) + 1
      /\ \A i \in DOMAIN tail : tail'[i] = tail[i] /\ tail[i].who \in Activities \cup {"close"}
      /\ tail'[Len(tail) + 1].who = w /\ tail'[Len(tail) + 1].rec = r
    BY TailTyped
<1>3. \A i \in DOMAIN tail' : i \in DOMAIN tail \/ i = Len(tail) + 1
    BY <1>2
<1>4. reply \in [Activities -> {"none", "wait", "ok", "err"}] /\ "close" \notin Activities
    BY SteersAssumption DEF Shape, TypeOK, StoreTypes, Activities
<1>5. ASSUME NEW i \in DOMAIN tail
      PROVE  /\ Asks(tail[i].who, tail[i].rec) /\ (tail[i].who \in Activities => reply[tail[i].who] = "wait")
             /\ tail[i].who # w
    <2>1. Asks(tail[i].who, tail[i].rec) /\ (tail[i].who \in Activities => reply[tail[i].who] = "wait")
        BY DEF Pended
    <2>2. tail[i].who # w
        BY <1>2, <2>1 DEF Asks
    <2> QED BY <2>1, <2>2
<1>6. ASSUME NEW i \in DOMAIN tail' PROVE Asks(tail[i].who, tail[i].rec)'
    <2>1. CASE i \in DOMAIN tail
        <3>1. PICK v, q : v = tail[i].who /\ q = tail[i].rec
            OBVIOUS
        <3>2. Asks(v, q)'
            BY <1>1, <1>5, <2>1, <3>1
        <3>3. tail'[i].who = v /\ tail'[i].rec = q
            BY <1>2, <2>1, <3>1
        <3> QED BY <3>2, <3>3 DEF Asks, TurnAsks
    <2>2. CASE i = Len(tail) + 1
        BY <1>2, <2>2 DEF Asks, TurnAsks
    <2> QED BY <1>3, <2>1, <2>2
<1>7. ASSUME NEW i \in DOMAIN tail', tail'[i].who \in Activities PROVE reply'[tail'[i].who] = "wait"
    BY <1>2, <1>3, <1>4, <1>5, <1>7
<1>8. ASSUME NEW i \in DOMAIN tail', NEW j \in DOMAIN tail', tail'[i].who = tail'[j].who PROVE i = j
    BY <1>2, <1>3, <1>5, <1>8 DEF Pended
<1> QED
    BY <1>6, <1>7, <1>8 DEF Pended

\* The oldest append is answered: nobody else waits for that answer.
LEMMA PendedAnswer ==
    ASSUME Shape, Pended, Undisturbed, tail # <<>>, tail' = Tail(tail),
           NEW x, reply' = reply \/ (Head(tail).who \in Activities /\ reply' = [reply EXCEPT ![Head(tail).who] = x])
    PROVE  Pended'
<1>1. \A v, q : (v \in Activities => reply[v] = "wait") /\ Asks(v, q) => Asks(v, q)'
    BY AsksKept
<1>2. /\ Head(tail) = tail[1] /\ 1 \in DOMAIN tail /\ Len(tail) \in Nat
      /\ DOMAIN tail' = 1 .. Len(tail) - 1
      /\ \A i \in DOMAIN tail' : tail'[i] = tail[i + 1] /\ i + 1 \in DOMAIN tail /\ i + 1 # 1
    BY TailTyped
<1>3. reply \in [Activities -> {"none", "wait", "ok", "err"}]
    BY DEF Shape, TypeOK, StoreTypes
<1>4. ASSUME NEW i \in DOMAIN tail'
      PROVE  /\ Asks(tail[i].who, tail[i].rec)'
             /\ tail'[i].who \in Activities => reply'[tail'[i].who] = "wait"
    <2>1. PICK v, q : v = tail[i + 1].who /\ q = tail[i + 1].rec
        OBVIOUS
    <2>2. Asks(v, q) /\ (v \in Activities => reply[v] = "wait") /\ v # tail[1].who
        BY <1>2, <2>1 DEF Pended
    <2>3. Asks(v, q)'
        BY <1>1, <2>2
    <2>4. tail'[i].who = v /\ tail'[i].rec = q
        BY <1>2, <2>1
    <2>5. v \in Activities => reply'[v] = "wait"
        BY <1>2, <1>3, <2>2
    <2> QED BY <2>3, <2>4, <2>5 DEF Asks, TurnAsks
<1>5. ASSUME NEW i \in DOMAIN tail', NEW j \in DOMAIN tail', tail'[i].who = tail'[j].who PROVE i = j
    <2>1. i + 1 = j + 1
        BY <1>2, <1>5 DEF Pended
    <2> QED BY <1>2, <2>1
<1> QED
    BY <1>4, <1>5 DEF Pended

\* The turn has no append under way.
LEMMA TurnAnswered ==
    ASSUME Waits, pc \in Awaiting => reply["turn"] # "wait"
    PROVE  reply["turn"] # "wait"
BY DEF Waits

\* The turn goes on after an answer, or where it waits for none.
LEMMA TurnAsking ==
    ASSUME Shape, Asking, reply["turn"] # "wait", UNCHANGED <<tail, reply, up, closed, stop, cmd>>,
           up = "up" => \A i \in DOMAIN todo' : todo'[i].type = "steering_abandoned",
           up = "restoring" => todo' = todo
    PROVE  Asking'
<1>1. Undisturbed
    BY DEF Undisturbed
<1>2. Pended'
    BY <1>1, PendedKept DEF Asking
<1>3. Waits'
    BY DEF Waits, Asking
<1> QED
    BY <1>2, <1>3 DEF Asking

\* It calls append.
LEMMA TurnCallAsking ==
    ASSUME Shape, Asking, reply["turn"] # "wait", NEW r, Call("turn", r), TurnAsks(r)', pc' \in Awaiting,
           UNCHANGED <<up, closed, stop, cmd>>, up = "up",
           \A i \in DOMAIN todo' : todo'[i].type = "steering_abandoned"
    PROVE  Asking'
<1>1. Undisturbed
    BY DEF Undisturbed
<1>2. "turn" \in Activities /\ "turn" \notin Steers /\ "turn" # "close" /\ "turn" # "init"
    BY SteersAssumption DEF Activities
<1>3. Asks("turn", r)'
    BY <1>2 DEF Asks
<1>4. Pended'
    BY <1>1, <1>2, <1>3, PendedCall DEF Asking, Call
<1>5. reply \in [Activities -> {"none", "wait", "ok", "err"}] /\ reply' = [reply EXCEPT !["turn"] = "wait"]
    BY DEF Shape, TypeOK, StoreTypes, Call
<1>6. reply'["init"] = reply["init"] /\ \A s \in Steers : reply'[s] = reply[s]
    BY <1>2, <1>5 DEF Activities
<1>7. Waits'
    BY <1>6 DEF Waits, Asking
<1> QED
    BY <1>4, <1>7 DEF Asking

\* The store answers the oldest append.
LEMMA StoreAsking ==
    ASSUME Shape, Asking, Store
    PROVE  Asking'
<1>1. /\ UNCHANGED <<turnVars, up, steering, cmd, stop, todo>>
      /\ tail # <<>> /\ tail' = Tail(tail)
    BY DEF Store, WriteOk, WriteFault, WriteRefused, WriteClose, durable
<1>2. Undisturbed
    BY <1>1 DEF Undisturbed, turnVars
<1>3. PICK x \in {"ok", "err"} : reply' = reply \/ (Head(tail).who \in Activities /\ reply' = [reply EXCEPT ![Head(tail).who] = x])
    BY DEF Store, WriteOk, WriteFault, WriteRefused, WriteClose
<1>4. Pended'
    BY <1>1, <1>2, <1>3, PendedAnswer DEF Asking
<1>5. \A w \in Activities : reply'[w] = "wait" => reply[w] = "wait"
    BY <1>3 DEF Shape, TypeOK, StoreTypes
<1>6. closed' => closed \/ stop = "closed"
    <2>1. CASE WriteClose
        <3>1. Head(tail) = tail[1] /\ 1 \in DOMAIN tail
            BY <1>1, TailTyped
        <3>2. Asks("close", tail[1].rec)
            BY <2>1, <3>1 DEF WriteClose, Asking, Pended
        <3> QED BY <3>2 DEF Asks
    <2>2. CASE ~WriteClose
        BY <2>2 DEF Store, WriteOk, WriteFault, WriteRefused
    <2> QED BY <2>1, <2>2
<1>7. Waits'
    BY <1>1, <1>5, <1>6 DEF Waits, Asking, turnVars, Activities
<1> QED
    BY <1>4, <1>7 DEF Asking

\* submit.
LEMMA SubmitAsking ==
    ASSUME Shape, Asking, Submit
    PROVE  Asking'
<1>1. pc = "none" /\ up = "up"
    BY DEF Submit, Shape, Placed
<1>2. reply["turn"] # "wait"
    BY <1>1, TurnAnswered DEF Asking, Awaiting
<1>3. PICK r : r = Rec("turn_accepted", None, turns + 1) /\ Call("turn", r)
    BY DEF Submit
<1>4. TurnAsks(r)'
    <2>1. pc' = "accept" /\ active' = turns + 1
        BY DEF Submit
    <2> QED BY <1>3, <2>1 DEF TurnAsks
<1>5. pc' \in Awaiting /\ UNCHANGED <<up, closed, stop, cmd, todo>>
    BY DEF Submit, Awaiting
<1> QED
    BY <1>1, <1>2, <1>3, <1>4, <1>5, TurnCallAsking DEF Asking, Waits

\* #consumeSteering, finalizeOnce and dropUnconsumedSteering ask for a record.
LEMMA RecordAsking ==
    ASSUME Shape, Asking, ConsumeNext \/ FinalizeOnce \/ DropNext
    PROVE  Asking'
<1>1. pc \in {"consume", "finalize", "drop"} /\ pc' \in Awaiting /\ UNCHANGED <<up, closed, stop, cmd>>
    BY DEF ConsumeNext, FinalizeOnce, DropNext, Awaiting
<1>2. up = "up" /\ reply["turn"] # "wait"
    BY <1>1, ActiveTyped, TurnAnswered DEF Asking, Awaiting
<1>3. \A i \in DOMAIN todo : todo[i].type = "steering_abandoned"
    BY <1>2 DEF Asking, Waits
<1>4. CASE ConsumeNext
    <2>1. PICK r : r = Rec("steering_consumed", Head(steering).id, active) /\ Call("turn", r)
        BY <1>4 DEF ConsumeNext
    <2>2. pc' = "consuming" /\ UNCHANGED <<steering, active, todo>>
        BY <1>4 DEF ConsumeNext
    <2>3. TurnAsks(r)'
        BY <2>1, <2>2 DEF TurnAsks
    <2> QED BY <1>1, <1>2, <1>3, <2>1, <2>2, <2>3, TurnCallAsking
<1>5. CASE FinalizeOnce
    <2>1. PICK o : outcome' = o /\ Call("turn", Rec("turn_outcome", o, active))
        BY <1>5 DEF FinalizeOnce
    <2>2. PICK r : r = Rec("turn_outcome", o, active) /\ Call("turn", r)
        BY <2>1
    <2>3. pc' = "commit" /\ UNCHANGED <<active, todo>>
        BY <1>5 DEF FinalizeOnce
    <2>4. TurnAsks(r)'
        BY <2>1, <2>2, <2>3 DEF TurnAsks
    <2> QED BY <1>1, <1>2, <1>3, <2>2, <2>3, <2>4, TurnCallAsking
<1>6. CASE DropNext
    <2>1. PICK r : r = Head(todo) /\ Call("turn", r)
        BY <1>6 DEF DropNext
    <2>2. pc' = "dropping" /\ todo' = Tail(todo) /\ todo # <<>>
        BY <1>6 DEF DropNext
    <2>3. todo \in Seq(Records)
        BY DEF Shape, TypeOK, JournalTypes
    <2>4. r.type = "steering_abandoned" /\ \A i \in DOMAIN todo' : todo'[i].type = "steering_abandoned"
        BY <1>3, <2>1, <2>2, <2>3
    <2>5. TurnAsks(r)'
        BY <2>2, <2>4 DEF TurnAsks
    <2> QED BY <1>1, <1>2, <2>1, <2>4, <2>5, TurnCallAsking
<1> QED
    BY <1>4, <1>5, <1>6

\* The turn has its answer.
LEMMA AnswerAsking ==
    ASSUME Shape, Asking, Moving \/ ConsumeWritten \/ CommitWritten \/ DropWritten \/ DropDone \/ Settle
    PROVE  Asking'
<1>1. CASE TurnMove
    <2>1. reply["turn"] # "wait" /\ up = "up"
        BY <1>1, TurnAnswered, ActiveTyped DEF Asking, TurnMove, Open
    <2>2. UNCHANGED <<tail, reply, up, closed, stop, cmd, todo>>
        BY <1>1 DEF TurnMove, store
    <2> QED BY <2>1, <2>2, TurnAsking DEF Asking, Waits
<1>2. CASE ConsumeWritten
    <2>1. reply["turn"] # "wait" /\ up = "up"
        BY <1>2, ActiveTyped DEF ConsumeWritten, Got
    <2>2. UNCHANGED <<tail, reply, up, closed, stop, cmd, todo>>
        BY <1>2 DEF ConsumeWritten, store
    <2> QED BY <2>1, <2>2, TurnAsking DEF Asking, Waits
<1>3. CASE CommitWritten \/ DropWritten \/ DropDone \/ Settle
    <2>1. pc \in {"commit", "dropping", "drop", "settle"} /\ (pc \in Awaiting => reply["turn"] # "wait")
        BY <1>3 DEF CommitWritten, DropWritten, DropDone, Settle, Got, Awaiting
    <2>2. reply["turn"] # "wait" /\ up = "up"
        BY <2>1, TurnAnswered, ActiveTyped DEF Asking
    <2>3. UNCHANGED <<tail, reply, up, closed, stop, cmd>>
        BY <1>3 DEF CommitWritten, DropWritten, DropDone, Settle, store
    <2>4. todo' \in {todo, <<>>, Abandonments(Unconsumed)}
        BY <1>3 DEF CommitWritten, DropWritten, DropDone, Settle
    <2>5. \A i \in DOMAIN Abandonments(Unconsumed) : Abandonments(Unconsumed)[i].type = "steering_abandoned"
        BY DEF Abandonments, Rec
    <2>6. \A i \in DOMAIN <<>> : FALSE
        OBVIOUS
    <2>7. \A i \in DOMAIN todo' : todo'[i].type = "steering_abandoned"
        BY <2>2, <2>4, <2>5, <2>6 DEF Asking, Waits
    <2> QED BY <2>2, <2>3, <2>7, TurnAsking
<1> QED
    BY <1>1, <1>2, <1>3, MovingIsMove

\* A command goes on, with or without a call of append.
LEMMA CommandAsking ==
    ASSUME Shape, Asking, NEW s \in Steers, reply[s] # "wait",
           NEW c, cmd' = [cmd EXCEPT ![s] = c], UNCHANGED <<up, closed, stop, pc, active, outcome, todo>>,
           pc = "consuming" => Head(steering)' = Head(steering),
           \/ UNCHANGED <<tail, reply>>
           \/ \E r : /\ Call(s, r) /\ c.st \in {"accepting", "abandoning"}
                     /\ r = Rec(IF c.st = "accepting" THEN "steering_accepted" ELSE "steering_abandoned", s, c.turn)
    PROVE  Asking'
<1>1. cmd \in [Steers -> Commands] /\ reply \in [Activities -> {"none", "wait", "ok", "err"}]
    BY DEF Shape, TypeOK, SteeringTypes, StoreTypes
<1>2. cmd'[s] = c /\ \A t \in Steers : t # s => cmd'[t] = cmd[t]
    BY <1>1
<1>3. Undisturbed
    BY <1>2 DEF Undisturbed
<1>4. CASE UNCHANGED <<tail, reply>>
    <2>1. Pended'
        BY <1>3, <1>4, PendedKept DEF Asking
    <2>2. Waits'
        BY <1>2, <1>4 DEF Waits, Asking
    <2> QED BY <2>1, <2>2 DEF Asking
<1>5. ASSUME NEW r, Call(s, r), c.st \in {"accepting", "abandoning"},
             r = Rec(IF c.st = "accepting" THEN "steering_accepted" ELSE "steering_abandoned", s, c.turn)
      PROVE  Asking'
    <2>1. s \in Activities /\ s \notin {"turn", "init", "close"}
        BY SteersAssumption DEF Activities
    <2>2. Asks(s, r)'
        BY <1>2, <1>5, <2>1 DEF Asks
    <2>3. reply' = [reply EXCEPT ![s] = "wait"] /\ tail' = Append(tail, [who |-> s, rec |-> r])
        BY <1>5 DEF Call
    <2>4. Pended'
        BY <1>3, <2>1, <2>2, <2>3, PendedCall DEF Asking
    <2>5. reply'["turn"] = reply["turn"] /\ reply'["init"] = reply["init"] /\ \A t \in Steers : t # s => reply'[t] = reply[t]
        BY <1>1, <2>1, <2>3 DEF Activities
    <2>6. Waits'
        BY <1>2, <1>5, <2>5 DEF Waits, Asking
    <2> QED BY <2>4, <2>6 DEF Asking
<1> QED
    BY <1>4, <1>5

\* steerEngineTurn.
LEMMA SteerAsking ==
    ASSUME Shape, Asking, NEW s \in Steers, SteerCall(s) \/ SteerWritten(s) \/ SteerAbandoned(s)
    PROVE  Asking'
<1>1. UNCHANGED <<up, closed, stop, pc, active, outcome, todo>>
    BY DEF SteerCall, SteerWritten, SteerAbandoned, turnVars, store
<1>2. reply[s] # "wait"
    BY DEF SteerCall, SteerWritten, SteerAbandoned, Got, Asking, Waits
<1>3. pc = "consuming" => Head(steering)' = Head(steering)
    <2>1. CASE steering' = steering
        BY <2>1
    <2>2. CASE steering' = Append(steering, Item(s, cmd[s].turn))
        <3>1. pc = "consuming" => steering # <<>>
            BY DEF Shape, Placed
        <3>2. steering \in Seq([id : Steers, turn : Turns]) /\ cmd[s].turn \in Turns \cup {None}
            BY CommandTyped DEF Shape, TypeOK, SteeringTypes
        <3> QED BY <2>2, <3>1, <3>2
    <2> QED BY <2>1, <2>2 DEF SteerCall, SteerWritten, SteerAbandoned
<1>4. CASE SteerCall(s)
    <2>1. CASE cmd' = [cmd EXCEPT ![s] = [st |-> "refused", turn |-> None]] /\ UNCHANGED <<tail, reply>>
        BY <1>1, <1>2, <1>3, <2>1, CommandAsking
    <2>2. CASE /\ Call(s, Rec("steering_accepted", s, active))
               /\ cmd' = [cmd EXCEPT ![s] = [st |-> "accepting", turn |-> active]]
        <3>1. PICK c : c = [st |-> "accepting", turn |-> active]
            OBVIOUS
        <3>2. PICK r : r = Rec("steering_accepted", s, active)
            OBVIOUS
        <3>3. c.st = "accepting" /\ c.turn = active /\ cmd' = [cmd EXCEPT ![s] = c] /\ Call(s, r)
            BY <2>2, <3>1, <3>2
        <3> HIDE <3>1
        <3> QED BY <1>1, <1>2, <1>3, <3>2, <3>3, CommandAsking
    <2> QED BY <1>4, <2>1, <2>2 DEF SteerCall
<1>5. CASE SteerWritten(s) \/ SteerAbandoned(s)
    <2>1. /\ cmd[s].turn \in Turns \cup {None}
          /\ \A x \in {"new", "accepting", "abandoning", "accepted", "refused", "error", "lost"} :
               [cmd EXCEPT ![s].st = x] = [cmd EXCEPT ![s] = [st |-> x, turn |-> cmd[s].turn]]
        BY CommandTyped
    <2>2. PICK x \in {"accepted", "abandoning", "error", "refused"} :
            /\ cmd' = [cmd EXCEPT ![s].st = x]
            /\ \/ UNCHANGED <<tail, reply>>
               \/ x = "abandoning" /\ Call(s, Rec("steering_abandoned", s, cmd[s].turn))
        BY <1>5 DEF SteerWritten, SteerAbandoned, store
    <2>3. PICK c : c = [st |-> x, turn |-> cmd[s].turn]
        OBVIOUS
    <2>4. PICK r : r = Rec("steering_abandoned", s, cmd[s].turn)
        OBVIOUS
    <2>5. c.st = x /\ c.turn = cmd[s].turn /\ cmd' = [cmd EXCEPT ![s] = c]
        BY <2>1, <2>2, <2>3
    <2>6. UNCHANGED <<tail, reply>> \/ (x = "abandoning" /\ Call(s, r))
        BY <2>2, <2>4
    <2> HIDE <2>2, <2>3
    <2> QED BY <1>1, <1>2, <1>3, <2>4, <2>5, <2>6, CommandAsking
<1> QED
    BY <1>4, <1>5

\* cancel, shutdown, tools.close().
LEMMA StopAsking ==
    ASSUME Shape, Asking, UNCHANGED vars \/ Cancel \/ Shutdown \/ ShutdownJoin \/ ShutdownClose \/ \E t \in Turns : ToolsClosed(t)
    PROVE  Asking'
<1>1. UNCHANGED <<reply, up, closed, cmd, outcome, pc, steering, todo>> /\ (stop = "closed" => stop' = "closed")
    BY DEF vars, store, turnVars, Cancel, Shutdown, ShutdownJoin, ShutdownClose, ToolsClosed
<1>2. pc # "none" => active' = active
    BY DEF vars, turnVars, Cancel, Shutdown, ShutdownJoin, ShutdownClose, ToolsClosed, Shape, Placed
<1>3. Undisturbed
    BY <1>1, <1>2 DEF Undisturbed, Asking, Waits, Awaiting
<1>4. Waits'
    BY <1>1 DEF Waits, Asking
<1>5. CASE tail' = tail
    BY <1>1, <1>3, <1>4, <1>5, PendedKept DEF Asking
<1>6. CASE ShutdownClose
    <2>1. PICK r : tail' = Append(tail, [who |-> "close", rec |-> r])
        BY <1>6 DEF ShutdownClose
    <2>2. "close" \notin Activities /\ "close" \notin {"turn", "init"} /\ "close" \notin Steers
        BY SteersAssumption DEF Activities
    <2>3. Asks("close", r)'
        BY <1>6, <2>2 DEF ShutdownClose, Asks
    <2>4. stop # "closed"
        BY <1>6 DEF ShutdownClose
    <2> QED BY <1>1, <1>3, <1>4, <2>1, <2>2, <2>3, <2>4, PendedCall DEF Asking
<1> QED
    BY <1>5, <1>6 DEF vars, store, Cancel, Shutdown, ShutdownJoin, ToolsClosed

\* A process begins with no appends under way.
LEMMA InitAsking == Init => Asking
<1> SUFFICES ASSUME Init PROVE Asking
    OBVIOUS
<1>1. Pended
    BY DEF Init, Pended
<1>2. Waits
    BY DEF Init, Waits, Activities
<1> QED
    BY <1>1, <1>2 DEF Asking

\* The process dies, and starts again.
LEMMA RestartAsking ==
    ASSUME Shape, Asking, Exit \/ Start \/ RestoreNext \/ Ready
    PROVE  Asking'
<1>1. CASE Exit
    <2>1. tail' = <<>> /\ up' = "down" /\ closed' = FALSE /\ \A w \in Activities : reply'[w] = "none"
        BY <1>1 DEF Exit, Fresh
    <2>2. Pended'
        BY <2>1 DEF Pended
    <2>3. Waits'
        BY <2>1 DEF Waits, Activities
    <2> QED BY <2>2, <2>3 DEF Asking
<1>2. CASE Start
    <2>1. up = "down" /\ up' = "restoring" /\ tail = <<>> /\ UNCHANGED <<tail, reply, closed, stop, cmd, pc>>
        BY <1>2 DEF Start, Shape, Placed, store, turnVars
    <2>2. Pended'
        BY <2>1 DEF Pended
    <2>3. \A i \in DOMAIN todo' : todo'[i].type \in {"steering_abandoned", "turn_interrupted"}
        <3> DEFINE A == Abandonments(Orphaned)
        <3> DEFINE B == [i \in DOMAIN Interrupted |-> Rec("turn_interrupted", None, Interrupted[i].turn)]
        <3>1. A \in Seq(Records) /\ B \in Seq(Records)
            BY RestoredTyped
        <3>2. \A i \in DOMAIN A : A[i].type = "steering_abandoned"
            BY DEF Abandonments, Rec
        <3>3. \A i \in DOMAIN B : B[i].type = "turn_interrupted"
            BY DEF Rec
        <3>4. todo' = A \o B
            BY <1>2 DEF Start
        <3> HIDE DEF A, B
        <3> QED BY <3>1, <3>2, <3>3, <3>4
    <2>4. Waits'
        BY <2>1, <2>3 DEF Waits, Asking
    <2> QED BY <2>2, <2>4 DEF Asking
<1>3. CASE RestoreNext
    <2>1. /\ up = "restoring" /\ todo # <<>> /\ reply["init"] # "wait" /\ todo' = Tail(todo)
          /\ UNCHANGED <<up, closed, stop, cmd, pc, active, outcome, steering>>
        BY <1>3 DEF RestoreNext, turnVars
    <2>2. PICK r : r = Head(todo) /\ Call("init", r)
        BY <1>3 DEF RestoreNext
    <2>3. todo \in Seq(Records) /\ \A i \in DOMAIN todo : todo[i].type \in {"steering_abandoned", "turn_interrupted"}
        BY <2>1 DEF Shape, TypeOK, JournalTypes, Asking, Waits
    <2>4. /\ r.type \in {"steering_abandoned", "turn_interrupted"}
          /\ \A i \in DOMAIN todo' : todo'[i].type \in {"steering_abandoned", "turn_interrupted"}
        BY <2>1, <2>2, <2>3
    <2>5. "init" \in Activities /\ "init" \notin Steers /\ "init" # "turn" /\ "init" # "close"
        BY SteersAssumption DEF Activities
    <2>6. Asks("init", r)'
        BY <2>1, <2>4, <2>5 DEF Asks
    <2>7. Undisturbed
        BY <2>1 DEF Undisturbed
    <2>8. Pended'
        BY <2>1, <2>2, <2>5, <2>6, <2>7, PendedCall DEF Asking, Call
    <2>9. reply'["turn"] = reply["turn"] /\ \A s \in Steers : reply'[s] = reply[s]
        BY <2>2, <2>5 DEF Call, Activities, Shape, TypeOK, StoreTypes
    <2>10. Waits'
        BY <2>1, <2>4, <2>9 DEF Waits, Asking
    <2> QED BY <2>8, <2>10 DEF Asking
<1>4. CASE Ready
    <2>1. /\ up = "restoring" /\ todo = <<>> /\ reply["init"] # "wait"
          /\ UNCHANGED <<tail, reply, closed, stop, cmd, pc, active, outcome, steering, todo>>
        BY <1>4 DEF Ready, store, turnVars
    <2>2. Undisturbed
        BY <2>1 DEF Undisturbed
    <2>3. Pended'
        BY <2>1, <2>2, PendedKept DEF Asking
    <2>4. Waits'
        BY <2>1 DEF Waits, Asking
    <2> QED BY <2>3, <2>4 DEF Asking
<1> QED
    BY <1>1, <1>2, <1>3, <1>4

\* Every step keeps the appends under way and the activities together.
LEMMA NextAsking ==
    ASSUME Shape, Asking, [Next]_vars
    PROVE  Asking'
<1>1. CASE UNCHANGED vars
    BY <1>1, StopAsking
<1>2. CASE Next
    <2>1. Steps
        BY <1>2, NextIsSteps
    <2> QED
        BY <2>1, StoreAsking, SubmitAsking, RecordAsking, AnswerAsking, SteerAsking, StopAsking, RestartAsking DEF Steps
<1> QED
    BY <1>1, <1>2

----------------------------------------------------------------------------
(* The records of turns. *)

\* A record joins the journal.
LEMMA JournalGrows ==
    ASSUME Shape, NEW r, journal' = Append(journal, r)
    PROVE  /\ Len(journal) \in Nat /\ DOMAIN journal = 1 .. Len(journal) /\ DOMAIN journal' = 1 .. Len(journal) + 1
           /\ \A i \in DOMAIN journal : journal'[i] = journal[i] /\ i \in DOMAIN journal'
           /\ \A i \in DOMAIN journal' : i \in DOMAIN journal \/ i = Len(journal) + 1
           /\ journal'[Len(journal) + 1] = r /\ Len(journal) + 1 \in DOMAIN journal'
           /\ \A type : /\ TurnsOf(type)' = TurnsOf(type) \cup (IF r.type = type THEN {r.turn} ELSE {})
                        /\ IdsOf(type)' = IdsOf(type) \cup (IF r.type = type THEN {r.id} ELSE {})
<1>1. journal \in Seq(Records)
    BY DEF Shape, TypeOK, JournalTypes
<1>2. /\ Len(journal) \in Nat /\ DOMAIN journal = 1 .. Len(journal) /\ DOMAIN journal' = 1 .. Len(journal) + 1
      /\ \A i \in 1 .. Len(journal) : journal'[i] = journal[i]
      /\ journal'[Len(journal) + 1] = r
    BY <1>1
<1>3. /\ \A i \in DOMAIN journal : journal'[i] = journal[i] /\ i \in DOMAIN journal'
      /\ \A i \in DOMAIN journal' : i \in DOMAIN journal \/ i = Len(journal) + 1
      /\ Len(journal) + 1 \in DOMAIN journal'
    BY <1>2
<1>4. ASSUME NEW type PROVE TypesOf(type)' = TypesOf(type) \cup (IF r.type = type THEN {Len(journal) + 1} ELSE {})
    BY <1>2, <1>3 DEF TypesOf
<1>5. ASSUME NEW type PROVE TurnsOf(type)' = TurnsOf(type) \cup (IF r.type = type THEN {r.turn} ELSE {})
    <2>1. \A i \in TypesOf(type) : journal'[i] = journal[i]
        BY <1>3 DEF TypesOf
    <2> QED BY <1>2, <1>4, <2>1 DEF TurnsOf
<1>6. ASSUME NEW type PROVE IdsOf(type)' = IdsOf(type) \cup (IF r.type = type THEN {r.id} ELSE {})
    <2>1. \A i \in TypesOf(type) : journal'[i] = journal[i]
        BY <1>3 DEF TypesOf
    <2> QED BY <1>2, <1>4, <2>1 DEF IdsOf
<1> QED
    BY <1>2, <1>3, <1>5, <1>6

\* What it tells of turns.
LEMMA TurnsGrow ==
    ASSUME Shape, NEW r, journal' = Append(journal, r)
    PROVE  /\ TurnsOf("turn_accepted")' = TurnsOf("turn_accepted") \cup (IF r.type = "turn_accepted" THEN {r.turn} ELSE {})
           /\ TurnsOf("turn_outcome")' = TurnsOf("turn_outcome") \cup (IF r.type = "turn_outcome" THEN {r.turn} ELSE {})
           /\ TurnsOf("turn_interrupted")' = TurnsOf("turn_interrupted") \cup (IF r.type = "turn_interrupted" THEN {r.turn} ELSE {})
<1>1. \A type : TurnsOf(type)' = TurnsOf(type) \cup (IF r.type = type THEN {r.turn} ELSE {})
    BY JournalGrows
<1> QED
    BY <1>1

\* Nothing joins it.
LEMMA JournalStays ==
    ASSUME UNCHANGED journal
    PROVE  /\ \A type : TurnsOf(type)' = TurnsOf(type) /\ IdsOf(type)' = IdsOf(type)
           /\ Terminal' = Terminal /\ ActiveTurns' = ActiveTurns
BY DEF TypesOf, TurnsOf, IdsOf, Terminal, ActiveTurns, TerminalTurns

\* The turns a record of the given kind is about.
LEMMA TurnsOfIs ==
    ASSUME NEW type, NEW t
    PROVE  t \in TurnsOf(type) <=> \E i \in DOMAIN journal : journal[i].type = type /\ journal[i].turn = t
BY DEF TurnsOf, TypesOf

\* A record of a turn that has none of that kind keeps them single.
LEMMA OnceGrows ==
    ASSUME Shape, Once, NEW r, journal' = Append(journal, r),
           r.type = "turn_accepted" => r.turn \notin TurnsOf("turn_accepted"),
           r.type \in TerminalTypes => r.turn \notin Terminal
    PROVE  Once'
<1>1. /\ \A i \in DOMAIN journal : journal'[i] = journal[i]
      /\ \A i \in DOMAIN journal' : i \in DOMAIN journal \/ i = Len(journal) + 1
      /\ journal'[Len(journal) + 1] = r
    BY JournalGrows
<1>2. ASSUME NEW i \in DOMAIN journal
      PROVE  ~(/\ journal[i].turn = r.turn
               /\ \/ journal[i].type = "turn_accepted" /\ r.type = "turn_accepted"
                  \/ journal[i].type \in TerminalTypes /\ r.type \in TerminalTypes)
    BY TurnsOfIs DEF Terminal, TerminalTypes
<1> QED
    BY <1>1, <1>2 DEF Once

\* The active turn and the terminal records.
LEMMA ActiveTurnsIs == ActiveTurns = TurnsOf("turn_accepted") \ Terminal
BY DEF ActiveTurns, TerminalTurns, Terminal

\* An engine that does not restore has nothing to record as interrupted.
LEMMA NothingInterrupted ==
    ASSUME Shape, Asking, up # "restoring"
    PROVE  Left = {} /\ Sent = {} /\ LeftTurns = {} /\ SentTurns = {}
<1>1. Left = {}
    <2>1. up = "up" \/ todo = <<>>
        BY DEF Shape, Placed, TypeOK, EngineTypes
    <2> QED BY <2>1 DEF Left, Asking, Waits
<1>2. Sent = {}
    <2>1. ASSUME NEW i \in DOMAIN tail PROVE tail[i].rec.type # "turn_interrupted"
        <3>1. tail[i] \in [who : Activities, rec : Records] \cup {[who |-> "close", rec |-> Rec("close", None, None)]}
            BY DEF Shape, TypeOK, StoreTypes
        <3>2. CASE tail[i] = [who |-> "close", rec |-> Rec("close", None, None)]
            BY <3>2 DEF Rec
        <3>3. CASE tail[i].who \in Activities
            <4>1. Asks(tail[i].who, tail[i].rec)
                BY DEF Asking, Pended
            <4> QED BY <3>3, <4>1 DEF Asks, TurnAsks, Rec, Activities
        <3> QED BY <3>1, <3>2, <3>3
    <2> QED BY <2>1 DEF Sent
<1> QED
    BY <1>1, <1>2 DEF LeftTurns, SentTurns

\* So the third part of the invariant is about the restoration.
LEMMA InterruptsWhenUp == Shape /\ Asking /\ up # "restoring" => Interrupts
BY NothingInterrupted DEF Interrupts

\* After a step, too.
LEMMA InterruptsWhenUpNext == (Shape /\ Asking /\ up # "restoring" => Interrupts)'
BY InterruptsWhenUp, PTL

\* A step of the engine that writes nothing, seen from the records of turns.
LEMMA RecordedKept ==
    ASSUME Shape, Recorded, UNCHANGED <<journal, turns>>, up' = "up",
           UNCHANGED up \/ ActiveTurns = {},
           pc' = "accept" /\ reply'["turn"] = "wait" => pc = "accept" /\ reply["turn"] = "wait",
           active' = active \/ active' = None,
           active' = active => (\/ pc \notin Dropped \cup {"none", "wedged"} /\ (pc = "commit" => reply["turn"] = "wait")
                                \/ pc' \in Dropped \cup {"none", "wedged"}
                                \/ pc' = "commit" /\ reply'["turn"] # "wait"),
           Committed' => Committed \/ ActiveTurns = {},
           active' = active \/ Committed \/ ActiveTurns = {}
    PROVE  Recorded'
<1>1. /\ TurnsOf("turn_accepted")' = TurnsOf("turn_accepted")
      /\ Terminal' = Terminal /\ ActiveTurns' = ActiveTurns
    BY JournalStays
<1>2. None \notin Terminal /\ None \notin TurnsOf("turn_accepted")
    <2>1. \A t \in 1 .. turns : t \in Nat
        BY DEF Shape, TypeOK, EngineTypes
    <2> QED BY <2>1, NoneAssumption DEF Recorded
<1>3. (TurnsOf("turn_accepted") \cup Terminal \subseteq 1 .. turns)'
    BY <1>1 DEF Recorded
<1>4. (pc = "accept" /\ reply["turn"] = "wait" => active \notin TurnsOf("turn_accepted"))'
    BY <1>1, <1>2 DEF Recorded
<1>5. (active \in Terminal => \/ pc \in Dropped \cup {"none", "wedged"}
                              \/ pc = "commit" /\ reply["turn"] # "wait")'
    BY <1>1, <1>2 DEF Recorded, Dropped
<1>6. (ActiveTurns \subseteq IF Committed THEN {} ELSE {active})'
    <2>1. CASE ActiveTurns = {}
        BY <1>1, <2>1
    <2>2. CASE up = "up"
        BY <1>1, <2>2 DEF Recorded
    <2> QED BY <2>1, <2>2
<1> QED
    BY <1>3, <1>4, <1>5, <1>6 DEF Recorded

\* submit: a turn that the journal has not seen.
LEMMA SubmitRecorded ==
    ASSUME Shape, Recorded, Submit
    PROVE  Recorded'
<1>1. /\ pc = "none" /\ up = "up" /\ up' = "up" /\ pc' = "accept" /\ active' = turns + 1
      /\ turns' = turns + 1 /\ turns \in Nat /\ UNCHANGED journal
    BY DEF Submit, Shape, Placed, TypeOK, EngineTypes
<1>2. /\ TurnsOf("turn_accepted")' = TurnsOf("turn_accepted")
      /\ Terminal' = Terminal /\ ActiveTurns' = ActiveTurns
    BY <1>1, JournalStays
<1>3. ActiveTurns = {}
    BY <1>1 DEF Recorded, Committed
<1>4. active' \notin 1 .. turns /\ 1 .. turns \subseteq 1 .. turns'
    BY <1>1
<1> QED
    BY <1>1, <1>2, <1>3, <1>4 DEF Recorded

\* The other steps of an engine that is up and writes nothing.
LEMMA UpRecorded ==
    ASSUME Shape, Asking, Recorded, Moving \/ ConsumeNext \/ ConsumeWritten \/ FinalizeOnce
    PROVE  Recorded'
<1> USE DEF Dropped
<1>1. CASE TurnMove
    <2>1. pc \in Open /\ pc' \in (Open \ Awaiting) \cup {"finalize"}
        BY <1>1 DEF TurnMove
    <2>2. up = "up" /\ UNCHANGED <<journal, turns, up, active>>
        BY <1>1, <2>1, ActiveTyped DEF TurnMove, durable, Open
    <2>3. ~Committed'
        BY <2>1 DEF Committed, Open, Awaiting
    <2> QED BY <2>1, <2>2, <2>3, RecordedKept DEF Open, Awaiting
<1>2. CASE ConsumeNext \/ ConsumeWritten \/ FinalizeOnce
    <2>1. CASE TurnMove
        BY <1>1, <2>1
    <2>2. CASE pc \in {"consume", "consuming", "finalize"} /\ pc' \in {"consume", "consuming", "commit"}
               /\ (pc' = "commit" => reply'["turn"] = "wait")
        <3>1. up = "up" /\ UNCHANGED <<journal, turns, up, active>>
            BY <1>2, <2>2, ActiveTyped DEF ConsumeNext, ConsumeWritten, FinalizeOnce, durable
        <3>2. ~Committed'
            BY <2>2 DEF Committed
        <3> QED BY <2>2, <3>1, <3>2, RecordedKept
    <2>3. FinalizeOnce => reply'["turn"] = "wait"
        BY DEF FinalizeOnce, Call, Shape, TypeOK, StoreTypes, Activities
    <2> QED BY <1>2, <2>1, <2>2, <2>3, ConsumeWrittenIs DEF ConsumeNext, FinalizeOnce
<1> QED
    BY <1>1, <1>2, MovingIsMove

\* finalizeOnce after the commit is known.
LEMMA CommitRecorded ==
    ASSUME Shape, Recorded, CommitWritten \/ DropNext \/ DropWritten \/ DropDone \/ Settle
    PROVE  Recorded'
<1> USE DEF Dropped
<1>1. /\ pc \in Dropped \cup {"commit"} /\ pc' \in Dropped \cup {"none", "wedged"} /\ (pc = "commit" => reply["turn"] # "wait")
      /\ Committed' => Committed
    BY DEF CommitWritten, DropNext, DropWritten, DropDone, Settle, CommitFault, Got, Committed
<1>2. up = "up" /\ UNCHANGED <<journal, turns, up, active>>
    BY <1>1, ActiveTyped DEF CommitWritten, DropNext, DropWritten, DropDone, Settle, durable
<1> QED
    BY <1>1, <1>2, RecordedKept

\* The commands, shutdown and tools.close() leave the turn where it is.
LEMMA CommandRecorded ==
    ASSUME Shape, Recorded,
           \/ \E s \in Steers : SteerCall(s) \/ SteerWritten(s) \/ SteerAbandoned(s)
           \/ Cancel \/ Shutdown \/ ShutdownJoin \/ ShutdownClose
           \/ \E t \in Turns : ToolsClosed(t)
    PROVE  Recorded'
<1>1. up = "up" /\ UNCHANGED <<journal, turns, up, pc>>
    BY DEF SteerCall, SteerWritten, SteerAbandoned, Cancel, Shutdown, ShutdownJoin, ShutdownClose, ToolsClosed,
           Shape, Placed, Commanded, durable, turnVars
<1>2. reply'["turn"] = reply["turn"]
    <2>1. reply \in [Activities -> {"none", "wait", "ok", "err"}] /\ "turn" \notin Steers /\ "turn" \in Activities
        BY SteersAssumption DEF Shape, TypeOK, StoreTypes, Activities
    <2>2. reply' = reply \/ \E s \in Steers : reply' = [reply EXCEPT ![s] = "wait"]
        BY DEF SteerCall, SteerWritten, SteerAbandoned, Cancel, Shutdown, ShutdownJoin, ShutdownClose, ToolsClosed, Call, store
    <2> QED BY <2>1, <2>2
<1>3. active' = active \/ (active' = None /\ pc = "none")
    BY DEF SteerCall, SteerWritten, SteerAbandoned, Cancel, Shutdown, ShutdownJoin, ShutdownClose, ToolsClosed,
           turnVars, Shape, Placed
<1>4. Committed' <=> Committed
    BY <1>1, <1>2 DEF Committed
<1>5. pc = "none" => Committed
    BY DEF Committed
<1> QED
    BY <1>1, <1>2, <1>3, <1>4, <1>5, RecordedKept

\* What the store does with the oldest append, and whose it is.
LEMMA StoreWrites ==
    ASSUME Shape, Asking, Store
    PROVE  /\ UNCHANGED <<starts, turns, turnVars, up, state, closing, steering, cmd, stop, awaited, todo>>
           /\ tail' = Tail(tail) /\ tail # <<>> /\ Head(tail) = tail[1] /\ 1 \in DOMAIN tail
           /\ \/ UNCHANGED <<journal, reply, failed>> /\ Head(tail).who = "close" /\ closed'
              \/ \E w \in Activities, r \in Records, x \in {"ok", "err"} :
                   /\ Head(tail).who = w /\ Head(tail).rec = r /\ Asks(w, r) /\ reply[w] = "wait"
                   /\ reply' = [reply EXCEPT ![w] = x] /\ closed' = closed
                   /\ journal' = journal \/ journal' = Append(journal, r)
                   /\ x = "ok" => journal' = Append(journal, r) /\ ~failed /\ ~closed /\ failed' = failed
                   /\ journal' = Append(journal, r) => ~failed /\ ~closed
                   /\ x = "err" => failed' \/ closed
                   /\ failed => failed'
<1>1. /\ UNCHANGED <<starts, turns, turnVars, up, state, closing, steering, cmd, stop, awaited, todo>>
      /\ tail' = Tail(tail) /\ tail # <<>>
    BY DEF Store, WriteOk, WriteFault, WriteRefused, WriteClose, durable
<1>2. Head(tail) = tail[1] /\ 1 \in DOMAIN tail
    BY <1>1, TailTyped
<1>3. CASE WriteClose
    BY <1>1, <1>2, <1>3 DEF WriteClose, durable
<1>4. CASE WriteOk \/ WriteFault \/ WriteRefused
    <2>0. PICK w \in Activities : Head(tail).who = w
        BY <1>4 DEF WriteOk, WriteFault, WriteRefused
    <2>1. PICK r : Head(tail).who = w /\ Head(tail).rec = r
        BY <2>0
    <2>2. Asks(w, r) /\ reply[w] = "wait" /\ r \in Records
        BY <1>1, <1>2, <2>1, HeadTyped DEF Asking, Pended
    <2>3. journal # Append(journal, r)
        <3>1. journal \in Seq(Records)
            BY DEF Shape, TypeOK, JournalTypes
        <3>2. Len(Append(journal, r)) = Len(journal) + 1 /\ Len(journal) \in Nat
            BY <2>2, <3>1
        <3> QED BY <3>2
    <2>4. \E x \in {"ok", "err"} :
                   /\ reply' = [reply EXCEPT ![w] = x] /\ closed' = closed
                   /\ journal' = journal \/ journal' = Append(journal, r)
                   /\ x = "ok" => journal' = Append(journal, r) /\ ~failed /\ ~closed /\ failed' = failed
                   /\ journal' = Append(journal, r) => ~failed /\ ~closed
                   /\ x = "err" => failed' \/ closed
                   /\ failed => failed'
        BY <1>4, <2>1, <2>3 DEF WriteOk, WriteFault, WriteRefused, durable
    <2> QED BY <1>1, <1>2, <2>1, <2>2, <2>4
<1> QED
    BY <1>3, <1>4 DEF Store

\* The records that restoration does not read for turns.
SteeringTypesOf == {"steering_accepted", "steering_consumed", "steering_abandoned"}

\* A record of the running engine reaches the journal, or not.
LEMMA WriteRecorded ==
    ASSUME Shape, Asking, TurnRecords, Store, up = "up"
    PROVE  Once' /\ Recorded'
<1> USE DEF Dropped
<1>1. UNCHANGED <<turns, pc, active, outcome, up>>
    BY StoreWrites DEF turnVars
<1>2. CASE UNCHANGED <<journal, reply>>
    <2>1. Committed' <=> Committed
        BY <1>1, <1>2 DEF Committed
    <2> QED BY <1>1, <1>2, <2>1, RecordedKept DEF TurnRecords, Once
<1>3. ASSUME NEW w \in Activities, NEW r \in Records, NEW x \in {"ok", "err"},
             Asks(w, r), reply[w] = "wait", reply' = [reply EXCEPT ![w] = x],
             journal' = journal \/ journal' = Append(journal, r), x = "ok" => journal' = Append(journal, r)
      PROVE  Once' /\ Recorded'
    <2>1. reply \in [Activities -> {"none", "wait", "ok", "err"}] /\ "turn" \in Activities /\ r.turn \in Turns
        BY RecordTyped DEF Shape, TypeOK, StoreTypes, Activities
    <2>2. reply'["turn"] = "wait" => reply["turn"] = "wait"
        BY <1>3, <2>1
    <2>3. CASE w = "turn" /\ pc = "accept"
        <3>1. r = Rec("turn_accepted", None, active) /\ r.type = "turn_accepted" /\ r.turn = active
            BY <1>3, <2>3 DEF Asks, TurnAsks, Rec
        <3>2. reply'["turn"] = x /\ x # "wait" /\ ~Committed /\ ~Committed'
            BY <1>1, <1>3, <2>1, <2>3 DEF Committed
        <3>3. active \notin TurnsOf("turn_accepted") /\ active \in 1 .. turns
            <4>1. active # None /\ active \in Turns
                BY <2>3, ActiveTyped
            <4>2. active <= turns /\ turns \in Nat
                BY <4>1 DEF Shape, Placed, TypeOK, EngineTypes
            <4> QED BY <1>3, <2>3, <4>1, <4>2 DEF TurnRecords, Recorded, Turns
        <3>4. CASE journal' = journal
            BY <1>1, <2>3, <3>2, <3>4, RecordedKept DEF TurnRecords, Once
        <3>5. CASE journal' = Append(journal, r)
            <4>1. Once'
                BY <3>1, <3>3, <3>5, OnceGrows DEF TurnRecords, TerminalTypes
            <4>2. /\ TurnsOf("turn_accepted")' = TurnsOf("turn_accepted") \cup {active}
                  /\ TurnsOf("turn_outcome")' = TurnsOf("turn_outcome")
                  /\ TurnsOf("turn_interrupted")' = TurnsOf("turn_interrupted")
                BY <3>1, <3>5, TurnsGrow
            <4>3. Terminal' = Terminal /\ ActiveTurns' \subseteq ActiveTurns \cup {active}
                BY <4>2 DEF Terminal, ActiveTurns, TerminalTurns
            <4>4. active \notin Terminal
                BY <2>3 DEF TurnRecords, Recorded
            <4> QED BY <1>1, <2>3, <3>2, <3>3, <4>1, <4>2, <4>3, <4>4 DEF TurnRecords, Recorded
        <3> QED BY <1>3, <3>4, <3>5
    <2>4. CASE w = "turn" /\ pc = "commit"
        <3>1. r = Rec("turn_outcome", outcome, active) /\ r.type = "turn_outcome" /\ r.turn = active
            BY <1>3, <2>4 DEF Asks, TurnAsks, Rec
        <3>2. reply'["turn"] = x /\ ~Committed /\ (Committed' <=> x = "ok")
            BY <1>1, <1>3, <2>1, <2>4 DEF Committed
        <3>3. active \notin Terminal
            BY <1>3, <2>4 DEF TurnRecords, Recorded
        <3>4. CASE journal' = journal
            <4>1. x = "err"
                <5>1. journal \in Seq(Records)
                    BY DEF Shape, TypeOK, JournalTypes
                <5>2. Len(Append(journal, r)) = Len(journal) + 1 /\ Len(journal) \in Nat
                    BY <5>1
                <5> QED BY <1>3, <3>4, <5>2
            <4> QED BY <1>1, <1>3, <2>4, <3>2, <3>4, <4>1, RecordedKept DEF TurnRecords, Once
        <3>5. CASE journal' = Append(journal, r)
            <4>1. Once'
                BY <3>1, <3>3, <3>5, OnceGrows DEF TurnRecords
            <4>2. /\ TurnsOf("turn_accepted")' = TurnsOf("turn_accepted")
                  /\ TurnsOf("turn_outcome")' = TurnsOf("turn_outcome") \cup {active}
                  /\ TurnsOf("turn_interrupted")' = TurnsOf("turn_interrupted")
                BY <3>1, <3>5, TurnsGrow
            <4>3. Terminal' = Terminal \cup {active} /\ ActiveTurns' = ActiveTurns \ {active}
                BY <4>2 DEF Terminal, ActiveTurns, TerminalTurns
            <4>4. active \in 1 .. turns
                <5>1. active # None /\ active \in Turns
                    BY <2>4, ActiveTyped
                <5>2. active <= turns /\ turns \in Nat
                    BY <5>1 DEF Shape, Placed, TypeOK, EngineTypes
                <5> QED BY <5>1, <5>2 DEF Turns
            <4>5. ActiveTurns' = {}
                BY <3>2, <4>3 DEF TurnRecords, Recorded
            <4> QED BY <1>1, <2>4, <3>2, <4>1, <4>2, <4>3, <4>4, <4>5 DEF TurnRecords, Recorded
        <3> QED BY <1>3, <3>4, <3>5
    <2>5. CASE ~(w = "turn" /\ pc \in {"accept", "commit"})
        <3>1. r.type \in SteeringTypesOf
            BY <1>3, <2>5 DEF Asks, TurnAsks, Rec, Activities, SteeringTypesOf
        <3>2. /\ Once' /\ TurnsOf("turn_accepted")' = TurnsOf("turn_accepted")
              /\ Terminal' = Terminal /\ ActiveTurns' = ActiveTurns
            <4>1. CASE journal' = journal
                BY <4>1, JournalStays DEF TurnRecords, Once
            <4>2. CASE journal' = Append(journal, r)
                <5>1. Once'
                    BY <3>1, <4>2, OnceGrows DEF TurnRecords, TerminalTypes, SteeringTypesOf
                <5>2. /\ TurnsOf("turn_accepted")' = TurnsOf("turn_accepted")
                      /\ TurnsOf("turn_outcome")' = TurnsOf("turn_outcome")
                      /\ TurnsOf("turn_interrupted")' = TurnsOf("turn_interrupted")
                    BY <3>1, <4>2, TurnsGrow DEF SteeringTypesOf
                <5> QED BY <5>1, <5>2 DEF Terminal, ActiveTurns, TerminalTurns
            <4> QED BY <1>3, <4>1, <4>2
        <3>3. pc \in {"accept", "commit"} => reply'["turn"] = reply["turn"]
            BY <1>3, <2>1, <2>5
        <3>4. Committed' <=> Committed
            BY <1>1, <3>3 DEF Committed
        <3> QED BY <1>1, <2>2, <3>2, <3>3, <3>4 DEF TurnRecords, Recorded
    <2> QED BY <2>3, <2>4, <2>5
<1> QED
    BY <1>2, <1>3, StoreWrites

\* A restoration alone is under way: it has at most one append pending.
LEMMA RestoringAlone ==
    ASSUME Shape, Asking, up = "restoring"
    PROVE  /\ pc = "none" /\ active = None /\ DOMAIN tail \subseteq {1}
           /\ \A i \in DOMAIN tail : tail[i].who = "init" /\ reply["init"] = "wait"
           /\ tail # <<>> => Tail(tail) = <<>>
<1>1. pc = "none" /\ active = None /\ stop = "no"
    BY DEF Shape, Placed
<1>2. ASSUME NEW i \in DOMAIN tail PROVE tail[i].who = "init" /\ reply["init"] = "wait"
    <2>1. Asks(tail[i].who, tail[i].rec) /\ (tail[i].who \in Activities => reply[tail[i].who] = "wait")
        BY DEF Asking, Pended
    <2>2. tail[i].who \in Activities \cup {"close"}
        BY TailTyped
    <2>3. tail[i].who # "close"
        BY <1>1, <2>1 DEF Asks
    <2>4. tail[i].who # "turn"
        BY <1>1, <2>1 DEF Asks, TurnAsks
    <2>5. tail[i].who \notin Steers
        BY <2>1 DEF Asks, Shape, Commanded
    <2> QED BY <2>1, <2>2, <2>3, <2>4, <2>5 DEF Activities
<1>3. Len(tail) \in Nat /\ DOMAIN tail = 1 .. Len(tail)
    BY TailTyped
<1>4. \A i, j \in DOMAIN tail : i = j
    BY <1>2 DEF Asking, Pended
<1>5. \A i \in DOMAIN tail : i = 1
    <2>1. ASSUME NEW i \in DOMAIN tail PROVE i = 1
        <3>1. 1 \in DOMAIN tail
            BY <1>3
        <3> QED BY <1>4, <3>1
    <2> QED BY <2>1
<1>6. tail # <<>> => Tail(tail) = <<>>
    <2>1. SUFFICES ASSUME tail # <<>> PROVE Tail(tail) = <<>>
        OBVIOUS
    <2>2. Len(tail) <= 1
        <3>1. CASE Len(tail) > 1
            <4>1. 2 \in DOMAIN tail
                BY <1>3, <3>1
            <4> QED BY <1>5, <4>1
        <3> QED BY <1>3, <3>1
    <2>3. \E S : tail \in Seq(S)
        BY DEF Shape, TypeOK, StoreTypes
    <2> QED BY <1>3, <2>1, <2>2, <2>3
<1> QED
    BY <1>1, <1>2, <1>5, <1>6

\* The store answers the restoration.
LEMMA RestoreRecorded ==
    ASSUME Shape, Asking, TurnRecords, Store, up = "restoring"
    PROVE  TurnRecords'
<1>1. /\ UNCHANGED <<turns, pc, active, up, todo>> /\ tail' = Tail(tail) /\ Head(tail) = tail[1] /\ 1 \in DOMAIN tail
      /\ tail # <<>> /\ turns \in Nat
    BY StoreWrites DEF turnVars, Shape, TypeOK, EngineTypes
<1>2. /\ pc = "none" /\ active = None /\ DOMAIN tail = {1} /\ tail[1].who = "init" /\ reply["init"] = "wait" /\ tail' = <<>>
    BY <1>1, RestoringAlone
<1>3. PICK r \in Records, x \in {"ok", "err"} :
        /\ tail[1].rec = r /\ Asks("init", r) /\ reply' = [reply EXCEPT !["init"] = x]
        /\ journal' = journal \/ journal' = Append(journal, r)
        /\ x = "ok" => journal' = Append(journal, r)
    <2>1. "init" # "close"
        OBVIOUS
    <2> QED BY <1>1, <1>2, <2>1, StoreWrites
<1>4. r.type \in {"steering_abandoned", "turn_interrupted"} /\ reply'["init"] = x
    BY <1>3 DEF Asks, Shape, TypeOK, StoreTypes, Activities
<1>5. Left' = Left /\ LeftTurns' = LeftTurns /\ Sent' = {} /\ SentTurns' = {}
    BY <1>1, <1>2 DEF Left, LeftTurns, Sent, SentTurns
<1>6. SentTurns = IF r.type = "turn_interrupted" THEN {r.turn} ELSE {}
    BY <1>2, <1>3 DEF Sent, SentTurns
<1>7. /\ LeftTurns \cap SentTurns = {} /\ LeftTurns \cup SentTurns \subseteq ActiveTurns
      /\ ActiveTurns \subseteq LeftTurns \cup SentTurns
      /\ \A i, j \in Left : todo[i].turn = todo[j].turn => i = j
    BY <1>2 DEF TurnRecords, Interrupts
<1>8. TurnsOf("turn_accepted") \cup Terminal \subseteq 1 .. turns /\ Once
    BY DEF TurnRecords, Recorded
<1>9. CASE journal' = journal
    <2>1. x = "err"
        <3>1. journal \in Seq(Records)
            BY DEF Shape, TypeOK, JournalTypes
        <3>2. Len(Append(journal, r)) = Len(journal) + 1 /\ Len(journal) \in Nat
            BY <3>1
        <3> QED BY <1>3, <1>9, <3>2
    <2>2. TurnsOf("turn_accepted")' = TurnsOf("turn_accepted") /\ Terminal' = Terminal /\ ActiveTurns' = ActiveTurns
        BY <1>9, JournalStays
    <2>3. Interrupts'
        BY <1>1, <1>4, <1>5, <1>7, <2>1, <2>2 DEF Interrupts
    <2>4. Once'
        BY <1>8, <1>9 DEF Once
    <2>5. Recorded'
        BY <1>1, <1>2, <1>8, <2>2, NoneAssumption DEF Recorded
    <2> QED BY <2>3, <2>4, <2>5 DEF TurnRecords
<1>10. CASE journal' = Append(journal, r)
    <2>1. /\ TurnsOf("turn_accepted")' = TurnsOf("turn_accepted")
          /\ TurnsOf("turn_outcome")' = TurnsOf("turn_outcome")
          /\ TurnsOf("turn_interrupted")' = TurnsOf("turn_interrupted") \cup SentTurns
        BY <1>4, <1>6, <1>10, TurnsGrow
    <2>2. Terminal' = Terminal \cup SentTurns /\ ActiveTurns' = ActiveTurns \ SentTurns
        BY <2>1 DEF Terminal, ActiveTurns, TerminalTurns
    <2>3. SentTurns \subseteq TurnsOf("turn_accepted") /\ SentTurns \cap Terminal = {}
        BY <1>7, ActiveTurnsIs
    <2>4. Once'
        <3>1. r.type # "turn_accepted" /\ (r.type \in TerminalTypes => r.turn \notin Terminal)
            BY <1>4, <1>6, <2>3 DEF TerminalTypes
        <3> QED BY <1>8, <1>10, <3>1, OnceGrows
    <2>5. Recorded'
        BY <1>1, <1>2, <1>8, <2>1, <2>2, <2>3, NoneAssumption DEF Recorded
    <2>6. Interrupts'
        BY <1>1, <1>5, <1>7, <2>2 DEF Interrupts
    <2> QED BY <2>4, <2>5, <2>6 DEF TurnRecords
<1> QED
    BY <1>3, <1>9, <1>10

\* #markInterrupted has one record to write for each turn that was cut off.
LEMMA InterruptedIs ==
    ASSUME Shape, Once
    PROVE  /\ Interrupted \in Seq(Records)
           /\ \A k \in DOMAIN Interrupted : Interrupted[k].turn \in ActiveTurns
           /\ \A t \in ActiveTurns : \E k \in DOMAIN Interrupted : Interrupted[k].turn = t
           /\ \A k, l \in DOMAIN Interrupted : Interrupted[k].turn = Interrupted[l].turn => k = l
<1> DEFINE I == {i \in TypesOf("turn_accepted") : journal[i].turn \in ActiveTurns}
<1>1. journal \in Seq(Records) /\ I \subseteq DOMAIN journal
    BY DEF Shape, TypeOK, JournalTypes, TypesOf
<1>2. \A i \in I : journal[i].type = "turn_accepted" /\ journal[i].turn \in ActiveTurns
    BY DEF TypesOf
<1>3. \A t \in ActiveTurns : \E i \in I : journal[i].turn = t
    BY TurnsOfIs DEF ActiveTurns, TypesOf
<1>4. Interrupted = Selected(journal, I)
    BY DEF Interrupted
<1> HIDE DEF I
<1>5. Interrupted \in Seq(Records) /\ Picks(Interrupted, journal, I)
    <2> DEFINE q == Selected(journal, I)
    <2>1. q \in Seq(Records) /\ Picks(q, journal, I)
        BY <1>1, SelectedIs
    <2>2. q = Interrupted
        BY <1>4
    <2> HIDE DEF q
    <2> QED BY <2>1, <2>2
<1>6. PICK at \in [1 .. Cardinality(I) -> I] :
                /\ DOMAIN Interrupted = 1 .. Cardinality(I)
                /\ \A k \in 1 .. Cardinality(I) : Interrupted[k] = journal[at[k]]
                /\ \A i, j \in 1 .. Cardinality(I) : at[i] = at[j] => i = j
                /\ \A x \in I : \E k \in 1 .. Cardinality(I) : at[k] = x
    BY <1>5 DEF Picks
<1>7. \A k \in DOMAIN Interrupted : at[k] \in I /\ Interrupted[k] = journal[at[k]]
    BY <1>6
<1>8. ASSUME NEW k \in DOMAIN Interrupted, NEW l \in DOMAIN Interrupted, Interrupted[k].turn = Interrupted[l].turn
      PROVE  k = l
    <2>1. at[k] \in DOMAIN journal /\ at[l] \in DOMAIN journal
        BY <1>1, <1>7
    <2>2. at[k] = at[l]
        BY <1>2, <1>7, <1>8, <2>1 DEF Once
    <2> QED BY <1>6, <2>2
<1>9. ASSUME NEW t \in ActiveTurns PROVE \E k \in DOMAIN Interrupted : Interrupted[k].turn = t
    <2>1. PICK i \in I : journal[i].turn = t
        BY <1>3
    <2>2. PICK k \in 1 .. Cardinality(I) : at[k] = i
        BY <1>6
    <2> QED BY <1>6, <2>1, <2>2
<1> QED
    BY <1>2, <1>5, <1>7, <1>8, <1>9

\* A restoration begins with all of them to write.
LEMMA StartRecorded ==
    ASSUME Shape, Asking, TurnRecords, Start
    PROVE  TurnRecords'
<1>1. /\ up = "down" /\ up' = "restoring" /\ tail = <<>> /\ pc = "none" /\ active = None /\ turns \in Nat
      /\ UNCHANGED <<journal, turns, tail, reply, pc, active>>
    BY DEF Start, Shape, Placed, TypeOK, EngineTypes, store, turnVars
<1>2. Once /\ TurnsOf("turn_accepted") \cup Terminal \subseteq 1 .. turns
    BY DEF TurnRecords, Recorded
<1>3. TurnsOf("turn_accepted")' = TurnsOf("turn_accepted") /\ Terminal' = Terminal /\ ActiveTurns' = ActiveTurns
    BY <1>1, JournalStays
<1>4. Once' /\ Recorded'
    BY <1>1, <1>2, <1>3, NoneAssumption DEF Once, Recorded
<1> DEFINE A == Abandonments(Orphaned)
<1> DEFINE B == [i \in DOMAIN Interrupted |-> Rec("turn_interrupted", None, Interrupted[i].turn)]
<1>5. A \in Seq(Records) /\ B \in Seq(Records) /\ todo' = A \o B
    BY RestoredTyped DEF Start
<1>6. \A i \in DOMAIN A : A[i].type = "steering_abandoned"
    BY DEF Abandonments, Rec
<1>7. DOMAIN B = DOMAIN Interrupted /\ \A i \in DOMAIN B : B[i].type = "turn_interrupted" /\ B[i].turn = Interrupted[i].turn
    BY DEF Rec
<1> HIDE DEF A, B
<1>8. /\ Len(A) \in Nat /\ Len(B) \in Nat /\ DOMAIN B = 1 .. Len(B) /\ DOMAIN A = 1 .. Len(A)
      /\ DOMAIN todo' = 1 .. Len(A) + Len(B)
      /\ \A i \in 1 .. Len(A) : todo'[i] = A[i]
      /\ \A i \in DOMAIN todo' : i \notin 1 .. Len(A) => todo'[i] = B[i - Len(A)] /\ i - Len(A) \in DOMAIN B
      /\ \A k \in DOMAIN B : Len(A) + k \in DOMAIN todo' /\ Len(A) + k \notin 1 .. Len(A) /\ todo'[Len(A) + k] = B[k]
    BY <1>5
<1>9. \A i \in Left' : i \in DOMAIN todo' /\ i - Len(A) \in DOMAIN B /\ todo'[i] = B[i - Len(A)] /\ i \in Nat
    BY <1>6, <1>8 DEF Left
<1>10. \A k \in DOMAIN B : Len(A) + k \in Left' /\ todo'[Len(A) + k].turn = B[k].turn
    BY <1>7, <1>8 DEF Left
<1>11. ASSUME NEW i \in Left', NEW j \in Left', todo'[i].turn = todo'[j].turn PROVE i = j
    <2>1. i - Len(A) = j - Len(A)
        BY <1>2, <1>7, <1>9, <1>11, InterruptedIs
    <2> QED BY <1>8, <1>9, <2>1
<1>12. LeftTurns' = ActiveTurns
    <2>1. \A i \in Left' : todo'[i].turn \in ActiveTurns
        BY <1>2, <1>7, <1>9, InterruptedIs
    <2>2. ASSUME NEW t \in ActiveTurns PROVE \E i \in Left' : todo'[i].turn = t
        <3>1. PICK k \in DOMAIN B : B[k].turn = t
            BY <1>2, <1>7, InterruptedIs
        <3> QED BY <1>10, <3>1
    <2> QED BY <2>1, <2>2 DEF LeftTurns
<1>13. SentTurns' = {}
    BY <1>1 DEF Sent, SentTurns
<1> QED
    BY <1>3, <1>4, <1>11, <1>12, <1>13 DEF TurnRecords, Interrupts

\* It writes them one by one.
LEMMA RestoreNextRecorded ==
    ASSUME Shape, Asking, TurnRecords, RestoreNext
    PROVE  TurnRecords'
<1>1. /\ up = "restoring" /\ todo # <<>> /\ reply["init"] \in {"none", "ok"} /\ turns \in Nat
      /\ tail' = Append(tail, [who |-> "init", rec |-> Head(todo)]) /\ todo' = Tail(todo)
      /\ UNCHANGED <<journal, turns, up, pc, active>>
    BY DEF RestoreNext, Call, durable, turnVars, Shape, TypeOK, EngineTypes
<1>2. pc = "none" /\ active = None /\ tail = <<>>
    <2>1. DOMAIN tail = {}
        BY <1>1, RestoringAlone
    <2>2. \E S : tail \in Seq(S)
        BY DEF Shape, TypeOK, StoreTypes
    <2> QED BY <1>1, <2>1, <2>2, RestoringAlone
<1>3. /\ TurnsOf("turn_accepted")' = TurnsOf("turn_accepted") /\ Terminal' = Terminal /\ ActiveTurns' = ActiveTurns
      /\ Once /\ TurnsOf("turn_accepted") \cup Terminal \subseteq 1 .. turns
    BY <1>1, JournalStays DEF TurnRecords, Recorded
<1>4. Once' /\ Recorded'
    BY <1>1, <1>2, <1>3, NoneAssumption DEF Once, Recorded
<1>5. /\ \A i, j \in Left : todo[i].turn = todo[j].turn => i = j
      /\ LeftTurns \subseteq ActiveTurns /\ ActiveTurns \subseteq LeftTurns /\ SentTurns = {}
    BY <1>1, <1>2 DEF TurnRecords, Interrupts, Sent, SentTurns
<1>6. /\ todo \in Seq(Records) /\ Len(todo) \in Nat /\ DOMAIN todo = 1 .. Len(todo) /\ 1 \in DOMAIN todo /\ Head(todo) = todo[1]
      /\ DOMAIN todo' = 1 .. Len(todo) - 1
      /\ \A i \in DOMAIN todo' : todo'[i] = todo[i + 1] /\ i + 1 \in DOMAIN todo /\ i + 1 # 1 /\ i \in Nat
      /\ \A i \in DOMAIN todo : i # 1 => i - 1 \in DOMAIN todo' /\ todo'[i - 1] = todo[i]
    BY <1>1 DEF Shape, TypeOK, JournalTypes
<1>7. PICK r : r = Head(todo)
    OBVIOUS
<1>8. DOMAIN tail' = {1} /\ tail'[1].rec = r
    BY <1>1, <1>2, <1>7
<1>9. SentTurns' = IF r.type = "turn_interrupted" THEN {r.turn} ELSE {}
    BY <1>8 DEF Sent, SentTurns
<1>10. \A i \in Left' : i + 1 \in Left /\ i + 1 # 1 /\ todo'[i].turn = todo[i + 1].turn /\ i \in Nat
    BY <1>6 DEF Left
<1>11. \A i, j \in Left' : todo'[i].turn = todo'[j].turn => i = j
    <2>1. ASSUME NEW i \in Left', NEW j \in Left', todo'[i].turn = todo'[j].turn PROVE i = j
        <3>1. i + 1 = j + 1
            BY <1>5, <1>10, <2>1
        <3> QED BY <1>10, <3>1
    <2> QED BY <2>1
<1>12. r.type = "turn_interrupted" => 1 \in Left /\ todo[1].turn = r.turn
    BY <1>6, <1>7 DEF Left
<1>13. LeftTurns' \subseteq LeftTurns /\ LeftTurns' \cap SentTurns' = {}
    <2>1. ASSUME NEW t \in LeftTurns' PROVE t \in LeftTurns /\ t \notin SentTurns'
        <3>1. PICK i \in Left' : t = todo'[i].turn
            BY <2>1 DEF LeftTurns
        <3> QED BY <1>5, <1>9, <1>10, <1>12, <3>1 DEF LeftTurns
    <2> QED BY <2>1
<1>14. SentTurns' \subseteq LeftTurns /\ LeftTurns \subseteq LeftTurns' \cup SentTurns'
    <2>1. SentTurns' \subseteq LeftTurns
        BY <1>9, <1>12 DEF LeftTurns
    <2>2. ASSUME NEW i \in Left PROVE todo[i].turn \in LeftTurns' \cup SentTurns'
        <3>1. CASE i = 1
            BY <1>6, <1>7, <1>9, <2>2, <3>1 DEF Left
        <3>2. CASE i # 1
            <4>1. i - 1 \in Left' /\ todo'[i - 1].turn = todo[i].turn
                BY <1>6, <2>2, <3>2 DEF Left
            <4> QED BY <4>1 DEF LeftTurns
        <3> QED BY <3>1, <3>2
    <2> QED BY <2>1, <2>2 DEF LeftTurns
<1>15. Interrupts'
    BY <1>3, <1>5, <1>11, <1>13, <1>14 DEF Interrupts
<1> QED
    BY <1>4, <1>15 DEF TurnRecords

\* Every step keeps the records of turns in order.
LEMMA NextTurnRecords ==
    ASSUME Shape, Asking, TurnRecords, [Next]_vars
    PROVE  TurnRecords'
<1>1. Shape' /\ Asking'
    BY NextShape, NextAsking
<1>2. ASSUME up' # "restoring" PROVE Interrupts'
    BY <1>1, <1>2, InterruptsWhenUpNext
<1>3. Once /\ Recorded /\ Interrupts
    BY DEF TurnRecords
<1>4. ASSUME UNCHANGED journal PROVE Once'
    BY <1>3, <1>4 DEF Once
<1>5. CASE Store
    <2>1. up' = up /\ (up = "up" \/ up = "restoring")
        BY <1>5, StoreWrites DEF Shape, Placed, TypeOK, EngineTypes
    <2> QED BY <1>2, <1>5, <2>1, WriteRecorded, RestoreRecorded DEF TurnRecords
<1>6. CASE Start \/ RestoreNext
    BY <1>6, StartRecorded, RestoreNextRecorded
<1>7. CASE Submit \/ Moving \/ ConsumeNext \/ ConsumeWritten \/ FinalizeOnce
           \/ CommitWritten \/ DropNext \/ DropWritten \/ DropDone \/ Settle
    <2>1. Recorded'
        BY <1>3, <1>7, SubmitRecorded, UpRecorded, CommitRecorded
    <2>2. UNCHANGED journal /\ up' = up
        BY <1>7, MovingIsMove DEF TurnMove, Submit, ConsumeNext, ConsumeWritten, FinalizeOnce, CommitWritten,
                    DropNext, DropWritten, DropDone, Settle, durable
    <2>3. up = "up"
        <3>1. Moving => pc # "none"
            BY MovingIsMove DEF TurnMove, Open
        <3> QED BY <1>7, <3>1, ActiveTyped DEF Submit, ConsumeNext, ConsumeWritten, FinalizeOnce, CommitWritten,
                    DropNext, DropWritten, DropDone, Settle
    <2> QED BY <1>2, <1>4, <2>1, <2>2, <2>3 DEF TurnRecords
<1>8. CASE \/ \E s \in Steers : SteerCall(s) \/ SteerWritten(s) \/ SteerAbandoned(s)
           \/ Cancel \/ Shutdown \/ ShutdownJoin \/ ShutdownClose
           \/ \E t \in Turns : ToolsClosed(t)
    <2>1. Recorded'
        BY <1>3, <1>8, CommandRecorded
    <2>2. UNCHANGED journal /\ up' = up /\ up = "up"
        BY <1>8 DEF SteerCall, SteerWritten, SteerAbandoned, Cancel, Shutdown, ShutdownJoin, ShutdownClose, ToolsClosed,
                    Shape, Placed, Commanded, durable
    <2> QED BY <1>2, <1>4, <2>1, <2>2 DEF TurnRecords
<1>9. CASE UNCHANGED vars
    <2>1. /\ TurnsOf("turn_accepted")' = TurnsOf("turn_accepted")
          /\ Terminal' = Terminal /\ ActiveTurns' = ActiveTurns /\ UNCHANGED journal
        BY <1>9, JournalStays DEF vars, durable
    <2>2. Recorded' /\ Interrupts'
        BY <1>3, <1>9, <2>1 DEF Recorded, Committed, Interrupts, Left, LeftTurns, Sent, SentTurns, vars, durable, store, turnVars
    <2> QED BY <1>4, <2>1, <2>2 DEF TurnRecords
<1>10. CASE Exit
    <2>1. UNCHANGED <<journal, turns>> /\ up' = "down" /\ pc' = "none" /\ active' = None /\ turns \in Nat
        BY <1>10 DEF Exit, Fresh, durable, Shape, TypeOK, EngineTypes
    <2>2. TurnsOf("turn_accepted")' = TurnsOf("turn_accepted") /\ Terminal' = Terminal
        BY <2>1, JournalStays
    <2>3. Recorded'
        BY <1>3, <2>1, <2>2, NoneAssumption DEF Recorded
    <2> QED BY <1>2, <1>4, <2>1, <2>3 DEF TurnRecords
<1>11. CASE Ready
    <2>1. /\ up = "restoring" /\ up' = "up" /\ todo = <<>> /\ reply["init"] \in {"none", "ok"}
          /\ UNCHANGED <<journal, turns, reply, pc, active>>
        BY <1>11 DEF Ready, durable, store, turnVars
    <2>2. ActiveTurns = {}
        <3>1. LeftTurns = {}
            BY <2>1 DEF Left, LeftTurns
        <3>2. SentTurns = {}
            <4>1. DOMAIN tail = {}
                BY <2>1, RestoringAlone
            <4> QED BY <4>1 DEF Sent, SentTurns
        <3> QED BY <1>3, <2>1, <3>1, <3>2 DEF Interrupts
    <2>3. pc = "none" /\ Committed'
        BY <2>1, RestoringAlone DEF Committed
    <2>4. Recorded'
        BY <1>3, <2>1, <2>2, <2>3, RecordedKept
    <2> QED BY <1>2, <1>4, <2>1, <2>4 DEF TurnRecords
<1> QED
    BY <1>5, <1>6, <1>7, <1>8, <1>9, <1>10, <1>11, NextIsSteps DEF Steps

\* Nothing is on record at first.
LEMMA InitTurnRecords == Init => TurnRecords
<1> SUFFICES ASSUME Init PROVE TurnRecords
    OBVIOUS
<1>1. /\ TurnsOf("turn_accepted") = {} /\ Terminal = {} /\ ActiveTurns = {} /\ LeftTurns = {} /\ SentTurns = {} /\ Left = {}
    BY DEF Init, TurnsOf, TypesOf, Terminal, ActiveTurns, TerminalTurns, Left, LeftTurns, Sent, SentTurns
<1>2. Once
    BY DEF Init, Once
<1>3. Recorded /\ Interrupts
    BY <1>1 DEF Init, Recorded, Interrupts
<1> QED
    BY <1>2, <1>3 DEF TurnRecords

----------------------------------------------------------------------------
(* Shutdown. *)

\* Steps that write nothing and are no step of the shutdown.
LEMMA StoppingKept ==
    ASSUME Shape, Stopping, UNCHANGED <<journal, failed, closed, stop, awaited>>, turns' \in Nat, turns <= turns',
           \A w \in Activities : reply'[w] = "err" => reply[w] = "err",
           pc' = "wedged" => pc = "wedged" \/ failed \/ closed,
           awaited # None /\ active' = awaited => active = awaited /\ (pc = "none" => pc' = "none")
    PROVE  Stopping'
<1>1. ActiveTurns' = ActiveTurns
    BY JournalStays
<1>2. awaited # None => awaited <= turns'
    BY DEF Stopping, Shape, TypeOK, EngineTypes, Turns
<1> QED
    BY <1>1, <1>2 DEF Stopping

\* A call is no answer.
LEMMA CallNoAnswer ==
    ASSUME Shape, NEW v, reply' = reply \/ reply' = [reply EXCEPT ![v] = "wait"]
    PROVE  \A w \in Activities : reply'[w] = "err" => reply[w] = "err"
BY DEF Shape, TypeOK, StoreTypes

\* The store may fail: the latch stays.  A turn that was waited for is not
\* accepted again.
LEMMA StoreStopping ==
    ASSUME Shape, Asking, Stopping, Store
    PROVE  Stopping'
<1>1. UNCHANGED <<turns, stop, awaited, pc, active>>
    BY StoreWrites DEF turnVars
<1>2. CASE UNCHANGED <<journal, reply, failed>> /\ closed'
    BY <1>1, <1>2, JournalStays DEF Stopping
<1>3. ASSUME NEW w \in Activities, NEW r \in Records, NEW x \in {"ok", "err"},
             Asks(w, r), reply' = [reply EXCEPT ![w] = x], closed' = closed,
             journal' = journal \/ journal' = Append(journal, r), x = "err" => failed' \/ closed, failed => failed'
      PROVE  Stopping'
    <2>1. \A v \in Activities : reply'[v] = "err" => failed' \/ closed'
        BY <1>3 DEF Stopping, Shape, TypeOK, StoreTypes
    <2>2. ASSUME NEW t, t \in ActiveTurns', t \notin ActiveTurns PROVE pc = "accept" /\ active = t
        <3>1. journal' = Append(journal, r)
            BY <1>3, <2>2, JournalStays
        <3>2. r.type = "turn_accepted" /\ r.turn = t
            BY <2>2, <3>1, TurnsGrow DEF ActiveTurns, TerminalTurns
        <3> QED BY <1>3, <3>2 DEF Asks, TurnAsks, Rec, Activities
    <2>3. ASSUME stop \in {"close", "closed"}, awaited # None, ~failed
          PROVE  awaited \notin ActiveTurns'
        BY <2>2, <2>3 DEF Stopping
    <2> QED BY <1>1, <1>3, <2>1, <2>3 DEF Stopping
<1> QED
    BY <1>2, <1>3, StoreWrites

\* performEngineShutdown: the turn it waited for is over, and has its outcome
\* unless the store has failed.
LEMMA JoinStopping ==
    ASSUME Shape, Asking, TurnRecords, Stopping, Shutdown \/ ShutdownJoin \/ ShutdownClose
    PROVE  Stopping'
<1>1. UNCHANGED <<journal, turns, reply, failed, closed, pc, active>> /\ ActiveTurns' = ActiveTurns /\ up = "up"
    BY JournalStays DEF Shutdown, ShutdownJoin, ShutdownClose, durable, store, turnVars, Shape, Placed
<1>2. CASE Shutdown
    <2>1. stop = "no" /\ awaited = None
        BY <1>2 DEF Shutdown, Stopping
    <2>2. CASE stop' = "close" /\ UNCHANGED awaited
        BY <1>1, <2>1, <2>2 DEF Stopping
    <2>3. CASE stop' = "join" /\ awaited' = active /\ active # None
        BY <1>1, <2>3 DEF Stopping, Shape, Placed
    <2> QED BY <1>2, <2>2, <2>3 DEF Shutdown
<1>3. CASE ShutdownJoin
    <2>1. stop = "join" /\ stop' = "close" /\ UNCHANGED awaited /\ (active = awaited => pc \in {"none", "wedged"})
        BY <1>3 DEF ShutdownJoin, Over
    <2>2. closed => FALSE
        BY <2>1 DEF Asking, Waits
    <2>3. ASSUME ~failed PROVE awaited \notin ActiveTurns /\ (active = awaited => pc = "none")
        <3>1. active = awaited => pc = "none"
            BY <2>1, <2>2, <2>3 DEF Stopping
        <3>2. ActiveTurns \subseteq IF Committed THEN {} ELSE {active}
            BY <1>1 DEF TurnRecords, Recorded
        <3> QED BY <3>1, <3>2 DEF Committed
    <2> QED BY <1>1, <2>1, <2>3 DEF Stopping
<1>4. CASE ShutdownClose
    <2>1. stop = "close" /\ stop' = "closed" /\ UNCHANGED awaited
        BY <1>4 DEF ShutdownClose
    <2> QED BY <1>1, <2>1 DEF Stopping
<1> QED
    BY <1>2, <1>3, <1>4

\* Every step keeps what shutdown relies on.
LEMMA NextStopping ==
    ASSUME Shape, Asking, TurnRecords, Stopping, [Next]_vars
    PROVE  Stopping'
<1>0. turns \in Nat /\ turns + 1 \in Nat /\ turns <= turns + 1 /\ turns <= turns
      /\ (awaited # None => awaited <= turns /\ awaited \in Nat)
    BY DEF Shape, TypeOK, EngineTypes, Turns, Stopping
<1>1. CASE Store
    BY <1>1, StoreStopping
<1>2. CASE Shutdown \/ ShutdownJoin \/ ShutdownClose
    BY <1>2, JoinStopping
<1>3. CASE Submit
    <2>1. /\ UNCHANGED <<journal, failed, closed, stop, awaited>> /\ turns' = turns + 1 /\ active' = turns + 1 /\ pc' = "accept"
          /\ reply' = [reply EXCEPT !["turn"] = "wait"]
        BY <1>3 DEF Submit, Call
    <2>2. ~(awaited # None /\ active' = awaited)
        BY <1>0, <2>1
    <2> QED BY <1>0, <2>1, <2>2, CallNoAnswer, StoppingKept
<1>4. CASE Exit
    <2>1. awaited' = None /\ pc' = "none" /\ \A w \in Activities : reply'[w] = "none"
        BY <1>4 DEF Exit, Fresh
    <2> QED BY <2>1 DEF Stopping
<1>5. CASE Start \/ RestoreNext \/ Ready \/ UNCHANGED vars
    <2>1. UNCHANGED <<journal, turns, failed, closed, stop, awaited, pc, active>>
        BY <1>5 DEF Start, RestoreNext, Ready, vars, durable, store, turnVars
    <2>2. reply' = reply \/ reply' = [reply EXCEPT !["init"] = "wait"]
        BY <1>5 DEF Start, RestoreNext, Ready, Call, vars, store
    <2> QED BY <1>0, <2>1, <2>2, CallNoAnswer, StoppingKept
<1>6. CASE Moving \/ ConsumeNext \/ ConsumeWritten \/ FinalizeOnce \/ CommitWritten \/ DropNext \/ DropWritten \/ DropDone \/ Settle
    <2>1. UNCHANGED <<journal, turns, failed, closed, stop, awaited, active>>
        BY <1>6, MovingIsMove DEF TurnMove, ConsumeNext, ConsumeWritten, FinalizeOnce, CommitWritten,
                    DropNext, DropWritten, DropDone, Settle, durable, store
    <2>2. reply' = reply \/ reply' = [reply EXCEPT !["turn"] = "wait"]
        BY <1>6, MovingIsMove DEF TurnMove, ConsumeNext, ConsumeWritten, FinalizeOnce, CommitWritten,
                    DropNext, DropWritten, DropDone, Settle, Call, store
    <2>3. pc # "none"
        BY <1>6, MovingIsMove DEF TurnMove, Open, ConsumeNext, ConsumeWritten, FinalizeOnce, CommitWritten,
                    DropNext, DropWritten, DropDone, Settle
    <2>4. pc' = "wedged" => failed \/ closed
        <3>1. Moving \/ ConsumeWritten => pc' # "wedged"
            BY MovingIsMove, ConsumeWrittenIs DEF TurnMove, Open
        <3>2. ASSUME CommitWritten, pc' = "wedged" PROVE reply["turn"] = "err"
            BY <3>2 DEF CommitWritten, Got
        <3>3. "turn" \in Activities
            BY DEF Activities
        <3> QED BY <1>6, <3>1, <3>2, <3>3 DEF Stopping, ConsumeNext, FinalizeOnce, DropNext, DropWritten, DropDone, Settle
    <2> QED BY <1>0, <2>1, <2>2, <2>3, <2>4, CallNoAnswer, StoppingKept
<1>7. CASE Cancel \/ \E t \in Turns : ToolsClosed(t)
    <2>1. UNCHANGED <<journal, turns, reply, failed, closed, stop, awaited, pc>> /\ active' \in {active, None}
        BY <1>7 DEF Cancel, ToolsClosed, durable, store
    <2> QED BY <1>0, <2>1, StoppingKept
<1>8. ASSUME NEW s \in Steers, SteerCall(s) \/ SteerWritten(s) \/ SteerAbandoned(s)
      PROVE  Stopping'
    <2>1. UNCHANGED <<journal, turns, failed, closed, stop, awaited, pc, active>>
        BY <1>8 DEF SteerCall, SteerWritten, SteerAbandoned, durable, store, turnVars
    <2>2. reply' = reply \/ reply' = [reply EXCEPT ![s] = "wait"]
        BY <1>8 DEF SteerCall, SteerWritten, SteerAbandoned, Call, store
    <2> QED BY <1>0, <2>1, <2>2, CallNoAnswer, StoppingKept
<1> QED
    BY <1>1, <1>2, <1>3, <1>4, <1>5, <1>6, <1>7, <1>8, NextIsSteps DEF Steps

----------------------------------------------------------------------------
(* The theorems. *)

\* The whole of the invariant.
TurnInv == Shape /\ Asking /\ TurnRecords /\ Checkpoint /\ Stopping

\* The layers together are inductive.
LEMMA InvHolds == Spec => []TurnInv
<1>1. Init => TurnInv
    <2>1. Init => Checkpoint
        BY DEF Init, Checkpoint
    <2>2. Init => Stopping
        BY DEF Init, Stopping
    <2> QED BY <2>1, <2>2, InitShape, InitAsking, InitTurnRecords DEF TurnInv
<1>2. TurnInv /\ [Next]_vars => TurnInv'
    BY NextShape, NextAsking, NextTurnRecords, NextCheckpoint, NextStopping DEF TurnInv
<1> QED
    BY <1>1, <1>2, PTL DEF Spec

\* The engine's variables keep their types: no model step is begun beyond the
\* limit, and each record carries what restoreSessionRecords expects of its kind.
THEOREM SessionTypeCorrect == Spec => []TypeOK
<1>1. TurnInv => TypeOK
    BY DEF TurnInv, Shape
<1> QED
    BY <1>1, InvHolds, PTL

\* An admission that awaitSteeringAdmissions found under way has settled when the
\* turn completes.
THEOREM CheckpointIsHonoured == Spec => []CheckpointHonoured
<1>1. TurnInv => CheckpointHonoured
    BY DEF TurnInv, Checkpoint, CheckpointHonoured
<1> QED
    BY <1>1, InvHolds, PTL

\* finalizeOnce and #markInterrupted between them write one terminal record for a
\* turn, whatever crashes and failed writes come between.
THEOREM TurnEndsOnce == Spec => []TerminalOnce
<1>1. TurnInv => TerminalOnce
    <2>1. SUFFICES ASSUME Once, NEW t \in Turns
                   PROVE  Cardinality({i \in DOMAIN journal : journal[i].turn = t
                            /\ journal[i].type \in {"turn_outcome", "turn_interrupted"}}) <= 1
        BY DEF TurnInv, TurnRecords, TerminalOnce
    <2> DEFINE S == {i \in DOMAIN journal : journal[i].turn = t
                       /\ journal[i].type \in {"turn_outcome", "turn_interrupted"}}
    <2>2. \A i, j \in S : i = j
        BY <2>1 DEF Once, TerminalTypes
    <2> HIDE DEF S
    <2>3. Cardinality(S) <= 1
        BY <2>2, AtMostOne
    <2> QED BY <2>3 DEF S
<1> QED
    BY <1>1, InvHolds, PTL

\* An engine that offers itself for a turn has left none behind without a durable
\* terminal record: finalizeOnce returns to idle after the commit only, and
\* initializeEngine after the interrupted turns are on record.
THEOREM IdleMeansCommitted == Spec => []IdleIsCommitted
<1>1. TurnInv => IdleIsCommitted
    <2>1. SUFFICES ASSUME Shape, Recorded, up = "up", state = "idle" PROVE ActiveTurns = {}
        BY DEF TurnInv, TurnRecords, IdleIsCommitted
    <2>2. pc = "none"
        BY <2>1 DEF Shape, Placed
    <2> QED BY <2>1, <2>2 DEF Recorded, Committed
<1> QED
    BY <1>1, InvHolds, PTL

\* performEngineShutdown closes a store that can still write only after the turn
\* it cancelled has its terminal record.
THEOREM ShutdownHasCommitted == Spec => []ShutdownCommits
<1>1. TurnInv => ShutdownCommits
    <2>1. SUFFICES ASSUME Asking, Stopping, closed, ~failed, awaited # None PROVE awaited \notin ActiveTurns
        BY DEF TurnInv, ShutdownCommits
    <2>2. stop = "closed"
        BY <2>1 DEF Asking, Waits
    <2> QED BY <2>1, <2>2 DEF Stopping
<1> QED
    BY <1>1, InvHolds, PTL
=============================================================================
