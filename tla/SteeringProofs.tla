---------------------------- MODULE SteeringProofs ----------------------------
(***************************************************************************)
(* Proofs about the operator's directions in SessionTurn: what becomes of  *)
(* them in the queue, in the journal and over a restart.  The layers of    *)
(* SessionTurnProofs come first.                                           *)
(*                                                                         *)
(* After a failed write the store refuses everything until the process     *)
(* ends, so what is still in memory then no longer matters: Writable.      *)
(***************************************************************************)
EXTENDS SessionTurnProofs

Writable == ~failed /\ ~closed
DisposalTypes == {"steering_consumed", "steering_abandoned"}
Disposed == IdsOf("steering_consumed") \cup IdsOf("steering_abandoned")

\* What a command is that has had its answer or lost its process, and was
\* perhaps admitted.
Held == {"accepted", "error", "lost"}

\* The commands and what the journal says of them.
Admitted ==
    /\ \A i, j \in TypesOf("steering_accepted") : journal[i].id = journal[j].id => i = j
    /\ \A i \in TypesOf("steering_accepted") :
         cmd[journal[i].id].turn = journal[i].turn /\ cmd[journal[i].id].st # "new"
    /\ \A s \in Steers :
         /\ cmd[s].st = "accepting" /\ reply[s] = "wait" => s \notin IdsOf("steering_accepted")
         /\ \/ cmd[s].st \in {"new", "accepting"}
            \/ cmd[s].st = "abandoning" /\ reply[s] = "wait"
            => s \notin Disposed
         /\ \/ cmd[s].st = "refused" /\ cmd[s].turn # None
            \/ cmd[s].st = "abandoning" /\ reply[s] = "ok"
            => s \in Disposed

\* What is queued, or left to abandon, belongs to such a command.
Queued ==
    /\ \A i \in DOMAIN steering : /\ cmd[steering[i].id].st \in Held
                                  /\ cmd[steering[i].id].turn = steering[i].turn
    /\ \A i \in DOMAIN todo : todo[i].type = "steering_abandoned" => cmd[todo[i].id].st \in Held
    /\ \A i \in DOMAIN tail : tail[i].rec.type \in DisposalTypes /\ tail[i].who \notin Steers
                                => cmd[tail[i].rec.id].st \in Held
    /\ pc = "consuming" /\ reply["turn"] = "ok" => Head(steering).id \in IdsOf("steering_consumed")

\* The directions that something is about to dispose of.
TodoIds == {todo[i].id : i \in {i \in DOMAIN todo : todo[i].type = "steering_abandoned"}}
TailIds == {tail[i].rec.id : i \in {i \in DOMAIN tail : tail[i].rec.type \in DisposalTypes}}

\* No direction is disposed of twice, and none is about to be.
Disposing ==
    /\ \A i, j \in DOMAIN journal :
         /\ journal[i].type \in DisposalTypes /\ journal[j].type \in DisposalTypes
         /\ journal[i].id = journal[j].id
         => i = j
    /\ Writable =>
         /\ \A i, j \in DOMAIN todo :
              /\ todo[i].type = "steering_abandoned" /\ todo[j].type = "steering_abandoned"
              /\ todo[i].id = todo[j].id
              => i = j
         /\ TodoIds \cap TailIds = {} /\ (TodoIds \cup TailIds) \cap Disposed = {}
         /\ \A i, j \in DOMAIN steering : steering[i].id = steering[j].id => i = j
         /\ \A i \in DOMAIN steering :
              steering[i].id \in Disposed \cup TailIds \cup TodoIds
              => \/ pc = "consuming" /\ i = 1
                 \/ pc \in {"drop", "dropping"} /\ steering[i].turn = active

\* The turns whose directions are queued.
Crossing ==
    /\ up = "up" /\ Writable => \A i \in DOMAIN steering :
         \/ steering[i].turn \in TurnsOf("turn_interrupted")
         \/ steering[i].turn = active /\ pc \notin {"settle", "none"}
    /\ up = "restoring" => \A i \in DOMAIN steering :
         steering[i].turn \in ActiveTurns \cup TurnsOf("turn_interrupted")
    /\ \A j \in TypesOf("steering_consumed") :
         \/ journal[j].turn = cmd[journal[j].id].turn
         \/ cmd[journal[j].id].turn \in TurnsOf("turn_interrupted")

\* The directions that were accepted for the active turn.
Serving ==
    /\ active # None => \A s \in Steers :
         cmd[s].st = "accepted" /\ cmd[s].turn = active =>
           /\ ~finalized => (\E i \in DOMAIN steering : steering[i].id = s) \/ s \in IdsOf("steering_consumed")
           /\ pc \in {"finalize", "commit"} /\ outcome = "completed" => s \in IdsOf("steering_consumed")
    /\ DirectionServed

\* The directions of turn t that a restart would find.
Restorable(t) == {i \in TypesOf("steering_accepted") : journal[i].turn = t /\ journal[i].id \notin Disposed}

\* Where the active turn has no outcome on record yet.
Uncommitted == Open \cup {"finalize", "commit"}

\* A restart finds one turn to interrupt, with no more directions than the queue
\* has room for: while the turn runs, each is queued or on its way there.
Single == \A t, u \in ActiveTurns : t = u
Filled == Len(steering) <= MaxSteering /\ SteeringBounded
Placing ==
    Writable /\ pc \in Uncommitted => \A i \in Restorable(active) :
       \/ \E k \in DOMAIN steering : steering[k].id = journal[i].id
       \/ journal[i].id \in InFlight(active)
Few == \A t \in ActiveTurns : Cardinality(Restorable(t)) <= MaxSteering
Bounded == Single /\ Filled /\ Placing /\ Few


----------------------------------------------------------------------------
(* Helpers. *)

\* The directions a record of the given kind is about.
LEMMA IdsOfIs ==
    ASSUME NEW type, NEW s
    PROVE  s \in IdsOf(type) <=> \E i \in DOMAIN journal : journal[i].type = type /\ journal[i].id = s
BY DEF IdsOf, TypesOf

\* A record joins the journal: what it tells of directions.
LEMMA IdsGrow ==
    ASSUME Shape, NEW r, journal' = Append(journal, r)
    PROVE  /\ IdsOf("steering_accepted")' = IdsOf("steering_accepted") \cup (IF r.type = "steering_accepted" THEN {r.id} ELSE {})
           /\ IdsOf("steering_consumed")' = IdsOf("steering_consumed") \cup (IF r.type = "steering_consumed" THEN {r.id} ELSE {})
           /\ Disposed' = Disposed \cup (IF r.type \in DisposalTypes THEN {r.id} ELSE {})
<1>1. \A type : IdsOf(type)' = IdsOf(type) \cup (IF r.type = type THEN {r.id} ELSE {})
    BY JournalGrows
<1>2. IdsOf("steering_abandoned")' = IdsOf("steering_abandoned") \cup (IF r.type = "steering_abandoned" THEN {r.id} ELSE {})
    BY <1>1
<1>3. /\ IdsOf("steering_accepted")' = IdsOf("steering_accepted") \cup (IF r.type = "steering_accepted" THEN {r.id} ELSE {})
      /\ IdsOf("steering_consumed")' = IdsOf("steering_consumed") \cup (IF r.type = "steering_consumed" THEN {r.id} ELSE {})
    BY <1>1
<1> QED
    BY <1>2, <1>3 DEF Disposed, DisposalTypes

\* Nothing joins it.
LEMMA IdsStay ==
    ASSUME UNCHANGED journal
    PROVE  /\ IdsOf("steering_accepted")' = IdsOf("steering_accepted")
           /\ IdsOf("steering_consumed")' = IdsOf("steering_consumed")
           /\ Disposed' = Disposed
           /\ TypesOf("steering_accepted")' = TypesOf("steering_accepted")
           /\ TypesOf("steering_consumed")' = TypesOf("steering_consumed")
BY DEF IdsOf, TypesOf, Disposed

\* A queue of directions.
LEMMA QueueIs ==
    ASSUME Shape
    PROVE  /\ Len(steering) \in Nat /\ DOMAIN steering = 1 .. Len(steering)
           /\ \A i \in DOMAIN steering : steering[i].id \in Steers /\ steering[i].turn \in Turns
           /\ steering # <<>> => /\ Head(steering) = steering[1] /\ 1 \in DOMAIN steering
                                 /\ DOMAIN Tail(steering) = 1 .. Len(steering) - 1 /\ Len(Tail(steering)) = Len(steering) - 1
                                 /\ \A i \in DOMAIN Tail(steering) : Tail(steering)[i] = steering[i + 1] /\ i + 1 \in DOMAIN steering
                                                                     /\ i \in Nat
                                 /\ \A i \in DOMAIN steering : i # 1 => i - 1 \in DOMAIN Tail(steering)
<1> DEFINE E == [id : Steers, turn : Turns]
<1>0. \A e \in E : e.id \in Steers /\ e.turn \in Turns
    OBVIOUS
<1>1. steering \in Seq(E)
    BY DEF Shape, TypeOK, SteeringTypes
<1> HIDE DEF E
<1>2. Len(steering) \in Nat /\ DOMAIN steering = 1 .. Len(steering) /\ \A i \in DOMAIN steering : steering[i] \in E
    BY <1>1
<1>3. steering # <<>> => /\ Head(steering) = steering[1] /\ 1 \in DOMAIN steering
                         /\ DOMAIN Tail(steering) = 1 .. Len(steering) - 1 /\ Len(Tail(steering)) = Len(steering) - 1
                         /\ \A i \in DOMAIN Tail(steering) : Tail(steering)[i] = steering[i + 1] /\ i + 1 \in DOMAIN steering
                                                                     /\ i \in Nat
                         /\ \A i \in DOMAIN steering : i # 1 => i - 1 \in DOMAIN Tail(steering)
    BY <1>1, <1>2
<1> QED
    BY <1>0, <1>2, <1>3

\* One direction joins it.
LEMMA QueueGrows ==
    ASSUME Shape, NEW s, NEW t, steering' = Append(steering, Item(s, t))
    PROVE  /\ Len(steering') = Len(steering) + 1 /\ DOMAIN steering' = 1 .. Len(steering) + 1
           /\ \A i \in DOMAIN steering : steering'[i] = steering[i] /\ i \in DOMAIN steering'
           /\ steering'[Len(steering) + 1].id = s /\ steering'[Len(steering) + 1].turn = t
           /\ \A i \in DOMAIN steering' : i \in DOMAIN steering \/ i = Len(steering) + 1
           /\ Len(steering) + 1 \in DOMAIN steering'
<1>1. steering \in Seq([id : Steers, turn : Turns])
    BY DEF Shape, TypeOK, SteeringTypes
<1>2. PICK e : e = Item(s, t)
    OBVIOUS
<1>3. steering' = Append(steering, e) /\ e.id = s /\ e.turn = t
    BY <1>2 DEF Item
<1>4. /\ Len(steering') = Len(steering) + 1 /\ DOMAIN steering' = 1 .. Len(steering) + 1 /\ Len(steering) \in Nat
      /\ \A i \in 1 .. Len(steering) : steering'[i] = steering[i]
      /\ steering'[Len(steering) + 1] = e
    BY <1>1, <1>3
<1> QED
    BY <1>1, <1>3, <1>4

\* What is left to write.
LEMMA TodoIs ==
    ASSUME Shape
    PROVE  /\ Len(todo) \in Nat /\ DOMAIN todo = 1 .. Len(todo)
           /\ \A i \in DOMAIN todo : todo[i] \in Records
           /\ todo # <<>> => /\ Head(todo) = todo[1] /\ 1 \in DOMAIN todo
                             /\ DOMAIN Tail(todo) = 1 .. Len(todo) - 1
                             /\ \A i \in DOMAIN Tail(todo) : /\ Tail(todo)[i] = todo[i + 1] /\ i + 1 \in DOMAIN todo
                                                             /\ i + 1 # 1 /\ i \in Nat
<1>1. todo \in Seq(Records)
    BY DEF Shape, TypeOK, JournalTypes
<1>2. Len(todo) \in Nat /\ DOMAIN todo = 1 .. Len(todo) /\ \A i \in DOMAIN todo : todo[i] \in Records
    BY <1>1
<1>3. todo # <<>> => /\ Head(todo) = todo[1] /\ 1 \in DOMAIN todo
                     /\ DOMAIN Tail(todo) = 1 .. Len(todo) - 1
                     /\ \A i \in DOMAIN Tail(todo) : Tail(todo)[i] = todo[i + 1] /\ i + 1 \in DOMAIN todo /\ i \in Nat
    BY <1>1, <1>2
<1>4. \A i \in Nat : i # 0 => i + 1 # 1
    OBVIOUS
<1>5. ASSUME todo # <<>>, NEW i \in DOMAIN Tail(todo) PROVE i + 1 # 1
    BY <1>2, <1>3, <1>5
<1> QED
    BY <1>2, <1>3, <1>5

----------------------------------------------------------------------------
(* Commands, and what is queued of them. *)

\* A command that was answered stays as it is, and none changes its turn.
CommandsStay ==
    \A s \in Steers : /\ cmd[s].st \in Held => cmd'[s] = cmd[s]
                      /\ cmd[s].st # "new" => cmd'[s].turn = cmd[s].turn

\* Only steering commands and the end of the process change a command.
LEMMA CommandsMove ==
    ASSUME Shape, [Next]_vars
    PROVE  /\ CommandsStay
           /\ cmd' = cmd \/ Exit \/ \E s \in Steers : SteerCall(s) \/ SteerWritten(s) \/ SteerAbandoned(s)
<1>1. cmd' = cmd => CommandsStay
    BY DEF CommandsStay
<1>2. cmd \in [Steers -> Commands]
    BY DEF Shape, TypeOK, SteeringTypes
<1>3. ASSUME NEW s \in Steers, SteerCall(s) \/ SteerWritten(s) \/ SteerAbandoned(s) PROVE CommandsStay
    <2>1. cmd[s].st \notin Held
        BY <1>3 DEF SteerCall, SteerWritten, SteerAbandoned, Held
    <2>2. PICK c : cmd' = [cmd EXCEPT ![s] = c] /\ (cmd[s].st # "new" => c.turn = cmd[s].turn)
        <3>1. CASE SteerCall(s)
            BY <3>1 DEF SteerCall
        <3>2. CASE SteerWritten(s) \/ SteerAbandoned(s)
            <4>1. PICK x \in {"accepted", "abandoning", "error", "refused"} : cmd' = [cmd EXCEPT ![s].st = x]
                BY <3>2 DEF SteerWritten, SteerAbandoned
            <4>2. cmd' = [cmd EXCEPT ![s] = [st |-> x, turn |-> cmd[s].turn]]
                BY <4>1, CommandTyped
            <4>3. PICK c : c = [st |-> x, turn |-> cmd[s].turn]
                OBVIOUS
            <4>4. cmd' = [cmd EXCEPT ![s] = c] /\ c.turn = cmd[s].turn
                BY <4>2, <4>3
            <4> QED BY <4>4
        <3> QED BY <1>3, <3>1, <3>2
    <2> QED BY <1>2, <2>1, <2>2 DEF CommandsStay
<1>4. ASSUME Exit PROVE CommandsStay
    <2>1. \A s \in Steers : cmd'[s] = IF cmd[s].st \in {"accepting", "abandoning"} THEN [cmd[s] EXCEPT !.st = "lost"] ELSE cmd[s]
        BY <1>4 DEF Exit, Lost
    <2>2. \A s \in Steers : [cmd[s] EXCEPT !.st = "lost"].turn = cmd[s].turn
        BY <1>2 DEF Commands
    <2>3. ASSUME NEW s \in Steers PROVE (cmd[s].st \in Held => cmd'[s] = cmd[s]) /\ cmd'[s].turn = cmd[s].turn
        <3>1. CASE cmd[s].st \in {"accepting", "abandoning"}
            BY <2>1, <2>2, <3>1 DEF Held
        <3>2. CASE cmd[s].st \notin {"accepting", "abandoning"}
            BY <2>1, <3>2
        <3> QED BY <3>1, <3>2
    <2> QED BY <2>3 DEF CommandsStay
<1>5. \/ Exit \/ (\E s \in Steers : SteerCall(s) \/ SteerWritten(s) \/ SteerAbandoned(s))
      \/ cmd' = cmd
    <2>1. Store => UNCHANGED cmd
        BY DEF Store, WriteOk, WriteFault, WriteRefused, WriteClose
    <2>2. Moving \/ Submit \/ ConsumeNext \/ ConsumeWritten \/ FinalizeOnce => cmd' = cmd
        BY MovingIsMove DEF TurnMove, Submit, ConsumeNext, ConsumeWritten, FinalizeOnce
    <2>3. CommitWritten \/ DropNext \/ DropWritten \/ DropDone \/ Settle \/ (\E t \in Turns : ToolsClosed(t)) => cmd' = cmd
        BY DEF CommitWritten, DropNext, DropWritten, DropDone, Settle, ToolsClosed
    <2>4. Cancel \/ Shutdown \/ ShutdownJoin \/ ShutdownClose \/ Start \/ RestoreNext \/ Ready \/ UNCHANGED vars => cmd' = cmd
        BY DEF Cancel, Shutdown, ShutdownJoin, ShutdownClose, Start, RestoreNext, Ready, vars
    <2> QED BY <2>1, <2>2, <2>3, <2>4, NextIsSteps DEF Steps
<1> QED
    BY <1>1, <1>3, <1>4, <1>5

\* A disposal that waits to be written is of a direction.
LEMMA DisposalTyped ==
    ASSUME Shape
    PROVE  /\ \A i \in DOMAIN tail : tail[i].rec.type \in DisposalTypes => tail[i].who \in Activities /\ tail[i].rec.id \in Steers
           /\ \A i \in DOMAIN todo : todo[i].type = "steering_abandoned" => todo[i].id \in Steers
           /\ \A i \in DOMAIN journal : /\ journal[i].type \in DisposalTypes \cup {"steering_accepted"} => journal[i].id \in Steers
                                        /\ journal[i] \in Records
<1> DEFINE E == [who : Activities, rec : Records] \cup {[who |-> "close", rec |-> Rec("close", None, None)]}
<1>1. \A e \in E : e.rec.type \in DisposalTypes => e.who \in Activities /\ e.rec \in Records
    BY DEF Rec, DisposalTypes
<1>2. tail \in Seq(E)
    BY DEF Shape, TypeOK, StoreTypes
<1> HIDE DEF E
<1>3. \A i \in DOMAIN tail : tail[i] \in E
    BY <1>2
<1>4. journal \in Seq(Records) /\ todo \in Seq(Records)
    BY DEF Shape, TypeOK, JournalTypes
<1>5. \A r \in Records : r.type \in DisposalTypes \cup {"steering_accepted"} => r.id \in Steers
    BY RecordTyped DEF DisposalTypes
<1> HIDE DEF Records
<1>6. (\A i \in DOMAIN journal : journal[i] \in Records) /\ (\A i \in DOMAIN todo : todo[i] \in Records)
    BY <1>4
<1>7. \A i \in DOMAIN tail : tail[i].rec.type \in DisposalTypes => tail[i].who \in Activities /\ tail[i].rec.id \in Steers
    BY <1>1, <1>3, <1>5
<1>8. \A i \in DOMAIN todo : todo[i].type = "steering_abandoned" => todo[i].id \in Steers
    BY <1>5, <1>6 DEF DisposalTypes
<1> QED
    BY <1>5, <1>6, <1>7, <1>8

\* An append is called.
LEMMA TailGrows ==
    ASSUME Shape, NEW w, NEW r, tail' = Append(tail, [who |-> w, rec |-> r])
    PROVE  /\ \A i \in DOMAIN tail' : \/ i \in DOMAIN tail /\ tail'[i] = tail[i]
                                      \/ tail'[i].who = w /\ tail'[i].rec = r
           /\ TailIds' = TailIds \cup (IF r.type \in DisposalTypes THEN {r.id} ELSE {})
<1>1. /\ \A i \in DOMAIN tail : tail'[i] = tail[i] /\ i \in DOMAIN tail'
      /\ \A i \in DOMAIN tail' : i \in DOMAIN tail \/ i = Len(tail) + 1
      /\ Len(tail) + 1 \in DOMAIN tail' /\ tail'[Len(tail) + 1].who = w /\ tail'[Len(tail) + 1].rec = r
    <2>1. /\ Len(tail) \in Nat /\ DOMAIN tail = 1 .. Len(tail) /\ DOMAIN tail' = 1 .. Len(tail) + 1
          /\ \A i \in 1 .. Len(tail) : tail'[i] = tail[i]
          /\ tail'[Len(tail) + 1].who = w /\ tail'[Len(tail) + 1].rec = r
        BY TailTyped
    <2> QED BY <2>1
<1> DEFINE n == Len(tail) + 1
<1> HIDE DEF n
<1>2. /\ \A i \in DOMAIN tail : tail'[i] = tail[i] /\ i \in DOMAIN tail'
      /\ \A i \in DOMAIN tail' : i \in DOMAIN tail \/ i = n
      /\ n \in DOMAIN tail' /\ tail'[n].who = w /\ tail'[n].rec = r
    BY <1>1 DEF n
<1>3. TailIds' = TailIds \cup (IF r.type \in DisposalTypes THEN {r.id} ELSE {})
    BY <1>2 DEF TailIds
<1> QED
    BY <1>2, <1>3

\* The oldest pending append is done.
LEMMA TailShrinks ==
    ASSUME Shape, tail # <<>>, tail' = Tail(tail)
    PROVE  /\ \A i \in DOMAIN tail' : tail'[i] = tail[i + 1] /\ i + 1 \in DOMAIN tail /\ i + 1 # 1
           /\ \A i \in DOMAIN tail : i # 1 => \E k \in DOMAIN tail' : tail'[k] = tail[i]
           /\ TailIds' \subseteq TailIds
           /\ \A s \in TailIds \ TailIds' : tail[1].rec.type \in DisposalTypes /\ tail[1].rec.id = s
<1>1. /\ Len(tail) \in Nat /\ DOMAIN tail = 1 .. Len(tail) /\ DOMAIN tail' = 1 .. Len(tail) - 1
      /\ \A i \in DOMAIN tail' : tail'[i] = tail[i + 1] /\ i + 1 \in DOMAIN tail
    BY TailTyped
<1>2. \A i \in DOMAIN tail' : i + 1 # 1
    BY <1>1
<1>3. ASSUME NEW i \in DOMAIN tail, i # 1 PROVE \E k \in DOMAIN tail' : tail'[k] = tail[i]
    <2>1. i - 1 \in DOMAIN tail' /\ (i - 1) + 1 = i
        BY <1>1, <1>3
    <2> QED BY <1>1, <2>1
<1>4. TailIds' \subseteq TailIds
    BY <1>1 DEF TailIds
<1>5. ASSUME NEW s \in TailIds, s \notin TailIds' PROVE tail[1].rec.type \in DisposalTypes /\ tail[1].rec.id = s
    <2>1. PICK i \in DOMAIN tail : tail[i].rec.type \in DisposalTypes /\ tail[i].rec.id = s
        BY <1>5 DEF TailIds
    <2>2. CASE i = 1
        BY <2>1, <2>2
    <2>3. CASE i # 1
        <3>1. PICK k \in DOMAIN tail' : tail'[k] = tail[i]
            BY <1>3, <2>3
        <3> QED BY <1>5, <2>1, <3>1 DEF TailIds
    <2> QED BY <2>2, <2>3
<1> QED
    BY <1>1, <1>2, <1>3, <1>4, <1>5

\* An activity other than a steering command calls append, or gets its answer.
LEMMA RepliesStay ==
    ASSUME Shape, NEW w \in {"turn", "init"}, NEW x, reply' = [reply EXCEPT ![w] = x]
    PROVE  (\A s \in Steers : reply'[s] = reply[s]) /\ reply'[w] = x
BY SteersAssumption DEF Shape, TypeOK, StoreTypes, Activities

\* A step that is about no command leaves what is known of commands.
LEMMA AdmittedKept ==
    ASSUME Admitted, UNCHANGED <<journal, cmd>>, \A s \in Steers : reply'[s] = reply[s]
    PROVE  Admitted'
<1>1. /\ IdsOf("steering_accepted")' = IdsOf("steering_accepted") /\ Disposed' = Disposed
      /\ TypesOf("steering_accepted")' = TypesOf("steering_accepted")
    BY IdsStay
<1> QED
    BY <1>1 DEF Admitted

\* What is queued stays or comes from a command that was answered.
LEMMA QueuedKept ==
    ASSUME Shape, Queued, CommandsStay,
           \A i \in DOMAIN steering' :
             \/ \E k \in DOMAIN steering : steering'[i] = steering[k]
             \/ cmd'[steering'[i].id].st \in Held /\ cmd'[steering'[i].id].turn = steering'[i].turn,
           \A i \in DOMAIN todo' : todo'[i].type = "steering_abandoned" =>
             (\E k \in DOMAIN todo : todo'[i] = todo[k]) \/ cmd'[todo'[i].id].st \in Held,
           \A i \in DOMAIN tail' : tail'[i].rec.type \in DisposalTypes /\ tail'[i].who \notin Steers =>
             (\E k \in DOMAIN tail : tail'[i] = tail[k]) \/ cmd'[tail'[i].rec.id].st \in Held,
           pc' = "consuming" /\ reply'["turn"] = "ok" => Head(steering').id \in IdsOf("steering_consumed")'
    PROVE  Queued'
<1>1. ASSUME NEW i \in DOMAIN steering'
      PROVE  cmd'[steering'[i].id].st \in Held /\ cmd'[steering'[i].id].turn = steering'[i].turn
    <2>1. ASSUME NEW k \in DOMAIN steering
          PROVE  cmd'[steering[k].id].st \in Held /\ cmd'[steering[k].id].turn = steering[k].turn
        <3>1. steering[k].id \in Steers
            BY QueueIs
        <3> QED BY <3>1 DEF Queued, CommandsStay
    <2> QED BY <2>1
<1>2. ASSUME NEW i \in DOMAIN todo', todo'[i].type = "steering_abandoned" PROVE cmd'[todo'[i].id].st \in Held
    <2>1. ASSUME NEW k \in DOMAIN todo, todo[k].type = "steering_abandoned" PROVE cmd'[todo[k].id].st \in Held
        <3>1. todo[k].id \in Steers
            BY <2>1, DisposalTyped
        <3> QED BY <2>1, <3>1 DEF Queued, CommandsStay
    <2> QED BY <1>2, <2>1
<1>3. ASSUME NEW i \in DOMAIN tail', tail'[i].rec.type \in DisposalTypes, tail'[i].who \notin Steers
      PROVE  cmd'[tail'[i].rec.id].st \in Held
    <2>1. ASSUME NEW k \in DOMAIN tail, tail[k].rec.type \in DisposalTypes, tail[k].who \notin Steers
          PROVE  cmd'[tail[k].rec.id].st \in Held
        <3>1. tail[k].rec.id \in Steers
            BY <2>1, DisposalTyped
        <3> QED BY <2>1, <3>1 DEF Queued, CommandsStay
    <2> QED BY <1>3, <2>1
<1> QED
    BY <1>1, <1>2, <1>3 DEF Queued

\* Who writes which record.
LEMMA AsksWhat ==
    ASSUME Shape, NEW w \in Activities, NEW r \in Records, Asks(w, r)
    PROVE  /\ r.type = "steering_accepted" => w \in Steers
           /\ w \in Steers => /\ r.id = w /\ r.turn = cmd[w].turn
                              /\ \/ cmd[w].st = "accepting" /\ r.type = "steering_accepted"
                                 \/ cmd[w].st = "abandoning" /\ r.type = "steering_abandoned"
           /\ r.type = "steering_consumed" => w = "turn"
           /\ r.type = "turn_outcome" => w = "turn" /\ pc = "commit" /\ r.id = outcome /\ r.turn = active
           /\ w = "turn" /\ r.type = "steering_consumed" => pc = "consuming" /\ r.id = Head(steering).id /\ r.turn = active
           /\ w = "turn" /\ pc = "consuming" => r.type = "steering_consumed"
           /\ w \notin Steers => w \in {"turn", "init"}
<1>1. CASE w = "turn"
    <2>1. TurnAsks(r) /\ w \notin Steers
        BY <1>1, SteersAssumption DEF Asks
    <2> QED BY <1>1, <2>1 DEF TurnAsks, Rec
<1>2. CASE w = "init"
    <2>1. r.type \in {"steering_abandoned", "turn_interrupted"} /\ w \notin Steers
        BY <1>2, SteersAssumption DEF Asks
    <2> QED BY <1>2, <2>1
<1>3. CASE w \in Steers
    <2>1. \/ cmd[w].st = "accepting" /\ r = Rec("steering_accepted", w, cmd[w].turn)
          \/ cmd[w].st = "abandoning" /\ r = Rec("steering_abandoned", w, cmd[w].turn)
        BY <1>3 DEF Asks
    <2>2. w \notin {"turn", "init"}
        BY <1>3, SteersAssumption
    <2> QED BY <1>3, <2>1, <2>2 DEF Rec
<1> QED
    BY <1>1, <1>2, <1>3 DEF Activities

\* The store writes a record, or fails to.
LEMMA StoreAdmitted ==
    ASSUME Shape, Asking, Admitted, Queued, Store
    PROVE  Admitted'
<1>1. cmd' = cmd /\ Head(tail) = tail[1] /\ 1 \in DOMAIN tail
    BY StoreWrites
<1>2. CASE UNCHANGED <<journal, reply>>
    BY <1>1, <1>2, AdmittedKept
<1>3. ASSUME NEW w \in Activities, NEW r \in Records, NEW x \in {"ok", "err"},
             Head(tail).who = w, Head(tail).rec = r, Asks(w, r), reply[w] = "wait",
             reply' = [reply EXCEPT ![w] = x], journal' = journal \/ journal' = Append(journal, r),
             x = "ok" => journal' = Append(journal, r)
      PROVE  Admitted'
    <2>0. reply'[w] = x /\ x # "wait" /\ \A s \in Steers : s # w => reply'[s] = reply[s]
        BY <1>3 DEF Shape, TypeOK, StoreTypes, Activities
    <2>1. CASE journal' # Append(journal, r)
        <3>1. UNCHANGED journal /\ x = "err"
            BY <1>3, <2>1
        <3>2. /\ IdsOf("steering_accepted")' = IdsOf("steering_accepted") /\ Disposed' = Disposed
              /\ TypesOf("steering_accepted")' = TypesOf("steering_accepted")
            BY <3>1, IdsStay
        <3> QED BY <1>1, <2>0, <3>1, <3>2 DEF Admitted
    <2>2. CASE journal' = Append(journal, r)
        <3>1. /\ IdsOf("steering_accepted")' = IdsOf("steering_accepted") \cup (IF r.type = "steering_accepted" THEN {r.id} ELSE {})
              /\ Disposed' = Disposed \cup (IF r.type \in DisposalTypes THEN {r.id} ELSE {})
            BY <2>2, IdsGrow
        <3>2. r.type = "steering_accepted" =>
                /\ w \in Steers /\ r.id = w /\ r.turn = cmd[w].turn /\ cmd[w].st = "accepting"
                /\ w \notin IdsOf("steering_accepted")
            BY <1>3, AsksWhat DEF Admitted
        <3>3. \A i \in TypesOf("steering_accepted")' :
                \/ i \in TypesOf("steering_accepted") /\ journal'[i] = journal[i] /\ journal[i].id \in IdsOf("steering_accepted")
                \/ i = Len(journal) + 1 /\ journal'[i] = r /\ r.type = "steering_accepted"
            BY <2>2, JournalGrows DEF TypesOf, IdsOf
        <3>4. \A i, j \in TypesOf("steering_accepted")' : journal'[i].id = journal'[j].id => i = j
            BY <3>2, <3>3 DEF Admitted
        <3>5. \A i \in TypesOf("steering_accepted")' : cmd[journal'[i].id].turn = journal'[i].turn /\ cmd[journal'[i].id].st # "new"
            BY <3>2, <3>3 DEF Admitted
        <3>6. ASSUME NEW s \in Steers, cmd[s].st = "accepting", reply'[s] = "wait" PROVE s \notin IdsOf("steering_accepted")'
            BY <2>0, <3>1, <3>2, <3>6 DEF Admitted
        <3>7. r.type \in DisposalTypes => \/ w \in Steers /\ r.id = w /\ cmd[w].st = "abandoning"
                                          \/ w \notin Steers /\ cmd[r.id].st \in Held
            BY <1>1, <1>3, AsksWhat DEF Queued, DisposalTypes
        <3>8. ASSUME NEW s \in Steers, cmd[s].st \in {"new", "accepting"} \/ (cmd[s].st = "abandoning" /\ reply'[s] = "wait")
              PROVE  s \notin Disposed'
            <4>1. s \notin Disposed
                BY <1>3, <2>0, <3>8 DEF Admitted
            <4>2. r.type \in DisposalTypes => r.id # s
                BY <2>0, <3>7, <3>8 DEF Held
            <4> QED BY <3>1, <4>1, <4>2
        <3>9. ASSUME NEW s \in Steers, (cmd[s].st = "refused" /\ cmd[s].turn # None) \/ (cmd[s].st = "abandoning" /\ reply'[s] = "ok")
              PROVE  s \in Disposed'
            <4>1. CASE s = w
                <5>1. cmd[s].st = "abandoning" /\ r.id = s /\ r.type = "steering_abandoned"
                    BY <1>3, <3>9, <4>1, AsksWhat
                <5> QED BY <3>1, <5>1 DEF DisposalTypes
            <4>2. CASE s # w
                BY <2>0, <3>1, <3>9, <4>2 DEF Admitted
            <4> QED BY <4>1, <4>2
        <3> QED BY <1>1, <3>4, <3>5, <3>6, <3>8, <3>9 DEF Admitted
    <2> QED BY <2>1, <2>2
<1> QED
    BY <1>2, <1>3, StoreWrites

LEMMA StoreQueued ==
    ASSUME Shape, Asking, Queued, CommandsStay, Store
    PROVE  Queued'
<1>1. UNCHANGED <<steering, todo, cmd, pc>> /\ tail' = Tail(tail) /\ tail # <<>>
    BY StoreWrites DEF turnVars
<1>2. \A i \in DOMAIN tail' : \E k \in DOMAIN tail : tail'[i] = tail[k]
    BY <1>1, TailShrinks
<1>3. ASSUME pc = "consuming", reply'["turn"] = "ok" PROVE Head(steering).id \in IdsOf("steering_consumed")'
    <2>1. CASE UNCHANGED <<journal, reply>>
        BY <1>3, <2>1, IdsStay DEF Queued
    <2>2. ASSUME NEW w \in Activities, NEW r \in Records, NEW x \in {"ok", "err"},
                 Asks(w, r), reply' = [reply EXCEPT ![w] = x], journal' = journal \/ journal' = Append(journal, r),
                 x = "ok" => journal' = Append(journal, r)
          PROVE  Head(steering).id \in IdsOf("steering_consumed")'
        <3>1. CASE w = "turn"
            <4>1. x = "ok"
                BY <1>3, <2>2, <3>1, RepliesStay
            <4>2. r.id = Head(steering).id /\ r.type = "steering_consumed"
                BY <1>3, <2>2, <3>1, AsksWhat
            <4> QED BY <2>2, <4>1, <4>2, IdsGrow
        <3>2. CASE w # "turn"
            <4>1. reply["turn"] = "ok"
                BY <1>3, <2>2, <3>2 DEF Shape, TypeOK, StoreTypes, Activities
            <4>2. IdsOf("steering_consumed") \subseteq IdsOf("steering_consumed")'
                BY <2>2, IdsGrow, IdsStay
            <4> QED BY <1>3, <4>1, <4>2 DEF Queued
        <3> QED BY <3>1, <3>2
    <2> QED BY <2>1, <2>2, StoreWrites
<1>4. \A i \in DOMAIN steering' : \E k \in DOMAIN steering : steering'[i] = steering[k]
    BY <1>1
<1>5. \A i \in DOMAIN todo' : \E k \in DOMAIN todo : todo'[i] = todo[k]
    BY <1>1
<1>6. pc' = "consuming" /\ reply'["turn"] = "ok" => Head(steering').id \in IdsOf("steering_consumed")'
    BY <1>1, <1>3
<1> QED
    BY <1>2, <1>4, <1>5, <1>6, QueuedKept

\* A command goes on.
LEMMA CommandAdmitted ==
    ASSUME Shape, Admitted, NEW s \in Steers, NEW c, cmd' = [cmd EXCEPT ![s] = c], UNCHANGED journal,
           \A v \in Steers : v # s => reply'[v] = reply[v],
           s \in IdsOf("steering_accepted") => c.turn = cmd[s].turn /\ c.st # "new",
           c.st = "accepting" /\ reply'[s] = "wait" => s \notin IdsOf("steering_accepted"),
           c.st \in {"new", "accepting"} \/ (c.st = "abandoning" /\ reply'[s] = "wait") => s \notin Disposed,
           (c.st = "refused" /\ c.turn # None) \/ (c.st = "abandoning" /\ reply'[s] = "ok") => s \in Disposed
    PROVE  Admitted'
<1>1. /\ IdsOf("steering_accepted")' = IdsOf("steering_accepted") /\ Disposed' = Disposed
      /\ TypesOf("steering_accepted")' = TypesOf("steering_accepted")
    BY IdsStay
<1>2. cmd'[s] = c /\ \A v \in Steers : v # s => cmd'[v] = cmd[v]
    BY DEF Shape, TypeOK, SteeringTypes
<1>3. \A i \in TypesOf("steering_accepted") : journal[i].id \in Steers /\ journal[i].id \in IdsOf("steering_accepted")
    BY DisposalTyped DEF TypesOf, IdsOf
<1>4. \A i \in TypesOf("steering_accepted") : cmd'[journal[i].id].turn = journal[i].turn /\ cmd'[journal[i].id].st # "new"
    BY <1>2, <1>3 DEF Admitted
<1>5. \A i, j \in TypesOf("steering_accepted") : journal[i].id = journal[j].id => i = j
    BY DEF Admitted
<1>6. ASSUME NEW v \in Steers
      PROVE  /\ cmd'[v].st = "accepting" /\ reply'[v] = "wait" => v \notin IdsOf("steering_accepted")
             /\ \/ cmd'[v].st \in {"new", "accepting"}
                \/ cmd'[v].st = "abandoning" /\ reply'[v] = "wait"
                => v \notin Disposed
             /\ \/ cmd'[v].st = "refused" /\ cmd'[v].turn # None
                \/ cmd'[v].st = "abandoning" /\ reply'[v] = "ok"
                => v \in Disposed
    <2>1. CASE v = s
        BY <1>2, <2>1
    <2>2. CASE v # s
        <3>1. cmd'[v] = cmd[v] /\ reply'[v] = reply[v]
            BY <1>2, <2>2
        <3> QED BY <3>1 DEF Admitted
    <2> QED BY <2>1, <2>2
<1> QED
    BY <1>1, <1>4, <1>5, <1>6 DEF Admitted

\* A command in flight has no record of its own yet.
LEMMA CommandKnown ==
    ASSUME Shape, Admitted, NEW s \in Steers
    PROVE  cmd[s].st = "new" => s \notin IdsOf("steering_accepted") /\ s \notin Disposed
BY DEF Admitted, IdsOf, TypesOf

\* What a step of command s, which makes it c, does to the queue and the pending
\* appends: refused at once, admitted, accepted, too late, failed, given up.
SteerStep(s, c) ==
    /\ UNCHANGED <<journal, todo, pc, active, finalized, outcome, failed, closed, up, turns>>
    /\ cmd' = [cmd EXCEPT ![s] = c]
    /\ c.st \in {"accepting", "accepted", "abandoning", "refused", "error"}
    /\ \/ /\ cmd[s].st = "new" /\ c.st = "refused" /\ c.turn = None
          /\ UNCHANGED <<tail, reply, steering>>
       \/ /\ cmd[s].st = "new" /\ c.st = "accepting" /\ c.turn = active
          /\ active # None /\ ~finalized /\ HasRoom /\ up = "up"
          /\ Call(s, Rec("steering_accepted", s, active)) /\ UNCHANGED steering
       \/ /\ cmd[s].st = "accepting" /\ reply[s] = "ok" /\ c.st = "accepted" /\ c.turn = cmd[s].turn
          /\ active = cmd[s].turn /\ ~finalized
          /\ UNCHANGED <<tail, reply>> /\ steering' = Append(steering, Item(s, cmd[s].turn))
       \/ /\ cmd[s].st = "accepting" /\ reply[s] = "ok" /\ c.st = "abandoning" /\ c.turn = cmd[s].turn
          /\ Call(s, Rec("steering_abandoned", s, cmd[s].turn)) /\ UNCHANGED steering
       \/ /\ cmd[s].st \in {"accepting", "abandoning"} /\ reply[s] = "err" /\ c.st = "error" /\ c.turn = cmd[s].turn
          /\ UNCHANGED <<tail, reply, steering>>
       \/ /\ cmd[s].st = "abandoning" /\ reply[s] = "ok" /\ c.st = "refused" /\ c.turn = cmd[s].turn
          /\ UNCHANGED <<tail, reply, steering>>

LEMMA SteerDoes ==
    ASSUME Shape, NEW s \in Steers, SteerCall(s) \/ SteerWritten(s) \/ SteerAbandoned(s)
    PROVE  \E c : SteerStep(s, c)
<1>1. UNCHANGED <<journal, todo, pc, active, finalized, outcome, failed, closed, up, turns>>
    BY DEF SteerCall, SteerWritten, SteerAbandoned, durable, store, turnVars
<1>2. CASE SteerCall(s)
    <2>1. cmd[s].st = "new" /\ up = "up" /\ UNCHANGED steering
        BY <1>2 DEF SteerCall
    <2>2. PICK c, d : c = [st |-> "refused", turn |-> None] /\ d = [st |-> "accepting", turn |-> active]
        OBVIOUS
    <2>0. c.st = "refused" /\ c.turn = None /\ d.st = "accepting" /\ d.turn = active
        BY <2>2
    <2>3. CASE cmd' = [cmd EXCEPT ![s] = c] /\ UNCHANGED <<tail, reply>>
        <3>1. SteerStep(s, c)
            BY <1>1, <2>0, <2>1, <2>3 DEF SteerStep
        <3> QED BY <3>1
    <2>4. CASE /\ cmd' = [cmd EXCEPT ![s] = d] /\ Call(s, Rec("steering_accepted", s, active))
               /\ active # None /\ ~finalized /\ HasRoom
        <3>1. SteerStep(s, d)
            BY <1>1, <2>0, <2>1, <2>4 DEF SteerStep
        <3> QED BY <3>1
    <2> QED BY <1>2, <2>2, <2>3, <2>4 DEF SteerCall
<1>3. CASE SteerWritten(s)
    <2>1. PICK x \in {"accepted", "abandoning", "error"} :
            /\ cmd' = [cmd EXCEPT ![s].st = x]
            /\ x = "accepted" => reply[s] = "ok" /\ active = cmd[s].turn /\ ~finalized /\ UNCHANGED <<tail, reply>>
                                 /\ steering' = Append(steering, Item(s, cmd[s].turn))
            /\ x = "abandoning" => reply[s] = "ok" /\ Call(s, Rec("steering_abandoned", s, cmd[s].turn)) /\ UNCHANGED steering
            /\ x = "error" => reply[s] = "err" /\ UNCHANGED <<tail, reply, steering>>
        BY <1>3 DEF SteerWritten, StillOpen, Got
    <2>2. PICK c : c = [st |-> x, turn |-> cmd[s].turn]
        OBVIOUS
    <2>3. cmd' = [cmd EXCEPT ![s] = c] /\ c.st = x /\ c.turn = cmd[s].turn
        BY <2>1, <2>2, CommandTyped
    <2>4. cmd[s].st = "accepting"
        BY <1>3 DEF SteerWritten
    <2> QED BY <1>1, <2>1, <2>3, <2>4 DEF SteerStep
<1>4. CASE SteerAbandoned(s)
    <2>1. PICK x \in {"refused", "error"} :
            /\ cmd' = [cmd EXCEPT ![s].st = x]
            /\ x = "refused" => reply[s] = "ok"
            /\ x = "error" => reply[s] = "err"
        BY <1>4 DEF SteerAbandoned, Got
    <2>2. PICK c : c = [st |-> x, turn |-> cmd[s].turn]
        OBVIOUS
    <2>3. cmd' = [cmd EXCEPT ![s] = c] /\ c.st = x /\ c.turn = cmd[s].turn
        BY <2>1, <2>2, CommandTyped
    <2>4. cmd[s].st = "abandoning" /\ UNCHANGED <<tail, reply, steering>>
        BY <1>4 DEF SteerAbandoned, store
    <2> QED BY <1>1, <2>1, <2>3, <2>4 DEF SteerStep
<1> QED
    BY <1>2, <1>3, <1>4

LEMMA SteerAdmitted ==
    ASSUME Shape, Admitted, NEW s \in Steers, NEW c, SteerStep(s, c)
    PROVE  Admitted'
<1>1. cmd' = [cmd EXCEPT ![s] = c] /\ UNCHANGED journal
    BY DEF SteerStep
<1>2. \A v \in Steers : v # s => reply'[v] = reply[v]
    BY DEF SteerStep, Call, Shape, TypeOK, StoreTypes, Activities
<1>3. s \in IdsOf("steering_accepted") => c.turn = cmd[s].turn /\ c.st # "new"
    BY CommandKnown DEF SteerStep
<1>4. c.st = "accepting" /\ reply'[s] = "wait" => s \notin IdsOf("steering_accepted")
    BY CommandKnown DEF SteerStep
<1>5. c.st \in {"new", "accepting"} \/ (c.st = "abandoning" /\ reply'[s] = "wait") => s \notin Disposed
    BY CommandKnown DEF SteerStep, Admitted
<1>6. (c.st = "refused" /\ c.turn # None) \/ (c.st = "abandoning" /\ reply'[s] = "ok") => s \in Disposed
    <2>1. Call(s, Rec("steering_abandoned", s, cmd[s].turn)) => reply'[s] = "wait"
        BY DEF Call, Shape, TypeOK, StoreTypes, Activities
    <2> QED BY <2>1 DEF SteerStep, Admitted
<1> QED
    BY <1>1, <1>2, <1>3, <1>4, <1>5, <1>6, CommandAdmitted

LEMMA SteerQueued ==
    ASSUME Shape, Queued, CommandsStay, NEW s \in Steers, NEW c, SteerStep(s, c)
    PROVE  Queued'
<1>1. UNCHANGED <<journal, todo, pc>> /\ cmd' = [cmd EXCEPT ![s] = c] /\ cmd'[s] = c
    BY DEF SteerStep, Shape, TypeOK, SteeringTypes
<1>2. reply'["turn"] = reply["turn"]
    <2>1. s # "turn" /\ "turn" \in Activities
        BY SteersAssumption DEF Activities
    <2> QED BY <2>1 DEF SteerStep, Call, Shape, TypeOK, StoreTypes
<1>3. ASSUME NEW i \in DOMAIN steering'
      PROVE  \/ \E k \in DOMAIN steering : steering'[i] = steering[k]
             \/ cmd'[steering'[i].id].st \in Held /\ cmd'[steering'[i].id].turn = steering'[i].turn
    <2>1. CASE UNCHANGED steering
        BY <1>3, <2>1
    <2>2. CASE steering' = Append(steering, Item(s, cmd[s].turn)) /\ c.st = "accepted" /\ c.turn = cmd[s].turn
        <3>1. (i \in DOMAIN steering /\ steering'[i] = steering[i]) \/ (steering'[i].id = s /\ steering'[i].turn = cmd[s].turn)
            BY <1>3, <2>2, QueueGrows
        <3> QED BY <1>1, <2>2, <3>1 DEF Held
    <2> QED BY <2>1, <2>2 DEF SteerStep
<1>4. ASSUME NEW i \in DOMAIN tail', tail'[i].who \notin Steers
      PROVE  \E k \in DOMAIN tail : tail'[i] = tail[k]
    <2>1. CASE UNCHANGED tail
        BY <1>4, <2>1
    <2>2. ASSUME NEW r, tail' = Append(tail, [who |-> s, rec |-> r]) PROVE i \in DOMAIN tail /\ tail'[i] = tail[i]
        BY <1>4, <2>2, TailGrows
    <2> QED BY <2>1, <2>2 DEF SteerStep, Call
<1>5. pc = "consuming" => Head(steering') = Head(steering)
    <2>1. pc = "consuming" => steering # <<>>
        BY DEF Shape, Placed
    <2>2. CASE UNCHANGED steering
        BY <2>2
    <2>3. CASE steering' = Append(steering, Item(s, cmd[s].turn)) /\ steering # <<>>
        <3>1. steering \in Seq([id : Steers, turn : Turns]) /\ steering'[1] = steering[1] /\ steering' # <<>>
            BY <2>3, QueueGrows, QueueIs DEF Shape, TypeOK, SteeringTypes
        <3> QED BY <2>3, <3>1
    <2> QED BY <2>1, <2>2, <2>3 DEF SteerStep
<1>6. IdsOf("steering_consumed")' = IdsOf("steering_consumed")
    BY <1>1, IdsStay
<1>7. pc' = "consuming" /\ reply'["turn"] = "ok" => Head(steering').id \in IdsOf("steering_consumed")'
    BY <1>1, <1>2, <1>5, <1>6 DEF Queued
<1>8. \A i \in DOMAIN todo' : \E k \in DOMAIN todo : todo'[i] = todo[k]
    BY <1>1
<1> QED
    BY <1>3, <1>4, <1>7, <1>8, QueuedKept

\* Of what is selected among the admissions, each is of another direction.
LEMMA KeptTaken ==
    ASSUME Shape, Admitted, NEW I, I \subseteq Kept, NEW q, q = Selected(journal, I)
    PROVE  /\ q \in Seq(Records) /\ Len(q) = Cardinality(I) /\ IsFiniteSet(I)
           /\ \A k \in DOMAIN q : \E i \in I : q[k] = journal[i]
           /\ \A k, l \in DOMAIN q : q[k].id = q[l].id => k = l
<1>0. journal \in Seq(Records) /\ I \subseteq DOMAIN journal
    BY DEF Shape, TypeOK, JournalTypes, Kept, TypesOf
<1>1. I \subseteq TypesOf("steering_accepted")
    BY DEF Kept
<1>2. /\ q \in Seq(Records) /\ IsFiniteSet(I)
      /\ Picks(q, journal, I)
    <2> DEFINE p == Selected(journal, I)
    <2>1. /\ p \in Seq(Records) /\ IsFiniteSet(I)
          /\ Picks(p, journal, I)
        BY <1>0, SelectedIs
    <2>2. p = q
        OBVIOUS
    <2> HIDE DEF p
    <2> QED BY <2>1, <2>2
<1>3. PICK at \in [1 .. Cardinality(I) -> I] :
                /\ DOMAIN q = 1 .. Cardinality(I) /\ Len(q) = Cardinality(I)
                /\ \A k \in 1 .. Cardinality(I) : q[k] = journal[at[k]]
                /\ \A i, j \in 1 .. Cardinality(I) : at[i] = at[j] => i = j
    BY <1>2 DEF Picks
<1>4. \A k \in DOMAIN q : at[k] \in I /\ q[k] = journal[at[k]]
    BY <1>3
<1>5. ASSUME NEW k \in DOMAIN q, NEW l \in DOMAIN q, q[k].id = q[l].id PROVE k = l
    <2>1. at[k] = at[l]
        BY <1>1, <1>4, <1>5 DEF Admitted
    <2> QED BY <1>3, <2>1
<1> QED
    BY <1>2, <1>3, <1>4, <1>5

\* What #restore finds pending and orphaned.
PendingPlaces == {i \in Kept : journal[i].turn \in ActiveTurns}
OrphanedPlaces == {i \in Kept : journal[i].turn \notin ActiveTurns}

LEMMA StartedIs ==
    ASSUME Shape, Admitted, Start
    PROVE  /\ \A k \in DOMAIN steering' : \E i \in PendingPlaces :
                steering'[k].id = journal[i].id /\ steering'[k].turn = journal[i].turn
           /\ \A k, l \in DOMAIN steering' : steering'[k].id = steering'[l].id => k = l
           /\ Len(steering') = Cardinality(PendingPlaces) /\ IsFiniteSet(PendingPlaces)
           /\ \A k \in DOMAIN todo' : todo'[k].type = "steering_abandoned" =>
                \E i \in OrphanedPlaces : todo'[k].id = journal[i].id
           /\ \A k, l \in DOMAIN todo' :
                /\ todo'[k].type = "steering_abandoned" /\ todo'[l].type = "steering_abandoned"
                /\ todo'[k].id = todo'[l].id
                => k = l
<1>1. PICK p, q : p = Pending /\ q = Orphaned
    OBVIOUS
<1>2. /\ p \in Seq(Records) /\ Len(p) = Cardinality(PendingPlaces) /\ IsFiniteSet(PendingPlaces)
      /\ \A k \in DOMAIN p : \E i \in PendingPlaces : p[k] = journal[i]
      /\ \A k, l \in DOMAIN p : p[k].id = p[l].id => k = l
    <2>1. p = Selected(journal, PendingPlaces) /\ PendingPlaces \subseteq Kept
        BY <1>1 DEF Pending, PendingPlaces
    <2> QED BY <2>1, KeptTaken
<1>3. /\ q \in Seq(Records)
      /\ \A k \in DOMAIN q : \E i \in OrphanedPlaces : q[k] = journal[i]
      /\ \A k, l \in DOMAIN q : q[k].id = q[l].id => k = l
    <2>1. q = Selected(journal, OrphanedPlaces) /\ OrphanedPlaces \subseteq Kept
        BY <1>1 DEF Orphaned, OrphanedPlaces
    <2> QED BY <2>1, KeptTaken
<1>4. steering' = [i \in DOMAIN p |-> Item(p[i].id, p[i].turn)]
    BY <1>1 DEF Start
<1>5. DOMAIN steering' = DOMAIN p /\ \A k \in DOMAIN p : steering'[k].id = p[k].id /\ steering'[k].turn = p[k].turn
    BY <1>4 DEF Item
<1>6. Len(steering') = Len(p)
    <2>1. Len(p) \in Nat /\ DOMAIN p = 1 .. Len(p)
        BY <1>2
    <2>2. steering' \in Seq([id : Steers, turn : Turns])
        BY RestoredTyped DEF Start
    <2>3. DOMAIN steering' = 1 .. Len(steering') /\ Len(steering') \in Nat
        BY <2>2
    <2> QED BY <1>5, <2>1, <2>3
<1> DEFINE A == Abandonments(q)
<1> DEFINE B == [i \in DOMAIN Interrupted |-> Rec("turn_interrupted", None, Interrupted[i].turn)]
<1>7. A \in Seq(Records) /\ B \in Seq(Records) /\ todo' = A \o B /\ DOMAIN A = DOMAIN q
    BY <1>1, RestoredTyped DEF Start
<1>8. \A i \in DOMAIN A : A[i].type = "steering_abandoned" /\ A[i].id = q[i].id
    BY DEF Abandonments, Rec
<1>9. \A i \in DOMAIN B : B[i].type = "turn_interrupted"
    BY DEF Rec
<1> HIDE DEF A, B
<1>10. /\ \A i \in DOMAIN A : todo'[i] = A[i]
       /\ \A i \in DOMAIN todo' : i \notin DOMAIN A => \E k \in DOMAIN B : todo'[i] = B[k]
    <2>1. /\ Len(A) \in Nat /\ Len(B) \in Nat /\ DOMAIN B = 1 .. Len(B) /\ DOMAIN A = 1 .. Len(A)
          /\ DOMAIN todo' = 1 .. Len(A) + Len(B)
          /\ \A i \in 1 .. Len(A) : todo'[i] = A[i]
          /\ \A i \in DOMAIN todo' : i \notin 1 .. Len(A) => todo'[i] = B[i - Len(A)] /\ i - Len(A) \in DOMAIN B
        BY <1>7
    <2> QED BY <2>1
<1>11. \A k \in DOMAIN todo' : todo'[k].type = "steering_abandoned" => k \in DOMAIN q /\ todo'[k].id = q[k].id
    BY <1>7, <1>8, <1>9, <1>10
<1>12. \A k \in DOMAIN steering' : \E i \in PendingPlaces :
         steering'[k].id = journal[i].id /\ steering'[k].turn = journal[i].turn
    BY <1>2, <1>5
<1>13. \A k, l \in DOMAIN steering' : steering'[k].id = steering'[l].id => k = l
    BY <1>2, <1>5
<1>14. \A k \in DOMAIN todo' : todo'[k].type = "steering_abandoned" => \E i \in OrphanedPlaces : todo'[k].id = journal[i].id
    BY <1>3, <1>11
<1>15. \A k, l \in DOMAIN todo' :
         /\ todo'[k].type = "steering_abandoned" /\ todo'[l].type = "steering_abandoned"
         /\ todo'[k].id = todo'[l].id
         => k = l
    BY <1>3, <1>11
<1> QED
    BY <1>2, <1>6, <1>12, <1>13, <1>14, <1>15

\* What #restore takes from the journal are commands that were answered, or lost
\* their process.
LEMMA KeptHeld ==
    ASSUME Shape, Admitted, up = "down", NEW i \in Kept
    PROVE  /\ journal[i].id \in Steers /\ cmd[journal[i].id].st \in Held
           /\ cmd[journal[i].id].turn = journal[i].turn /\ journal[i].id \notin Disposed
<1>1. i \in TypesOf("steering_accepted") /\ journal[i].id \notin Disposed
    BY DEF Kept, Disposed
<1>2. journal[i].id \in Steers /\ journal[i].turn \in Turns
    BY <1>1, DisposalTyped, RecordTyped DEF TypesOf
<1>3. cmd[journal[i].id].turn = journal[i].turn /\ cmd[journal[i].id].st # "new"
    BY <1>1 DEF Admitted
<1>4. journal[i].turn # None
    BY <1>2, NoneAssumption DEF Turns
<1>5. PICK s \in Steers : s = journal[i].id
    BY <1>2
<1>6. cmd[s].st \notin {"accepting", "abandoning", "refused", "new"}
    BY <1>1, <1>3, <1>4, <1>5, CommandTyped DEF Admitted
<1>7. cmd[s].st \in {"new", "accepting", "abandoning", "accepted", "refused", "error", "lost"}
    BY CommandTyped DEF Commands
<1> QED
    BY <1>1, <1>3, <1>5, <1>6, <1>7 DEF Held

\* The other steps are about the turn, the queue or the restoration.
LEMMA OtherSteps ==
    ASSUME Shape, [Next]_vars
    PROVE  \/ Store \/ Exit \/ \E s \in Steers : SteerCall(s) \/ SteerWritten(s) \/ SteerAbandoned(s)
           \/ UNCHANGED <<journal, failed, closed, cmd>> /\ \A s \in Steers : reply'[s] = reply[s]
<1>1. ASSUME Moving \/ Submit \/ ConsumeNext \/ ConsumeWritten \/ FinalizeOnce \/ CommitWritten \/ DropNext
      PROVE  UNCHANGED <<journal, failed, closed, cmd>> /\ (reply' = reply \/ reply' = [reply EXCEPT !["turn"] = "wait"])
    BY <1>1, MovingIsMove DEF TurnMove, Submit, ConsumeNext, ConsumeWritten, FinalizeOnce, CommitWritten, DropNext, Call, durable, store
<1>2. ASSUME DropWritten \/ DropDone \/ Settle \/ (\E t \in Turns : ToolsClosed(t)) \/ Cancel
      PROVE  UNCHANGED <<journal, failed, closed, cmd, reply>>
    BY <1>2 DEF DropWritten, DropDone, Settle, ToolsClosed, Cancel, durable, store
<1>3. ASSUME Shutdown \/ ShutdownJoin \/ ShutdownClose \/ Start \/ RestoreNext \/ Ready \/ UNCHANGED vars
      PROVE  UNCHANGED <<journal, failed, closed, cmd>> /\ (reply' = reply \/ reply' = [reply EXCEPT !["init"] = "wait"])
    BY <1>3 DEF Shutdown, ShutdownJoin, ShutdownClose, Start, RestoreNext, Ready, Call, vars, durable, store
<1>4. \A w \in {"turn", "init"} : reply' = [reply EXCEPT ![w] = "wait"] => \A s \in Steers : reply'[s] = reply[s]
    BY RepliesStay
<1> QED
    BY <1>1, <1>2, <1>3, <1>4, NextIsSteps DEF Steps

\* The process ends: every command in flight is lost.
LEMMA ExitAdmitted ==
    ASSUME Shape, Admitted, Exit
    PROVE  Admitted'
<1>1. UNCHANGED journal /\ cmd' = Lost
    BY DEF Exit, durable
<1>2. /\ IdsOf("steering_accepted")' = IdsOf("steering_accepted") /\ Disposed' = Disposed
      /\ TypesOf("steering_accepted")' = TypesOf("steering_accepted")
    BY <1>1, IdsStay
<1>3. ASSUME NEW s \in Steers
      PROVE  /\ cmd'[s].turn = cmd[s].turn /\ cmd'[s].st \notin {"accepting", "abandoning"}
             /\ cmd'[s].st = "new" <=> cmd[s].st = "new"
             /\ cmd'[s].st = "refused" <=> cmd[s].st = "refused"
    <2>1. cmd'[s] = IF cmd[s].st \in {"accepting", "abandoning"} THEN [cmd[s] EXCEPT !.st = "lost"] ELSE cmd[s]
        BY <1>1 DEF Lost
    <2>2. cmd[s] \in Commands
        BY CommandTyped
    <2>3. [cmd[s] EXCEPT !.st = "lost"].turn = cmd[s].turn /\ [cmd[s] EXCEPT !.st = "lost"].st = "lost"
        BY <2>2 DEF Commands
    <2>4. CASE cmd[s].st \in {"accepting", "abandoning"}
        BY <2>1, <2>3, <2>4
    <2>5. CASE cmd[s].st \notin {"accepting", "abandoning"}
        BY <2>1, <2>5
    <2> QED BY <2>4, <2>5
<1>4. \A i \in TypesOf("steering_accepted") : journal[i].id \in Steers
    BY DisposalTyped DEF TypesOf
<1> QED
    BY <1>1, <1>2, <1>3, <1>4 DEF Admitted

LEMMA NextAdmitted ==
    ASSUME Shape, Asking, Admitted, Queued, [Next]_vars
    PROVE  Admitted'
<1>1. ASSUME NEW s \in Steers, SteerCall(s) \/ SteerWritten(s) \/ SteerAbandoned(s) PROVE Admitted'
    BY <1>1, SteerDoes, SteerAdmitted
<1> QED
    BY <1>1, OtherSteps, StoreAdmitted, ExitAdmitted, AdmittedKept

\* The calls of the turn and of the restoration.
LEMMA CallQueued ==
    ASSUME Shape, Queued, CommandsStay, UNCHANGED journal, NEW w \in {"turn", "init"}, NEW r, Call(w, r),
           r.type \in DisposalTypes => cmd'[r.id].st \in Held,
           UNCHANGED steering,
           \A i \in DOMAIN todo' : \E k \in DOMAIN todo : todo'[i] = todo[k],
           w = "turn" \/ pc' # "consuming"
    PROVE  Queued'
<1>1. ASSUME NEW i \in DOMAIN tail', tail'[i].rec.type \in DisposalTypes
      PROVE  (\E k \in DOMAIN tail : tail'[i] = tail[k]) \/ cmd'[tail'[i].rec.id].st \in Held
    <2>1. tail' = Append(tail, [who |-> w, rec |-> r])
        BY DEF Call
    <2>2. (i \in DOMAIN tail /\ tail'[i] = tail[i]) \/ tail'[i].rec = r
        BY <1>1, <2>1, TailGrows
    <2> QED BY <1>1, <2>2
<1>2. w = "turn" => reply'["turn"] = "wait"
    BY RepliesStay DEF Call
<1>3. \A i \in DOMAIN steering' : \E k \in DOMAIN steering : steering'[i] = steering[k]
    OBVIOUS
<1> QED
    BY <1>1, <1>2, <1>3, QueuedKept

\* Nothing is called.
LEMMA QuietQueued ==
    ASSUME Shape, Queued, CommandsStay, UNCHANGED <<journal, reply>>,
           \A i \in DOMAIN tail' : tail'[i].rec.type \in DisposalTypes => \E k \in DOMAIN tail : tail'[i] = tail[k],
           \A i \in DOMAIN steering' : \E k \in DOMAIN steering : steering'[i] = steering[k],
           \A i \in DOMAIN todo' : todo'[i].type = "steering_abandoned" =>
             (\E k \in DOMAIN todo : todo'[i] = todo[k]) \/ cmd'[todo'[i].id].st \in Held,
           pc' = "consuming" => pc = "consuming" /\ UNCHANGED steering
    PROVE  Queued'
<1>1. IdsOf("steering_consumed")' = IdsOf("steering_consumed")
    BY IdsStay
<1>2. pc' = "consuming" /\ reply'["turn"] = "ok" => Head(steering').id \in IdsOf("steering_consumed")'
    BY <1>1 DEF Queued
<1> QED
    BY <1>2, QueuedKept

\* What is selected of the queue.
LEMMA QueueTaken ==
    ASSUME Shape, NEW I, I \subseteq DOMAIN steering, NEW q, q = Selected(steering, I)
    PROVE  /\ q \in Seq([id : Steers, turn : Turns]) /\ Len(q) <= Len(steering)
           /\ \A k \in DOMAIN q : \E i \in I : q[k] = steering[i]
           /\ \A i \in I : \E k \in DOMAIN q : q[k] = steering[i]
           /\ (\A i, j \in DOMAIN steering : steering[i].id = steering[j].id => i = j)
              => \A k, l \in DOMAIN q : q[k].id = q[l].id => k = l
<1> DEFINE E == [id : Steers, turn : Turns]
<1>1. steering \in Seq(E)
    BY DEF Shape, TypeOK, SteeringTypes
<1> HIDE DEF E
<1>2. /\ q \in Seq(E) /\ IsFiniteSet(I) /\ Cardinality(I) \in Nat
      /\ Picks(q, steering, I)
    <2> DEFINE p == Selected(steering, I)
    <2>1. /\ p \in Seq(E) /\ IsFiniteSet(I) /\ Cardinality(I) \in Nat
          /\ Picks(p, steering, I)
        BY <1>1, SelectedIs
    <2>2. p = q
        OBVIOUS
    <2> HIDE DEF p
    <2> QED BY <2>1, <2>2
<1>3. PICK at \in [1 .. Cardinality(I) -> I] :
                /\ DOMAIN q = 1 .. Cardinality(I) /\ Len(q) = Cardinality(I)
                /\ \A k \in 1 .. Cardinality(I) : q[k] = steering[at[k]]
                /\ \A i, j \in 1 .. Cardinality(I) : at[i] = at[j] => i = j
                /\ \A x \in I : \E k \in 1 .. Cardinality(I) : at[k] = x
    BY <1>2 DEF Picks
<1>4. Cardinality(I) <= Len(steering)
    <2>1. Len(steering) \in Nat /\ DOMAIN steering = 1 .. Len(steering)
        BY <1>1
    <2>2. IsFiniteSet(1 .. Len(steering)) /\ Cardinality(1 .. Len(steering)) = Len(steering)
        <3>1. \A n \in Nat : IsFiniteSet(1 .. n) /\ Cardinality(1 .. n) = IF 1 > n THEN 0 ELSE n - 1 + 1
            BY FS_Interval
        <3>2. \A n \in Nat : Cardinality(1 .. n) = n
            BY <3>1
        <3> QED BY <2>1, <3>1, <3>2
    <2>3. Cardinality(I) <= Cardinality(1 .. Len(steering))
        BY <2>1, <2>2, FS_Subset
    <2> QED BY <2>2, <2>3
<1>5. \A k \in DOMAIN q : at[k] \in I /\ q[k] = steering[at[k]] /\ at[k] \in DOMAIN steering
    BY <1>3
<1>6. \A i \in I : \E k \in DOMAIN q : q[k] = steering[i]
    BY <1>3
<1>7. ASSUME \A i, j \in DOMAIN steering : steering[i].id = steering[j].id => i = j,
             NEW k \in DOMAIN q, NEW l \in DOMAIN q, q[k].id = q[l].id
      PROVE  k = l
    <2>1. at[k] = at[l]
        BY <1>5, <1>7
    <2> QED BY <1>3, <2>1
<1>8. q \in Seq([id : Steers, turn : Turns]) /\ Len(q) <= Len(steering)
    BY <1>2, <1>3, <1>4 DEF E
<1> QED
    BY <1>5, <1>6, <1>7, <1>8

\* finalizeOnce has committed: what is left to abandon.
LEMMA UnconsumedIs ==
    ASSUME Shape, todo' = Abandonments(Unconsumed)
    PROVE  /\ \A k \in DOMAIN todo' : /\ todo'[k].type = "steering_abandoned"
                                      /\ \E i \in DOMAIN steering : steering[i].turn = active /\ todo'[k].id = steering[i].id
           /\ (\A i, j \in DOMAIN steering : steering[i].id = steering[j].id => i = j)
              => \A k, l \in DOMAIN todo' : todo'[k].id = todo'[l].id => k = l
<1> DEFINE I == {i \in DOMAIN steering : steering[i].turn = active}
<1>1. PICK q : q = Unconsumed
    OBVIOUS
<1>2. q = Selected(steering, I)
    BY <1>1 DEF Unconsumed
<1>3. I \subseteq DOMAIN steering /\ \A i \in I : i \in DOMAIN steering /\ steering[i].turn = active
    OBVIOUS
<1> HIDE DEF I
<1>4. /\ q \in Seq([id : Steers, turn : Turns])
      /\ \A k \in DOMAIN q : \E i \in I : q[k] = steering[i]
      /\ (\A i, j \in DOMAIN steering : steering[i].id = steering[j].id => i = j)
              => \A k, l \in DOMAIN q : q[k].id = q[l].id => k = l
    <2>1. I \subseteq DOMAIN steering
        BY <1>3
    <2>2. q \in Seq([id : Steers, turn : Turns])
        BY <1>2, <2>1, QueueTaken
    <2>3. /\ \A k \in DOMAIN q : \E i \in I : q[k] = steering[i]
          /\ (\A i, j \in DOMAIN steering : steering[i].id = steering[j].id => i = j)
              => \A k, l \in DOMAIN q : q[k].id = q[l].id => k = l
        BY <1>2, <2>1, QueueTaken
    <2> QED BY <2>2, <2>3
<1> DEFINE t == Abandonments(q)
<1>5. t = todo'
    BY <1>1
<1>6. DOMAIN t = DOMAIN q /\ \A k \in DOMAIN q : t[k].type = "steering_abandoned" /\ t[k].id = q[k].id
    <2>1. q \in Seq([id : Steers, turn : Turns])
        BY <1>4
    <2> QED BY <2>1, AbandonmentsTyped
<1> HIDE DEF t
<1>7. DOMAIN todo' = DOMAIN q /\ \A k \in DOMAIN q : todo'[k].type = "steering_abandoned" /\ todo'[k].id = q[k].id
    BY <1>5, <1>6
<1> QED
    BY <1>3, <1>4, <1>7

\* DropDone leaves the directions of other turns.
LEMMA DropDoneIs ==
    ASSUME Shape, DropDone
    PROVE  /\ \A k \in DOMAIN steering' : \E i \in DOMAIN steering : steering'[k] = steering[i] /\ steering[i].turn # active
           /\ (\A i, j \in DOMAIN steering : steering[i].id = steering[j].id => i = j)
              => \A k, l \in DOMAIN steering' : steering'[k].id = steering'[l].id => k = l
           /\ Len(steering') <= Len(steering)
<1> DEFINE I == {i \in DOMAIN steering : steering[i].turn # active}
<1>1. steering' = Selected(steering, I) /\ I \subseteq DOMAIN steering
    BY DEF DropDone
<1>2. \A i \in I : i \in DOMAIN steering /\ steering[i].turn # active
    OBVIOUS
<1> HIDE DEF I
<1>3. PICK q : q = steering'
    OBVIOUS
<1>4. q = Selected(steering, I)
    BY <1>1, <1>3
<1>5. /\ \A k \in DOMAIN q : \E i \in I : q[k] = steering[i]
      /\ (\A i, j \in DOMAIN steering : steering[i].id = steering[j].id => i = j)
              => \A k, l \in DOMAIN q : q[k].id = q[l].id => k = l
      /\ Len(q) <= Len(steering)
    BY <1>1, <1>4, QueueTaken
<1> QED
    BY <1>2, <1>3, <1>5

\* A turn begins or commits: its record is of no direction.
LEMMA OutcomeCalled ==
    ASSUME Submit \/ FinalizeOnce
    PROVE  \E r : Call("turn", r) /\ r.type \notin DisposalTypes
<1>1. \A x, y, z : x \notin DisposalTypes => Rec(x, y, z).type \notin DisposalTypes
    BY DEF Rec
<1>2. "turn_accepted" \notin DisposalTypes /\ "turn_outcome" \notin DisposalTypes
    BY DEF DisposalTypes
<1>3. CASE Submit
    <2>1. PICK r : r = Rec("turn_accepted", None, turns + 1)
        OBVIOUS
    <2>2. Call("turn", r)
        BY <1>3, <2>1 DEF Submit
    <2> QED BY <1>1, <1>2, <2>1, <2>2
<1>4. CASE FinalizeOnce
    <2>1. PICK o : Call("turn", Rec("turn_outcome", o, active))
        BY <1>4 DEF FinalizeOnce
    <2>2. PICK r : r = Rec("turn_outcome", o, active)
        OBVIOUS
    <2>3. Call("turn", r)
        BY <2>1, <2>2
    <2> QED BY <1>1, <1>2, <2>2, <2>3
<1> QED
    BY <1>3, <1>4

\* What every step leaves of the queue belongs to a command that was answered.
LEMMA NextQueued ==
    ASSUME Shape, Asking, Admitted, Queued, [Next]_vars
    PROVE  Queued'
<1>0. CommandsStay
    BY CommandsMove
<1>1. ASSUME NEW s \in Steers, SteerCall(s) \/ SteerWritten(s) \/ SteerAbandoned(s) PROVE Queued'
    BY <1>0, <1>1, SteerDoes, SteerQueued
<1>2. CASE Store
    BY <1>0, <1>2, StoreQueued
<1>3. CASE Exit
    <2>1. steering' = <<>> /\ todo' = <<>> /\ tail' = <<>> /\ pc' = "none"
        BY <1>3 DEF Exit, Fresh
    <2>2. DOMAIN steering' = {} /\ DOMAIN todo' = {} /\ DOMAIN tail' = {}
        BY <2>1
    <2> QED BY <2>1, <2>2 DEF Queued
<1>4. CASE Start
    <2>1. up = "down" /\ UNCHANGED <<journal, tail, reply, pc, cmd>> /\ pc = "none"
        BY <1>4 DEF Start, store, turnVars, Shape, Placed
    <2>2. ASSUME NEW k \in DOMAIN steering'
          PROVE  cmd'[steering'[k].id].st \in Held /\ cmd'[steering'[k].id].turn = steering'[k].turn
        <3>1. PICK i \in PendingPlaces : steering'[k].id = journal[i].id /\ steering'[k].turn = journal[i].turn
            BY <1>4, <2>2, StartedIs
        <3>2. i \in Kept
            BY DEF PendingPlaces
        <3> QED BY <2>1, <3>1, <3>2, KeptHeld
    <2>3. ASSUME NEW k \in DOMAIN todo', todo'[k].type = "steering_abandoned" PROVE cmd'[todo'[k].id].st \in Held
        <3>1. PICK i \in OrphanedPlaces : todo'[k].id = journal[i].id
            BY <1>4, <2>3, StartedIs
        <3>2. i \in Kept
            BY DEF OrphanedPlaces
        <3> QED BY <2>1, <3>1, <3>2, KeptHeld
    <2>4. \A i \in DOMAIN tail' : \E k \in DOMAIN tail : tail'[i] = tail[k]
        BY <2>1
    <2> QED BY <1>0, <2>1, <2>2, <2>3, <2>4, QueuedKept
<1>5. CASE RestoreNext \/ DropNext
    <2>1. PICK w \in {"turn", "init"} : Call(w, Head(todo)) /\ (w = "turn" \/ pc' # "consuming")
        BY <1>5 DEF RestoreNext, DropNext, Shape, Placed, turnVars
    <2>2. todo # <<>> /\ todo' = Tail(todo) /\ UNCHANGED <<journal, steering, cmd>>
        BY <1>5 DEF RestoreNext, DropNext, durable
    <2>3. /\ \A i \in DOMAIN todo' : \E k \in DOMAIN todo : todo'[i] = todo[k]
          /\ Head(todo) = todo[1] /\ 1 \in DOMAIN todo
        BY <2>2, TodoIs
    <2>4. todo[1].type \in DisposalTypes => todo[1].type = "steering_abandoned"
        BY <1>5, <2>3 DEF Asking, Waits, RestoreNext, DropNext, Shape, Placed, DisposalTypes
    <2>5. PICK r : r = Head(todo)
        OBVIOUS
    <2>6. Call(w, r) /\ (r.type \in DisposalTypes => cmd'[r.id].st \in Held)
        BY <2>1, <2>2, <2>3, <2>4, <2>5 DEF Queued
    <2> QED BY <1>0, <2>1, <2>2, <2>3, <2>6, CallQueued
<1>6. CASE ConsumeNext
    <2>1. PICK r : r = Rec("steering_consumed", Head(steering).id, active)
        OBVIOUS
    <2>2. Call("turn", r) /\ UNCHANGED <<journal, steering, todo, cmd>> /\ steering # <<>>
        BY <1>6, <2>1 DEF ConsumeNext, durable
    <2>3. Head(steering) = steering[1] /\ 1 \in DOMAIN steering
        BY <2>2, QueueIs
    <2>4. cmd'[r.id].st \in Held
        BY <2>1, <2>2, <2>3 DEF Queued, Rec
    <2> QED BY <1>0, <2>2, <2>4, CallQueued
<1>7. CASE Submit \/ FinalizeOnce
    <2>1. PICK r : Call("turn", r) /\ r.type \notin DisposalTypes
        BY <1>7, OutcomeCalled
    <2>2. UNCHANGED <<journal, steering, todo>>
        BY <1>7 DEF Submit, FinalizeOnce, durable
    <2> QED BY <1>0, <2>1, <2>2, CallQueued
<1>8. CASE CommitWritten
    <2>1. UNCHANGED <<journal, tail, reply, steering, cmd>> /\ pc' # "consuming"
        BY <1>8 DEF CommitWritten, CommitFault, durable, store
    <2>2. ASSUME todo' = Abandonments(Unconsumed), NEW k \in DOMAIN todo' PROVE cmd'[todo'[k].id].st \in Held
        <3>1. PICK i \in DOMAIN steering : todo'[k].id = steering[i].id
            BY <2>2, UnconsumedIs
        <3> QED BY <2>1, <3>1 DEF Queued
    <2>3. todo' = todo \/ todo' = Abandonments(Unconsumed)
        BY <1>8 DEF CommitWritten
    <2> QED BY <1>0, <2>1, <2>2, <2>3, QuietQueued
<1>9. CASE ConsumeWritten \/ DropDone
    <2>1. UNCHANGED <<journal, tail, reply, todo, cmd>> /\ pc' # "consuming"
        BY <1>9 DEF ConsumeWritten, DropDone, Goto, Throw, Finalize, durable, store
    <2>2. ConsumeWritten => steering' = steering \/ (steering' = Tail(steering) /\ steering # <<>>)
        BY DEF ConsumeWritten, Shape, Placed
    <2>3. \A i \in DOMAIN steering' : \E k \in DOMAIN steering : steering'[i] = steering[k]
        BY <1>9, <2>2, QueueIs, DropDoneIs
    <2> QED BY <1>0, <2>1, <2>3, QuietQueued
<1>10. CASE Moving \/ DropWritten \/ Settle \/ (\E t \in Turns : ToolsClosed(t)) \/ Cancel
    <2>1. UNCHANGED <<journal, tail, reply, steering, cmd>> /\ (todo' = todo \/ todo' = <<>>) /\ (pc' = "consuming" => pc = "consuming")
        BY <1>10, MovingIsMove DEF TurnMove, Awaiting, DropWritten, Settle, ToolsClosed, Cancel, durable, store
    <2>2. \A i \in DOMAIN todo' : \E k \in DOMAIN todo : todo'[i] = todo[k]
        BY <2>1
    <2> QED BY <1>0, <2>1, <2>2, QuietQueued
<1>11. CASE Shutdown \/ ShutdownJoin \/ ShutdownClose \/ Ready \/ UNCHANGED vars
    <2>1. UNCHANGED <<journal, reply, steering, cmd, todo, pc>>
        BY <1>11 DEF Shutdown, ShutdownJoin, ShutdownClose, Ready, vars, durable, store, turnVars
    <2>2. tail' = tail \/ tail' = Append(tail, [who |-> "close", rec |-> Rec("close", None, None)])
        BY <1>11 DEF Shutdown, ShutdownJoin, ShutdownClose, Ready, vars, store
    <2>3. PICK r : r = Rec("close", None, None)
        OBVIOUS
    <2>4. r.type \notin DisposalTypes
        BY <2>3 DEF Rec, DisposalTypes
    <2>5. tail' = tail \/ tail' = Append(tail, [who |-> "close", rec |-> r])
        BY <2>2, <2>3
    <2>6. \A i \in DOMAIN tail' : tail'[i].rec.type \in DisposalTypes => \E k \in DOMAIN tail : tail'[i] = tail[k]
        BY <2>4, <2>5, TailGrows
    <2> QED BY <1>0, <2>1, <2>6, QuietQueued
<1> QED
    BY <1>1, <1>2, <1>3, <1>4, <1>5, <1>6, <1>7, <1>8, <1>9, <1>10, <1>11, NextIsSteps DEF Steps

----------------------------------------------------------------------------
(* A direction is disposed of once. *)

\* The journal stays, and so does what is on the way; the place of the turn still
\* excuses what it excused.
LEMMA DisposingKept ==
    ASSUME Disposing, UNCHANGED <<journal, todo, steering>>, TailIds' = TailIds, Writable' => Writable,
           Writable' /\ pc = "consuming" => pc' = "consuming",
           Writable' /\ pc \in {"drop", "dropping"} => pc' \in {"drop", "dropping"} /\ active' = active
    PROVE  Disposing'
<1>1. Disposed' = Disposed
    BY IdsStay
<1>2. TodoIds' = TodoIds
    BY DEF TodoIds
<1>3. \A i, j \in DOMAIN journal' :
         /\ journal'[i].type \in DisposalTypes /\ journal'[j].type \in DisposalTypes
         /\ journal'[i].id = journal'[j].id
         => i = j
    BY DEF Disposing
<1>4. CASE ~Writable'
    BY <1>3, <1>4 DEF Disposing
<1>5. CASE Writable'
    <2>1. \A i \in DOMAIN steering' :
              steering'[i].id \in Disposed' \cup TailIds' \cup TodoIds'
              => \/ pc' = "consuming" /\ i = 1
                 \/ pc' \in {"drop", "dropping"} /\ steering'[i].turn = active'
        BY <1>1, <1>2, <1>5 DEF Disposing
    <2> QED BY <1>1, <1>2, <1>3, <1>5, <2>1 DEF Disposing
<1> QED
    BY <1>4, <1>5

\* Every pending disposal is of another direction.
LEMMA PendingDisposals ==
    ASSUME Shape, Asking, Queued
    PROVE  \A i, j \in DOMAIN tail :
             /\ tail[i].rec.type \in DisposalTypes /\ tail[j].rec.type \in DisposalTypes
             /\ tail[i].rec.id = tail[j].rec.id
             => i = j
<1>1. SUFFICES ASSUME NEW i \in DOMAIN tail, NEW j \in DOMAIN tail,
                      tail[i].rec.type \in DisposalTypes, tail[j].rec.type \in DisposalTypes,
                      tail[i].rec.id = tail[j].rec.id
               PROVE  tail[i].who = tail[j].who
    BY DEF Asking, Pended
<1>2. ASSUME NEW k \in DOMAIN tail, tail[k].rec.type \in DisposalTypes
      PROVE  /\ tail[k].who \in Activities
             /\ tail[k].who \in Steers => tail[k].rec.id = tail[k].who /\ cmd[tail[k].rec.id].st \notin Held
             /\ tail[k].who \notin Steers => cmd[tail[k].rec.id].st \in Held
             /\ tail[k].who = "turn" => up = "up"
             /\ tail[k].who = "init" => up = "restoring"
    <2>1. tail[k].who \in Activities
        BY <1>2, DisposalTyped
    <2>2. Asks(tail[k].who, tail[k].rec)
        BY <1>2 DEF Asking, Pended
    <2>3. tail[k].who \notin Steers => cmd[tail[k].rec.id].st \in Held
        BY <1>2 DEF Queued
    <2>4. tail[k].who = "turn" => up = "up"
        <3>1. tail[k].who = "turn" => pc # "none"
            BY <2>2 DEF Asks, TurnAsks
        <3> QED BY <3>1 DEF Shape, Placed
    <2>5. tail[k].who = "init" => up = "restoring"
        BY <2>2 DEF Asks
    <2>6. ASSUME tail[k].who \in Steers PROVE tail[k].rec.id = tail[k].who /\ cmd[tail[k].rec.id].st \notin Held
        <3>1. PICK s, r : s \in Steers /\ s = tail[k].who /\ r = tail[k].rec
            BY <2>6
        <3>2. \/ cmd[s].st = "accepting" /\ r = Rec("steering_accepted", s, cmd[s].turn)
              \/ cmd[s].st = "abandoning" /\ r = Rec("steering_abandoned", s, cmd[s].turn)
            BY <2>2, <3>1 DEF Asks
        <3>3. r.id = s /\ cmd[s].st \in {"accepting", "abandoning"}
            BY <3>2 DEF Rec
        <3> QED BY <3>1, <3>3 DEF Held
    <2> QED BY <2>1, <2>3, <2>4, <2>5, <2>6
<1>3. CASE tail[i].who \in Steers
    BY <1>1, <1>2, <1>3
<1>4. CASE tail[i].who \notin Steers
    <2>1. tail[j].who \notin Steers
        BY <1>1, <1>2, <1>4
    <2> QED BY <1>1, <1>2, <1>4, <2>1 DEF Activities
<1> QED
    BY <1>3, <1>4

\* The store: what it writes was on the way, and is so no longer.
LEMMA StoreDisposing ==
    ASSUME Shape, Asking, Queued, Disposing, Store
    PROVE  Disposing'
<1>1. /\ UNCHANGED <<steering, todo, pc, active>> /\ tail' = Tail(tail) /\ tail # <<>>
      /\ Head(tail) = tail[1] /\ 1 \in DOMAIN tail
    BY StoreWrites DEF turnVars
<1>2. /\ \A i \in DOMAIN tail' : tail'[i] = tail[i + 1] /\ i + 1 \in DOMAIN tail /\ i + 1 # 1
      /\ TailIds' \subseteq TailIds
      /\ \A s \in TailIds \ TailIds' : tail[1].rec.type \in DisposalTypes /\ tail[1].rec.id = s
    BY <1>1, TailShrinks
<1>3. TodoIds' = TodoIds
    BY <1>1 DEF TodoIds
<1>4. CASE UNCHANGED <<journal, reply, failed>> /\ closed'
    BY <1>4 DEF Disposing, Writable
<1>5. ASSUME NEW w \in Activities, NEW r \in Records, NEW x \in {"ok", "err"},
             Head(tail).who = w, Head(tail).rec = r,
             journal' = journal \/ journal' = Append(journal, r), closed' = closed, failed => failed',
             x = "ok" => journal' = Append(journal, r),
             journal' = Append(journal, r) => ~failed /\ ~closed,
             x = "err" => failed' \/ closed
      PROVE  Disposing'
    <2>1. CASE journal' # Append(journal, r)
        <3>1. journal' = journal /\ ~Writable'
            BY <1>5, <2>1 DEF Writable
        <3> QED BY <3>1 DEF Disposing
    <2>2. CASE journal' = Append(journal, r)
        <3>1. Writable
            BY <1>5, <2>2 DEF Writable
        <3>2. Disposed' = Disposed \cup (IF r.type \in DisposalTypes THEN {r.id} ELSE {})
            BY <2>2, IdsGrow
        <3>3. r.type \in DisposalTypes => r.id \in TailIds
            BY <1>1, <1>5 DEF TailIds
        <3>4. r.type \in DisposalTypes => r.id \notin TailIds'
            <4>1. ASSUME r.type \in DisposalTypes, NEW i \in DOMAIN tail', tail'[i].rec.type \in DisposalTypes, tail'[i].rec.id = r.id
                  PROVE  FALSE
                <5>1. PICK k : k = i + 1
                    OBVIOUS
                <5>2. tail'[i] = tail[k] /\ k \in DOMAIN tail /\ k # 1
                    BY <1>2, <5>1
                <5> QED BY <1>1, <1>5, <4>1, <5>2, PendingDisposals
            <4> QED BY <4>1 DEF TailIds
        <3>5. \A i \in DOMAIN journal' : journal'[i].type \in DisposalTypes =>
                \/ i \in DOMAIN journal /\ journal'[i] = journal[i] /\ journal[i].id \in Disposed
                \/ i = Len(journal) + 1 /\ journal'[i] = r
            BY <2>2, JournalGrows DEF Disposed, IdsOf, TypesOf, DisposalTypes
        <3>6. r.type \in DisposalTypes => r.id \notin Disposed
            BY <3>1, <3>3 DEF Disposing
        <3>7. \A i, j \in DOMAIN journal' :
                 /\ journal'[i].type \in DisposalTypes /\ journal'[j].type \in DisposalTypes
                 /\ journal'[i].id = journal'[j].id
                 => i = j
            BY <3>5, <3>6 DEF Disposing
        <3>8. Disposed' \cup TailIds' \cup TodoIds' = Disposed \cup TailIds \cup TodoIds
            BY <1>1, <1>2, <1>3, <1>5, <3>2, <3>3
        <3>9. TodoIds' \cap TailIds' = {} /\ (TodoIds' \cup TailIds') \cap Disposed' = {}
            BY <1>2, <1>3, <3>1, <3>2, <3>3, <3>4 DEF Disposing
        <3> QED BY <1>1, <3>1, <3>7, <3>8, <3>9 DEF Disposing
    <2> QED BY <2>1, <2>2
<1> QED
    BY <1>4, <1>5, StoreWrites

\* The next of the records to write is called for.
LEMMA TodoNext ==
    ASSUME Shape, todo # <<>>, todo' = Tail(todo), NEW w, tail' = Append(tail, [who |-> w, rec |-> Head(todo)]),
           todo[1].type \in DisposalTypes => todo[1].type = "steering_abandoned",
           \A i, j \in DOMAIN todo :
              /\ todo[i].type = "steering_abandoned" /\ todo[j].type = "steering_abandoned"
              /\ todo[i].id = todo[j].id
              => i = j
    PROVE  /\ \A i, j \in DOMAIN todo' :
                /\ todo'[i].type = "steering_abandoned" /\ todo'[j].type = "steering_abandoned"
                /\ todo'[i].id = todo'[j].id
                => i = j
           /\ TodoIds' \subseteq TodoIds /\ TailIds' \cup TodoIds' = TailIds \cup TodoIds
           /\ TodoIds' \cap TailIds' \subseteq TodoIds \cap TailIds
<1>1. /\ Head(todo) = todo[1] /\ 1 \in DOMAIN todo
      /\ \A i \in DOMAIN todo' : todo'[i] = todo[i + 1] /\ i + 1 \in DOMAIN todo /\ i + 1 # 1 /\ i \in Nat
    BY TodoIs
<1>2. ASSUME NEW i \in DOMAIN todo, i # 1 PROVE \E k \in DOMAIN todo' : todo'[k] = todo[i]
    <2>1. i \in 1 .. Len(todo) /\ Len(todo) \in Nat /\ DOMAIN todo' = 1 .. Len(todo) - 1
        BY TodoIs
    <2>2. i - 1 \in DOMAIN todo' /\ (i - 1) + 1 = i
        BY <1>2, <2>1
    <2> QED BY <1>1, <2>2
<1>3. PICK r : r = Head(todo)
    OBVIOUS
<1>4. TailIds' = TailIds \cup (IF r.type \in DisposalTypes THEN {r.id} ELSE {})
    BY <1>3, TailGrows
<1>5. r = todo[1] /\ (r.type \in DisposalTypes <=> r.type = "steering_abandoned")
    BY <1>1, <1>3 DEF DisposalTypes
<1>6. ASSUME NEW s \in TodoIds' PROVE s \in TodoIds /\ (r.type = "steering_abandoned" => s # r.id)
    <2>1. PICK i \in DOMAIN todo' : todo'[i].type = "steering_abandoned" /\ todo'[i].id = s
        BY <1>6 DEF TodoIds
    <2>2. PICK k : k = i + 1
        OBVIOUS
    <2>3. todo[k].type = "steering_abandoned" /\ todo[k].id = s /\ k \in DOMAIN todo /\ k # 1
        BY <1>1, <2>1, <2>2
    <2> QED BY <1>1, <1>5, <2>3 DEF TodoIds
<1>7. ASSUME NEW s \in TodoIds PROVE s \in TodoIds' \cup TailIds'
    <2>1. PICK i \in DOMAIN todo : todo[i].type = "steering_abandoned" /\ todo[i].id = s
        BY <1>7 DEF TodoIds
    <2>2. CASE i = 1
        BY <1>4, <1>5, <2>1, <2>2
    <2>3. CASE i # 1
        <3>1. PICK k \in DOMAIN todo' : todo'[k] = todo[i]
            BY <1>2, <2>3
        <3> QED BY <2>1, <3>1 DEF TodoIds
    <2> QED BY <2>2, <2>3
<1>8. r.type \in DisposalTypes => r.id \in TodoIds
    BY <1>1, <1>5 DEF TodoIds
<1>9. ASSUME NEW i \in DOMAIN todo', NEW j \in DOMAIN todo',
             todo'[i].type = "steering_abandoned", todo'[j].type = "steering_abandoned", todo'[i].id = todo'[j].id
      PROVE  i = j
    <2>1. i + 1 = j + 1
        BY <1>1, <1>9
    <2> QED BY <1>1, <2>1
<1> QED
    BY <1>4, <1>5, <1>6, <1>7, <1>8, <1>9

\* Once the store refuses everything, only the journal matters.
LEMMA UnwritableDisposing ==
    ASSUME Disposing, UNCHANGED journal, ~Writable'
    PROVE  Disposing'
BY DEF Disposing

\* A direction whose admission has just been written is nowhere else.
LEMMA AdmissionFree ==
    ASSUME Shape, Asking, Admitted, Queued, NEW s \in Steers, cmd[s].st = "accepting", reply[s] = "ok"
    PROVE  /\ s \notin Disposed /\ s \notin TailIds /\ s \notin TodoIds
           /\ \A i \in DOMAIN steering : steering[i].id # s
<1>1. cmd[s].st \notin Held
    BY DEF Held
<1>2. s \notin Disposed
    BY DEF Admitted
<1>3. s \notin TodoIds /\ \A i \in DOMAIN steering : steering[i].id # s
    BY <1>1 DEF Queued, TodoIds
<1>4. ASSUME NEW i \in DOMAIN tail, tail[i].rec.type \in DisposalTypes, tail[i].rec.id = s PROVE FALSE
    <2>1. tail[i].who \in Steers
        BY <1>1, <1>4 DEF Queued
    <2>2. Asks(tail[i].who, tail[i].rec) /\ reply[tail[i].who] = "wait"
        BY <1>4, DisposalTyped DEF Asking, Pended
    <2>3. PICK v, r : v \in Steers /\ v = tail[i].who /\ r = tail[i].rec
        BY <2>1
    <2>4. r = Rec("steering_accepted", v, cmd[v].turn) \/ r = Rec("steering_abandoned", v, cmd[v].turn)
        BY <2>2, <2>3 DEF Asks
    <2>5. r.id = v
        BY <2>4 DEF Rec
    <2> QED BY <1>4, <2>2, <2>3, <2>5
<1> QED
    BY <1>2, <1>3, <1>4 DEF TailIds

\* A command goes on.
LEMMA SteerDisposing ==
    ASSUME Shape, Asking, Admitted, Queued, Disposing, NEW s \in Steers, NEW c, SteerStep(s, c)
    PROVE  Disposing'
<1>1. UNCHANGED <<journal, todo, pc, active, failed, closed>>
    BY DEF SteerStep
<1>2. Writable' <=> Writable
    BY <1>1 DEF Writable
<1>3. Disposed' = Disposed /\ TodoIds' = TodoIds
    BY <1>1, IdsStay DEF TodoIds
<1>4. CASE UNCHANGED <<tail, steering>>
    <2>1. TailIds' = TailIds
        BY <1>4 DEF TailIds
    <2> QED BY <1>1, <1>2, <1>4, <2>1, DisposingKept
<1>5. CASE Call(s, Rec("steering_accepted", s, active)) /\ UNCHANGED steering
    <2>1. PICK r : r = Rec("steering_accepted", s, active)
        OBVIOUS
    <2>2. r.type \notin DisposalTypes
        BY <2>1 DEF Rec, DisposalTypes
    <2>3. tail' = Append(tail, [who |-> s, rec |-> r])
        BY <1>5, <2>1 DEF Call
    <2>4. TailIds' = TailIds
        BY <2>2, <2>3, TailGrows
    <2> QED BY <1>1, <1>2, <1>5, <2>4, DisposingKept
<1>6. CASE cmd[s].st = "accepting" /\ reply[s] = "ok" /\ UNCHANGED tail /\ steering' = Append(steering, Item(s, cmd[s].turn))
    <2>1. s \notin Disposed /\ s \notin TailIds /\ s \notin TodoIds /\ \A i \in DOMAIN steering : steering[i].id # s
        BY <1>6, AdmissionFree
    <2>2. TailIds' = TailIds
        BY <1>6 DEF TailIds
    <2>3. \A i \in DOMAIN steering' : \/ i \in DOMAIN steering /\ steering'[i] = steering[i]
                                      \/ i = Len(steering) + 1 /\ steering'[i].id = s
        BY <1>6, QueueGrows
    <2>4. ASSUME Writable PROVE \A i, j \in DOMAIN steering' : steering'[i].id = steering'[j].id => i = j
        BY <2>1, <2>3, <2>4 DEF Disposing
    <2>5. ASSUME Writable, NEW i \in DOMAIN steering', steering'[i].id \in Disposed \cup TailIds \cup TodoIds
          PROVE  \/ pc = "consuming" /\ i = 1
                 \/ pc \in {"drop", "dropping"} /\ steering'[i].turn = active
        <3>1. i \in DOMAIN steering /\ steering'[i] = steering[i]
            BY <2>1, <2>3, <2>5
        <3> QED BY <2>5, <3>1 DEF Disposing
    <2> QED BY <1>1, <1>2, <1>3, <2>2, <2>4, <2>5 DEF Disposing
<1>7. CASE cmd[s].st = "accepting" /\ reply[s] = "ok" /\ Call(s, Rec("steering_abandoned", s, cmd[s].turn)) /\ UNCHANGED steering
    <2>1. s \notin Disposed /\ s \notin TailIds /\ s \notin TodoIds /\ \A i \in DOMAIN steering : steering[i].id # s
        BY <1>7, AdmissionFree
    <2>2. PICK r : r = Rec("steering_abandoned", s, cmd[s].turn)
        OBVIOUS
    <2>3. r.type \in DisposalTypes /\ r.id = s
        BY <2>2 DEF Rec, DisposalTypes
    <2>4. tail' = Append(tail, [who |-> s, rec |-> r])
        BY <1>7, <2>2 DEF Call
    <2>5. TailIds' = TailIds \cup {s}
        BY <2>3, <2>4, TailGrows
    <2>6. ASSUME Writable PROVE TodoIds' \cap TailIds' = {} /\ (TodoIds' \cup TailIds') \cap Disposed' = {}
        BY <1>3, <2>1, <2>5, <2>6 DEF Disposing
    <2>7. \A i \in DOMAIN steering : steering[i].id \in Disposed' \cup TailIds' \cup TodoIds' => steering[i].id \in Disposed \cup TailIds \cup TodoIds
        BY <1>3, <2>1, <2>5
    <2> QED BY <1>1, <1>2, <1>7, <2>6, <2>7 DEF Disposing
<1> QED
    BY <1>4, <1>5, <1>6, <1>7 DEF SteerStep

\* #restore finds no direction that was disposed of, and none twice.
LEMMA StartDisposing ==
    ASSUME Shape, Admitted, Disposing, Start
    PROVE  Disposing'
<1>1. UNCHANGED <<journal, tail>> /\ up = "down" /\ tail = <<>>
    BY DEF Start, store, Shape, Placed
<1>2. Disposed' = Disposed /\ TailIds' = {}
    BY <1>1, IdsStay DEF TailIds
<1>3. \A i \in Kept : journal[i].id \notin Disposed /\ i \in TypesOf("steering_accepted")
    BY DEF Kept, Disposed
<1>4. ASSUME NEW k \in DOMAIN steering' PROVE steering'[k].id \notin Disposed /\ steering'[k].id \notin TodoIds'
    <2>1. PICK i \in PendingPlaces : steering'[k].id = journal[i].id
        BY <1>4, StartedIs
    <2>2. i \in Kept /\ journal[i].turn \in ActiveTurns
        BY DEF PendingPlaces
    <2>3. ASSUME NEW l \in DOMAIN todo', todo'[l].type = "steering_abandoned", todo'[l].id = journal[i].id PROVE FALSE
        <3>1. PICK j \in OrphanedPlaces : todo'[l].id = journal[j].id
            BY <2>3, StartedIs
        <3>2. j \in Kept /\ journal[j].turn \notin ActiveTurns
            BY DEF OrphanedPlaces
        <3>3. i = j
            BY <1>3, <2>2, <2>3, <3>1, <3>2 DEF Admitted
        <3> QED BY <2>2, <3>2, <3>3
    <2> QED BY <1>3, <2>1, <2>2, <2>3 DEF TodoIds
<1>5. ASSUME NEW s \in TodoIds' PROVE s \notin Disposed
    <2>1. PICK l \in DOMAIN todo' : todo'[l].type = "steering_abandoned" /\ todo'[l].id = s
        BY <1>5 DEF TodoIds
    <2>2. PICK j \in OrphanedPlaces : todo'[l].id = journal[j].id
        BY <2>1, StartedIs
    <2> QED BY <1>3, <2>1, <2>2 DEF OrphanedPlaces
<1>6. /\ \A k, l \in DOMAIN steering' : steering'[k].id = steering'[l].id => k = l
      /\ \A k, l \in DOMAIN todo' :
                /\ todo'[k].type = "steering_abandoned" /\ todo'[l].type = "steering_abandoned"
                /\ todo'[k].id = todo'[l].id
                => k = l
    BY StartedIs
<1> QED
    BY <1>1, <1>2, <1>4, <1>5, <1>6 DEF Disposing

\* #consumeSteering takes the head of the queue out when its consumption is on
\* record.
LEMMA ConsumeDisposing ==
    ASSUME Shape, Stopping, Disposing, ConsumeNext \/ ConsumeWritten
    PROVE  Disposing'
<1>1. UNCHANGED <<journal, todo, active, failed, closed>>
    BY DEF ConsumeNext, ConsumeWritten, durable, store
<1>2. (Writable' <=> Writable) /\ Disposed' = Disposed /\ TodoIds' = TodoIds
    BY <1>1, IdsStay DEF Writable, TodoIds
<1>3. CASE ConsumeNext
    <2>1. pc = "consume" /\ pc' = "consuming" /\ steering # <<>> /\ UNCHANGED steering
        BY <1>3 DEF ConsumeNext
    <2>2. Head(steering) = steering[1] /\ 1 \in DOMAIN steering
        BY <2>1, QueueIs
    <2>3. PICK r : r = Rec("steering_consumed", Head(steering).id, active)
        OBVIOUS
    <2>4. r.type \in DisposalTypes /\ r.id = steering[1].id
        BY <2>2, <2>3 DEF Rec, DisposalTypes
    <2>5. tail' = Append(tail, [who |-> "turn", rec |-> r])
        BY <1>3, <2>3 DEF ConsumeNext, Call
    <2>6. TailIds' = TailIds \cup {r.id}
        BY <2>4, <2>5, TailGrows
    <2>7. ASSUME Writable
          PROVE  /\ \A i \in DOMAIN steering : steering[i].id \notin Disposed \cup TailIds \cup TodoIds
                 /\ \A i \in DOMAIN steering : steering[i].id = r.id => i = 1
        BY <2>1, <2>2, <2>4, <2>7 DEF Disposing
    <2>8. ASSUME Writable PROVE TodoIds' \cap TailIds' = {} /\ (TodoIds' \cup TailIds') \cap Disposed' = {}
        BY <1>2, <2>2, <2>4, <2>6, <2>7, <2>8 DEF Disposing
    <2>9. ASSUME Writable, NEW i \in DOMAIN steering, steering[i].id \in Disposed' \cup TailIds' \cup TodoIds' PROVE i = 1
        BY <1>2, <2>6, <2>7, <2>9
    <2> QED BY <1>1, <1>2, <2>1, <2>8, <2>9 DEF Disposing
<1>4. CASE ConsumeWritten
    <2>1. CASE Got("turn", "err")
        <3>1. ~Writable
            BY <2>1 DEF Got, Stopping, Writable, Activities
        <3> QED BY <1>1, <1>2, <3>1, UnwritableDisposing
    <2>2. CASE ~Got("turn", "err")
        <3>1. pc = "consuming" /\ pc' = "consume" /\ steering # <<>> /\ steering' = Tail(steering) /\ UNCHANGED tail
            BY <1>4, <2>2 DEF ConsumeWritten, Goto, Shape, Placed, store
        <3>2. TailIds' = TailIds
            BY <3>1 DEF TailIds
        <3>3. \A i \in DOMAIN steering' : steering'[i] = steering[i + 1] /\ i + 1 \in DOMAIN steering /\ i \in Nat /\ i + 1 # 1
            <4>1. \A i \in DOMAIN steering' : steering'[i] = steering[i + 1] /\ i + 1 \in DOMAIN steering /\ i \in 1 .. Len(steering) - 1
                  /\ Len(steering) \in Nat
                BY <3>1, QueueIs
            <4> QED BY <4>1
        <3>4. ASSUME Writable, NEW i \in DOMAIN steering', NEW j \in DOMAIN steering', steering'[i].id = steering'[j].id PROVE i = j
            <4>1. i + 1 = j + 1
                BY <3>3, <3>4 DEF Disposing
            <4> QED BY <3>3, <4>1
        <3>5. ASSUME Writable, NEW i \in DOMAIN steering' PROVE steering'[i].id \notin Disposed \cup TailIds \cup TodoIds
            <4>1. PICK k : k = i + 1
                OBVIOUS
            <4>2. steering'[i] = steering[k] /\ k \in DOMAIN steering /\ k # 1
                BY <3>3, <4>1
            <4> QED BY <3>1, <3>5, <4>2 DEF Disposing
        <3> QED BY <1>1, <1>2, <3>2, <3>4, <3>5 DEF Disposing
    <2> QED BY <2>1, <2>2
<1> QED
    BY <1>3, <1>4

\* dropUnconsumedSteering abandons what the turn leaves.
LEMMA DropDisposing ==
    ASSUME Shape, Asking, Stopping, Disposing, CommitWritten \/ DropNext \/ RestoreNext \/ DropWritten \/ DropDone
    PROVE  Disposing'
<1>1. UNCHANGED <<journal, active, failed, closed>>
    BY DEF CommitWritten, DropNext, RestoreNext, DropWritten, DropDone, durable, store, turnVars
<1>2. (Writable' <=> Writable) /\ Disposed' = Disposed
    BY <1>1, IdsStay DEF Writable
<1>3. Got("turn", "err") => ~Writable
    BY DEF Got, Stopping, Writable, Activities
<1>4. CASE CommitWritten
    <2>1. CASE Got("turn", "err")
        BY <1>1, <1>2, <1>3, <2>1, UnwritableDisposing
    <2>2. CASE ~Got("turn", "err")
        <3>1. pc = "commit" /\ pc' = "drop" /\ todo' = Abandonments(Unconsumed) /\ UNCHANGED <<tail, steering>>
            BY <1>4, <2>2 DEF CommitWritten, store
        <3>2. TailIds' = TailIds
            BY <3>1 DEF TailIds
        <3>3. ASSUME NEW s \in TodoIds' PROVE \E i \in DOMAIN steering : steering[i].turn = active /\ steering[i].id = s
            BY <3>1, <3>3, UnconsumedIs DEF TodoIds
        <3>4. ASSUME Writable, NEW i \in DOMAIN steering PROVE steering[i].id \notin Disposed \cup TailIds
            BY <3>1, <3>4 DEF Disposing
        <3>5. ASSUME Writable PROVE \A k, l \in DOMAIN todo' : todo'[k].id = todo'[l].id => k = l
            BY <3>1, <3>5, UnconsumedIs DEF Disposing
        <3>6. ASSUME Writable, NEW i \in DOMAIN steering, steering[i].id \in TodoIds' PROVE steering[i].turn = active
            BY <3>3, <3>6 DEF Disposing
        <3>7. ASSUME Writable PROVE TodoIds' \cap TailIds' = {} /\ (TodoIds' \cup TailIds') \cap Disposed' = {}
            <4>1. TailIds \cap Disposed = {}
                BY <3>7 DEF Disposing
            <4> QED BY <1>2, <3>2, <3>3, <3>4, <3>7, <4>1
        <3>8. ASSUME Writable, NEW i \in DOMAIN steering, steering[i].id \in Disposed' \cup TailIds' \cup TodoIds'
              PROVE  steering[i].turn = active
            BY <1>2, <3>2, <3>4, <3>6, <3>8
        <3> QED BY <1>1, <1>2, <3>1, <3>5, <3>7, <3>8 DEF Disposing
    <2> QED BY <2>1, <2>2
<1>5. CASE DropNext \/ RestoreNext
    <2>1. PICK w : tail' = Append(tail, [who |-> w, rec |-> Head(todo)])
        BY <1>5 DEF DropNext, RestoreNext, Call
    <2>2. todo # <<>> /\ todo' = Tail(todo) /\ UNCHANGED steering
        BY <1>5 DEF DropNext, RestoreNext
    <2>3. pc = "consuming" => pc' = "consuming"
        BY <1>5 DEF DropNext, RestoreNext, turnVars
    <2>4. pc \in {"drop", "dropping"} => pc' \in {"drop", "dropping"}
        BY <1>5 DEF DropNext, RestoreNext, turnVars
    <2>5. todo[1].type \in DisposalTypes => todo[1].type = "steering_abandoned"
        <3>1. 1 \in DOMAIN todo
            BY <2>2, TodoIs
        <3> QED BY <1>5, <3>1 DEF Asking, Waits, RestoreNext, DropNext, Shape, Placed, DisposalTypes
    <2>6. CASE ~Writable
        BY <1>1, <1>2, <2>6, UnwritableDisposing
    <2>7. CASE Writable
        <3>1. /\ \A i, j \in DOMAIN todo' :
                    /\ todo'[i].type = "steering_abandoned" /\ todo'[j].type = "steering_abandoned"
                    /\ todo'[i].id = todo'[j].id
                    => i = j
              /\ TodoIds' \subseteq TodoIds /\ TailIds' \cup TodoIds' = TailIds \cup TodoIds
              /\ TodoIds' \cap TailIds' \subseteq TodoIds \cap TailIds
            BY <2>1, <2>2, <2>5, <2>7, TodoNext DEF Disposing
        <3>2. TodoIds' \cap TailIds' = {} /\ (TodoIds' \cup TailIds') \cap Disposed' = {}
            BY <1>2, <2>7, <3>1 DEF Disposing
        <3>3. Disposed' \cup TailIds' \cup TodoIds' = Disposed \cup TailIds \cup TodoIds
            BY <1>2, <3>1
        <3> QED BY <1>1, <2>2, <2>3, <2>4, <2>7, <3>1, <3>2, <3>3 DEF Disposing
    <2> QED BY <2>6, <2>7
<1>6. CASE DropWritten
    <2>1. CASE Got("turn", "err")
        BY <1>1, <1>2, <1>3, <2>1, UnwritableDisposing
    <2>2. CASE ~Got("turn", "err")
        <3>1. pc = "dropping" /\ pc' = "drop" /\ UNCHANGED <<tail, steering, todo>>
            BY <1>6, <2>2 DEF DropWritten, store
        <3>2. TailIds' = TailIds
            BY <3>1 DEF TailIds
        <3> QED BY <1>1, <1>2, <3>1, <3>2, DisposingKept
    <2> QED BY <2>1, <2>2
<1>7. CASE DropDone
    <2>1. pc = "drop" /\ pc' = "settle" /\ UNCHANGED <<tail, todo>>
        BY <1>7 DEF DropDone, store
    <2>2. TailIds' = TailIds /\ TodoIds' = TodoIds
        BY <2>1 DEF TailIds, TodoIds
    <2>3. ASSUME Writable PROVE \A k, l \in DOMAIN steering' : steering'[k].id = steering'[l].id => k = l
        BY <1>7, <2>3, DropDoneIs DEF Disposing
    <2>4. ASSUME Writable, NEW k \in DOMAIN steering' PROVE steering'[k].id \notin Disposed \cup TailIds \cup TodoIds
        <3>1. PICK i \in DOMAIN steering : steering'[k] = steering[i] /\ steering[i].turn # active
            BY <1>7, <2>4, DropDoneIs
        <3> QED BY <2>1, <2>4, <3>1 DEF Disposing
    <2> QED BY <1>1, <1>2, <2>1, <2>2, <2>3, <2>4 DEF Disposing
<1> QED
    BY <1>4, <1>5, <1>6, <1>7

\* Every step disposes of a direction at most once.
LEMMA NextDisposing ==
    ASSUME Shape, Asking, Stopping, Admitted, Queued, Disposing, [Next]_vars
    PROVE  Disposing'
<1>1. CASE Store
    BY <1>1, StoreDisposing
<1>2. ASSUME NEW s \in Steers, SteerCall(s) \/ SteerWritten(s) \/ SteerAbandoned(s) PROVE Disposing'
    BY <1>2, SteerDoes, SteerDisposing
<1>3. CASE ConsumeNext \/ ConsumeWritten
    BY <1>3, ConsumeDisposing
<1>4. CASE CommitWritten \/ DropNext \/ RestoreNext \/ DropWritten \/ DropDone
    BY <1>4, DropDisposing
<1>5. CASE Start
    BY <1>5, StartDisposing
<1>6. CASE Exit
    <2>1. UNCHANGED journal /\ steering' = <<>> /\ todo' = <<>> /\ tail' = <<>>
        BY <1>6 DEF Exit, Fresh, durable
    <2>2. DOMAIN steering' = {} /\ DOMAIN todo' = {} /\ DOMAIN tail' = {}
        BY <2>1
    <2>3. TailIds' = {} /\ TodoIds' = {}
        BY <2>2 DEF TailIds, TodoIds
    <2> QED BY <2>1, <2>2, <2>3 DEF Disposing
<1>7. CASE Submit \/ FinalizeOnce
    <2>1. PICK r : Call("turn", r) /\ r.type \notin DisposalTypes
        BY <1>7, OutcomeCalled
    <2>2. TailIds' = TailIds
        BY <2>1, TailGrows DEF Call
    <2>3. UNCHANGED <<journal, steering, todo, failed, closed>> /\ pc \notin {"consuming", "drop", "dropping"}
        BY <1>7 DEF Submit, FinalizeOnce, durable, Shape, Placed
    <2> QED BY <2>2, <2>3, DisposingKept DEF Writable
<1>8. CASE Moving
    <2>1. pc \notin {"consuming", "drop", "dropping"}
        BY <1>8 DEF Moving, AcceptWritten, TurnStart, LoopTop, StepContinues, StepConsumes, StepAnswers, StepExhausted,
                    StepReturns, StepThrows, ConsumeAborted, ConsumeDone, CheckpointEnter, AdmissionsSettled, Decide,
                    AttentionArm, AttentionResume
    <2>2. UNCHANGED <<journal, steering, todo, tail, failed, closed>>
        BY <1>8, MovingIsMove DEF TurnMove, durable, store
    <2>3. TailIds' = TailIds
        BY <2>2 DEF TailIds
    <2> QED BY <2>1, <2>2, <2>3, DisposingKept DEF Writable
<1>9. CASE Settle \/ (\E t \in Turns : ToolsClosed(t)) \/ Cancel
    <2>1. UNCHANGED <<journal, steering, todo, tail, failed, closed>>
        BY <1>9 DEF Settle, ToolsClosed, Cancel, durable, store
    <2>2. Settle => pc = "settle"
        BY DEF Settle
    <2>3. ~Settle => UNCHANGED pc
        BY <1>9 DEF ToolsClosed, Cancel
    <2>4. pc \in {"drop", "dropping"} => active' = active
        BY <1>9 DEF Settle, ToolsClosed, Cancel, Shape, Placed
    <2>5. TailIds' = TailIds
        BY <2>1 DEF TailIds
    <2> QED BY <2>1, <2>2, <2>3, <2>4, <2>5, DisposingKept DEF Writable
<1>10. CASE Shutdown \/ ShutdownJoin \/ ShutdownClose \/ Ready \/ UNCHANGED vars
    <2>1. UNCHANGED <<journal, steering, todo, failed, closed, pc, active>>
        BY <1>10 DEF Shutdown, ShutdownJoin, ShutdownClose, Ready, vars, durable, store, turnVars
    <2>2. tail' = tail \/ tail' = Append(tail, [who |-> "close", rec |-> Rec("close", None, None)])
        BY <1>10 DEF Shutdown, ShutdownJoin, ShutdownClose, Ready, vars, store
    <2>3. PICK r : r = Rec("close", None, None)
        OBVIOUS
    <2>4. r.type \notin DisposalTypes
        BY <2>3 DEF Rec, DisposalTypes
    <2>5. TailIds' = TailIds
        BY <2>2, <2>3, <2>4, TailGrows DEF TailIds
    <2> QED BY <2>1, <2>5, DisposingKept DEF Writable
<1> QED
    BY <1>1, <1>2, <1>3, <1>4, <1>5, <1>6, <1>7, <1>8, <1>9, <1>10, NextIsSteps DEF Steps

----------------------------------------------------------------------------
(* A direction steers its own turn, or one after a crash. *)

\* A consumption that is on record stays as it was.
LEMMA ConsumedStay ==
    ASSUME Shape, Admitted, Crossing, CommandsStay, UNCHANGED journal
    PROVE  \A j \in TypesOf("steering_consumed")' :
             \/ journal'[j].turn = cmd'[journal'[j].id].turn
             \/ cmd'[journal'[j].id].turn \in TurnsOf("turn_interrupted")'
<1>1. TypesOf("steering_consumed")' = TypesOf("steering_consumed") /\ TurnsOf("turn_interrupted")' = TurnsOf("turn_interrupted")
    BY IdsStay, JournalStays
<1>2. ASSUME NEW j \in TypesOf("steering_consumed") PROVE cmd'[journal[j].id].turn = cmd[journal[j].id].turn
    <2>1. journal[j].id \in Steers /\ journal[j].id \in Disposed
        BY DisposalTyped DEF TypesOf, Disposed, IdsOf, DisposalTypes
    <2>2. cmd[journal[j].id].st # "new"
        BY <2>1 DEF Admitted
    <2> QED BY <2>1, <2>2 DEF CommandsStay
<1> QED
    BY <1>1, <1>2 DEF Crossing

\* The queue holds nothing new, or a direction of the active turn.
LEMMA CrossingKept ==
    ASSUME Shape, Admitted, Crossing, CommandsStay, UNCHANGED <<journal, up>>, Writable' => Writable,
           \A i \in DOMAIN steering' : \/ \E k \in DOMAIN steering : steering'[i] = steering[k]
                                       \/ steering'[i].turn = active' /\ pc' \notin {"settle", "none"} /\ up = "up",
           Writable' /\ pc \notin {"settle", "none"} => active' = active /\ pc' \notin {"settle", "none"}
    PROVE  Crossing'
<1>1. /\ TurnsOf("turn_interrupted")' = TurnsOf("turn_interrupted") /\ ActiveTurns' = ActiveTurns
      /\ \A j \in TypesOf("steering_consumed")' :
             \/ journal'[j].turn = cmd'[journal'[j].id].turn
             \/ cmd'[journal'[j].id].turn \in TurnsOf("turn_interrupted")'
    BY ConsumedStay, JournalStays
<1>2. ASSUME up = "up", Writable', NEW i \in DOMAIN steering'
      PROVE  \/ steering'[i].turn \in TurnsOf("turn_interrupted")
             \/ steering'[i].turn = active' /\ pc' \notin {"settle", "none"}
    BY <1>2 DEF Crossing
<1>3. ASSUME up = "restoring", NEW i \in DOMAIN steering'
      PROVE  steering'[i].turn \in ActiveTurns \cup TurnsOf("turn_interrupted")
    BY <1>3 DEF Crossing
<1> QED
    BY <1>1, <1>2, <1>3 DEF Crossing

\* A consumption reaches the journal.
LEMMA StoreCrossing ==
    ASSUME Shape, Asking, Admitted, Queued, Crossing, Store
    PROVE  Crossing'
<1>1. UNCHANGED <<steering, pc, active, cmd, up>>
    BY StoreWrites DEF turnVars
<1>2. CASE UNCHANGED <<journal, reply, failed>> /\ Head(tail).who = "close" /\ closed'
    <2>1. CommandsStay
        BY <1>1 DEF CommandsStay
    <2> QED BY <1>1, <1>2, <2>1, CrossingKept DEF Writable
<1>3. ASSUME NEW w \in Activities, NEW r \in Records, NEW x \in {"ok", "err"}, Asks(w, r), closed' = closed,
             Head(tail).who = w,
             journal' = journal \/ journal' = Append(journal, r),
             journal' = Append(journal, r) => ~failed /\ ~closed, failed => failed'
      PROVE  Crossing'
    <2>1. Writable' => Writable
        BY <1>3 DEF Writable
    <2>2. CASE journal' = journal
        <3>1. CommandsStay
            BY <1>1 DEF CommandsStay
        <3> QED BY <1>1, <2>1, <2>2, <3>1, CrossingKept
    <2>3. CASE journal' = Append(journal, r)
        <3>1. TurnsOf("turn_interrupted") \subseteq TurnsOf("turn_interrupted")'
            BY <2>3, TurnsGrow
        <3>2. ASSUME up = "restoring"
              PROVE  ActiveTurns \cup TurnsOf("turn_interrupted") \subseteq ActiveTurns' \cup TurnsOf("turn_interrupted")'
            <4>1. w = "init"
                BY <1>3, <3>2, RestoringAlone, StoreWrites
            <4>2. r.type \in {"steering_abandoned", "turn_interrupted"}
                BY <1>3, <4>1 DEF Asks
            <4> QED BY <2>3, <4>2, TurnsGrow DEF ActiveTurns, TerminalTurns
        <3>3. \A j \in TypesOf("steering_consumed")' :
                \/ j \in TypesOf("steering_consumed") /\ journal'[j] = journal[j]
                \/ journal'[j] = r /\ r.type = "steering_consumed"
            BY <2>3, JournalGrows DEF TypesOf
        <3>4. ASSUME r.type = "steering_consumed" PROVE r.turn = cmd[r.id].turn \/ cmd[r.id].turn \in TurnsOf("turn_interrupted")
            <4>1. pc = "consuming" /\ r.id = Head(steering).id /\ r.turn = active
                BY <1>3, <3>4, AsksWhat
            <4>2. up = "up" /\ steering # <<>> /\ Writable
                BY <1>3, <2>3, <4>1 DEF Shape, Placed, Writable
            <4>3. Head(steering) = steering[1] /\ 1 \in DOMAIN steering
                BY <4>2, QueueIs
            <4>4. cmd[r.id].turn = steering[1].turn
                BY <4>1, <4>3 DEF Queued
            <4>5. steering[1].turn \in TurnsOf("turn_interrupted") \/ steering[1].turn = active
                BY <4>2, <4>3 DEF Crossing
            <4> QED BY <4>1, <4>4, <4>5
        <3>5. \A j \in TypesOf("steering_consumed")' :
                \/ journal'[j].turn = cmd'[journal'[j].id].turn
                \/ cmd'[journal'[j].id].turn \in TurnsOf("turn_interrupted")'
            BY <1>1, <3>1, <3>3, <3>4 DEF Crossing
        <3>6. ASSUME up = "up", Writable', NEW i \in DOMAIN steering
              PROVE  \/ steering[i].turn \in TurnsOf("turn_interrupted")'
                     \/ steering[i].turn = active /\ pc \notin {"settle", "none"}
            BY <2>1, <3>1, <3>6 DEF Crossing
        <3>7. ASSUME up = "restoring", NEW i \in DOMAIN steering
              PROVE  steering[i].turn \in ActiveTurns' \cup TurnsOf("turn_interrupted")'
            BY <3>2, <3>7 DEF Crossing
        <3> QED BY <1>1, <3>5, <3>6, <3>7 DEF Crossing
    <2> QED BY <1>3, <2>2, <2>3
<1> QED
    BY <1>2, <1>3, StoreWrites

\* Restoration: the turns whose directions are pending are cut off, and on record
\* as such when the engine is ready.
LEMMA RestartCrossing ==
    ASSUME Shape, Asking, TurnRecords, Admitted, Crossing, CommandsStay, Exit \/ Start \/ Ready
    PROVE  Crossing'
<1>1. UNCHANGED journal
    BY DEF Exit, Start, Ready, durable
<1>2. /\ TurnsOf("turn_interrupted")' = TurnsOf("turn_interrupted") /\ ActiveTurns' = ActiveTurns
      /\ \A j \in TypesOf("steering_consumed")' :
             \/ journal'[j].turn = cmd'[journal'[j].id].turn
             \/ cmd'[journal'[j].id].turn \in TurnsOf("turn_interrupted")'
    BY <1>1, ConsumedStay, JournalStays
<1>3. CASE Exit
    <2>1. up' = "down"
        BY <1>3 DEF Exit
    <2> QED BY <1>2, <2>1 DEF Crossing
<1>4. CASE Start
    <2>1. up' = "restoring"
        BY <1>4 DEF Start
    <2>2. \A k \in DOMAIN steering' : steering'[k].turn \in ActiveTurns
        BY <1>4, StartedIs DEF PendingPlaces
    <2> QED BY <1>2, <2>1, <2>2 DEF Crossing
<1>5. CASE Ready
    <2>1. up = "restoring" /\ up' = "up" /\ todo = <<>> /\ reply["init"] \in {"none", "ok"} /\ UNCHANGED steering
        BY <1>5 DEF Ready
    <2>2. Left = {} /\ LeftTurns = {}
        BY <2>1 DEF Left, LeftTurns
    <2>3. DOMAIN tail = {}
        BY <2>1, RestoringAlone
    <2>4. SentTurns = {}
        BY <2>3 DEF Sent, SentTurns
    <2>5. ActiveTurns = {}
        BY <2>1, <2>2, <2>4 DEF TurnRecords, Interrupts
    <2>6. \A i \in DOMAIN steering : steering[i].turn \in TurnsOf("turn_interrupted")
        BY <2>1, <2>5 DEF Crossing
    <2> QED BY <1>2, <2>1, <2>6 DEF Crossing
<1> QED
    BY <1>3, <1>4, <1>5

\* Every step keeps the queue to the turns it may steer.
LEMMA NextCrossing ==
    ASSUME Shape, Asking, TurnRecords, Stopping, Admitted, Queued, Crossing, [Next]_vars
    PROVE  Crossing'
<1>0. CommandsStay
    BY CommandsMove
<1>1. CASE Store
    BY <1>1, StoreCrossing
<1>2. CASE Exit \/ Start \/ Ready
    BY <1>0, <1>2, RestartCrossing
<1>3. ASSUME NEW s \in Steers, SteerCall(s) \/ SteerWritten(s) \/ SteerAbandoned(s) PROVE Crossing'
    <2>1. PICK c : SteerStep(s, c)
        BY <1>3, SteerDoes
    <2>2. UNCHANGED <<journal, up, pc, active, failed, closed>>
        BY <2>1 DEF SteerStep
    <2>3. ASSUME NEW i \in DOMAIN steering'
          PROVE  \/ \E k \in DOMAIN steering : steering'[i] = steering[k]
                 \/ steering'[i].turn = active' /\ pc' \notin {"settle", "none"} /\ up = "up"
        <3>1. CASE UNCHANGED steering
            BY <2>3, <3>1
        <3>2. CASE /\ cmd[s].st = "accepting" /\ active = cmd[s].turn /\ ~finalized
                   /\ steering' = Append(steering, Item(s, cmd[s].turn))
            <4>1. active # None /\ up = "up"
                BY <3>2, CommandTyped
            <4>2. pc \notin {"settle", "none"}
                BY <3>2, <4>1 DEF Shape, Placed, Finalizing
            <4>3. (i \in DOMAIN steering /\ steering'[i] = steering[i]) \/ steering'[i].turn = cmd[s].turn
                BY <2>3, <3>2, QueueGrows
            <4> QED BY <2>2, <3>2, <4>1, <4>2, <4>3
        <3> QED BY <2>1, <3>1, <3>2 DEF SteerStep
    <2> QED BY <1>0, <2>2, <2>3, CrossingKept DEF Writable
<1>4. CASE DropDone
    <2>1. pc = "drop" /\ UNCHANGED <<journal, up, failed, closed>> /\ up = "up"
        BY <1>4 DEF DropDone, durable, store, Shape, Placed
    <2>2. ASSUME Writable, NEW k \in DOMAIN steering' PROVE steering'[k].turn \in TurnsOf("turn_interrupted")
        <3>1. PICK i \in DOMAIN steering : steering'[k] = steering[i] /\ steering[i].turn # active
            BY <1>4, <2>2, DropDoneIs
        <3> QED BY <2>1, <2>2, <3>1 DEF Crossing
    <2>3. /\ TurnsOf("turn_interrupted")' = TurnsOf("turn_interrupted")
          /\ \A j \in TypesOf("steering_consumed")' :
                 \/ journal'[j].turn = cmd'[journal'[j].id].turn
                 \/ cmd'[journal'[j].id].turn \in TurnsOf("turn_interrupted")'
        BY <1>0, <2>1, ConsumedStay, JournalStays
    <2> QED BY <2>1, <2>2, <2>3 DEF Crossing, Writable
<1>5. CASE ConsumeNext \/ ConsumeWritten \/ FinalizeOnce \/ CommitWritten \/ DropNext \/ DropWritten
    <2>1. UNCHANGED <<journal, up, active, failed, closed>>
        BY <1>5 DEF ConsumeNext, ConsumeWritten, FinalizeOnce, CommitWritten, DropNext, DropWritten, durable, store
    <2>2. Writable' => pc' \notin {"settle", "none"}
        <3>1. Got("turn", "err") => ~Writable'
            BY <2>1 DEF Got, Stopping, Writable, Activities
        <3>2. DropWritten /\ ~Got("turn", "err") => pc' = "drop"
            BY DEF DropWritten
        <3>3. ConsumeNext \/ ConsumeWritten \/ FinalizeOnce \/ CommitWritten \/ DropNext => pc' \notin {"settle", "none"}
            BY DEF ConsumeNext, ConsumeWritten, FinalizeOnce, CommitWritten, DropNext, Goto, Throw, Finalize, CommitFault
        <3> QED BY <1>5, <3>1, <3>2, <3>3
    <2>3. steering' = steering \/ (steering # <<>> /\ steering' = Tail(steering))
        BY <1>5 DEF ConsumeNext, ConsumeWritten, FinalizeOnce, CommitWritten, DropNext, DropWritten, Shape, Placed
    <2>4. \A i \in DOMAIN steering' : \E k \in DOMAIN steering : steering'[i] = steering[k]
        BY <2>3, QueueIs
    <2> QED BY <1>0, <2>1, <2>2, <2>4, CrossingKept DEF Writable
<1>6. CASE Submit \/ Moving \/ Settle
    <2>1. UNCHANGED <<journal, up, steering, failed, closed>>
        BY <1>6, MovingIsMove DEF Submit, TurnMove, Settle, durable, store
    <2>2. pc \notin {"settle", "none"} => active' = active /\ pc' \notin {"settle", "none"}
        BY <1>6, MovingIsMove DEF Submit, TurnMove, Settle, Open, Shape, Placed
    <2> QED BY <1>0, <2>1, <2>2, CrossingKept DEF Writable
<1>7. CASE (\E t \in Turns : ToolsClosed(t)) \/ Cancel
    <2>1. UNCHANGED <<journal, up, steering, failed, closed, pc>>
        BY <1>7 DEF ToolsClosed, Cancel, durable, store
    <2>2. pc # "none" => active' = active
        BY <1>7 DEF ToolsClosed, Cancel, Shape, Placed
    <2> QED BY <1>0, <2>1, <2>2, CrossingKept DEF Writable
<1>8. CASE Shutdown \/ ShutdownJoin \/ ShutdownClose \/ RestoreNext \/ UNCHANGED vars
    <2>1. UNCHANGED <<journal, up, steering, failed, closed, pc, active>>
        BY <1>8 DEF Shutdown, ShutdownJoin, ShutdownClose, RestoreNext, vars, durable, store, turnVars
    <2> QED BY <1>0, <2>1, CrossingKept DEF Writable
<1> QED
    BY <1>1, <1>2, <1>3, <1>4, <1>5, <1>6, <1>7, <1>8, NextIsSteps DEF Steps

----------------------------------------------------------------------------
(* A turn that completes has served its directions. *)

\* No command changes, and the queue loses only what was consumed while the turn
\* is open.
LEMMA ServingKept ==
    ASSUME Serving, UNCHANGED <<journal, cmd>>, active' = active \/ active' = None,
           active # None =>
             /\ ~finalized' => /\ ~finalized
                               /\ \A k \in DOMAIN steering : \/ \E i \in DOMAIN steering' : steering'[i].id = steering[k].id
                                                             \/ steering[k].id \in IdsOf("steering_consumed")
             /\ pc' \in {"finalize", "commit"} /\ outcome' = "completed" =>
                  \/ pc \in {"finalize", "commit"} /\ outcome = "completed"
                  \/ ~finalized /\ steering = <<>>
    PROVE  Serving'
<1>1. IdsOf("steering_consumed")' = IdsOf("steering_consumed")
    BY IdsStay
<1>2. DirectionServed'
    BY DEF Serving, DirectionServed
<1>3. ASSUME active' # None, NEW s \in Steers, cmd[s].st = "accepted", cmd[s].turn = active'
      PROVE  /\ ~finalized' => (\E i \in DOMAIN steering' : steering'[i].id = s) \/ s \in IdsOf("steering_consumed")
             /\ pc' \in {"finalize", "commit"} /\ outcome' = "completed" => s \in IdsOf("steering_consumed")
    <2>1. /\ ~finalized => (\E i \in DOMAIN steering : steering[i].id = s) \/ s \in IdsOf("steering_consumed")
          /\ pc \in {"finalize", "commit"} /\ outcome = "completed" => s \in IdsOf("steering_consumed")
        BY <1>3 DEF Serving
    <2>2. steering = <<>> => ~\E i \in DOMAIN steering : TRUE
        OBVIOUS
    <2>3. ASSUME ~finalized' PROVE (\E i \in DOMAIN steering' : steering'[i].id = s) \/ s \in IdsOf("steering_consumed")
        BY <1>3, <2>1, <2>3
    <2> QED BY <1>3, <2>1, <2>2, <2>3
<1> QED
    BY <1>1, <1>2, <1>3 DEF Serving

\* The outcome reaches the journal.
LEMMA StoreServing ==
    ASSUME Shape, Asking, Serving, Store
    PROVE  Serving'
<1>1. UNCHANGED <<steering, pc, active, finalized, outcome, cmd>>
    BY StoreWrites DEF turnVars
<1>2. CASE UNCHANGED journal
    BY <1>1, <1>2, ServingKept
<1>3. ASSUME NEW w \in Activities, NEW r \in Records, Asks(w, r), journal' = Append(journal, r)
      PROVE  Serving'
    <2>1. IdsOf("steering_consumed") \subseteq IdsOf("steering_consumed")'
        BY <1>3, IdsGrow
    <2>2. /\ Len(journal) \in Nat /\ DOMAIN journal = 1 .. Len(journal)
          /\ \A i \in DOMAIN journal : journal'[i] = journal[i]
          /\ \A i \in DOMAIN journal' : i \in DOMAIN journal \/ i = Len(journal) + 1
          /\ journal'[Len(journal) + 1] = r
        BY <1>3, JournalGrows
    <2>3. ASSUME NEW i \in DOMAIN journal', NEW s \in Steers,
                 journal'[i].type = "turn_outcome", journal'[i].id = "completed",
                 cmd[s].st = "accepted", cmd[s].turn = journal'[i].turn
          PROVE  \E j \in 1 .. i - 1 : journal'[j].type = "steering_consumed" /\ journal'[j].id = s
        <3>1. CASE i \in DOMAIN journal
            <4>1. PICK j \in 1 .. i - 1 : journal[j].type = "steering_consumed" /\ journal[j].id = s
                BY <2>2, <2>3, <3>1 DEF Serving, DirectionServed
            <4>2. j \in DOMAIN journal
                BY <2>2, <3>1
            <4> QED BY <2>2, <4>1, <4>2
        <3>2. CASE i = Len(journal) + 1
            <4>1. r.type = "turn_outcome" /\ r.id = "completed" /\ cmd[s].turn = r.turn
                BY <2>2, <2>3, <3>2
            <4>2. pc = "commit" /\ outcome = "completed" /\ active = cmd[s].turn
                BY <1>3, <4>1, AsksWhat
            <4>3. active # None
                BY <4>2, ActiveTyped
            <4>4. s \in IdsOf("steering_consumed")
                BY <2>3, <4>2, <4>3 DEF Serving
            <4>5. PICK j \in DOMAIN journal : journal[j].type = "steering_consumed" /\ journal[j].id = s
                BY <4>4, IdsOfIs
            <4>6. j \in 1 .. i - 1
                BY <2>2, <3>2
            <4> QED BY <2>2, <4>5, <4>6
        <3> QED BY <2>2, <3>1, <3>2
    <2>4. DirectionServed'
        BY <1>1, <2>3 DEF DirectionServed
    <2> QED BY <1>1, <2>1, <2>4 DEF Serving
<1> QED
    BY <1>2, <1>3, StoreWrites

\* A command is told that it was accepted while its turn is open: no outcome of
\* that turn is on record.
LEMMA SteerServing ==
    ASSUME Shape, TurnRecords, Serving, NEW s \in Steers, NEW c, SteerStep(s, c)
    PROVE  Serving'
<1>1. UNCHANGED <<journal, pc, active, finalized, outcome>> /\ cmd'[s] = c /\ \A v \in Steers : v # s => cmd'[v] = cmd[v]
    BY DEF SteerStep, Shape, TypeOK, SteeringTypes
<1>2. IdsOf("steering_consumed")' = IdsOf("steering_consumed")
    BY <1>1, IdsStay
<1>3. c.st = "accepted" => cmd[s].st = "accepting" /\ ~finalized /\ active = c.turn /\ steering' = Append(steering, Item(s, cmd[s].turn))
    BY DEF SteerStep
<1>4. c.st # "accepted" => UNCHANGED steering
    BY DEF SteerStep
<1>5. \A k \in DOMAIN steering : \E i \in DOMAIN steering' : steering'[i].id = steering[k].id
    BY <1>3, <1>4, QueueGrows
<1>6. c.st = "accepted" => (\E i \in DOMAIN steering' : steering'[i].id = s) /\ active # None
    <2>1. c.st = "accepted" => active # None
        BY <1>3, CommandTyped DEF SteerStep
    <2>2. ASSUME c.st = "accepted" PROVE Len(steering) + 1 \in DOMAIN steering' /\ steering'[Len(steering) + 1].id = s
        BY <1>3, <2>2, QueueGrows
    <2> QED BY <2>1, <2>2
<1>7. c.st = "accepted" => active \notin TurnsOf("turn_outcome") /\ pc \notin {"finalize", "commit"}
    BY <1>3, <1>6 DEF TurnRecords, Recorded, Terminal, Shape, Placed, Finalizing, Dropped
<1>8. DirectionServed'
    <2>1. ASSUME NEW i \in DOMAIN journal, NEW v \in Steers,
                 journal[i].type = "turn_outcome", journal[i].id = "completed",
                 cmd'[v].st = "accepted", cmd'[v].turn = journal[i].turn
          PROVE  \E j \in 1 .. i - 1 : journal[j].type = "steering_consumed" /\ journal[j].id = v
        <3>1. v # s
            <4>1. journal[i].turn \in TurnsOf("turn_outcome")
                BY <2>1, TurnsOfIs
            <4> QED BY <1>1, <1>3, <1>7, <2>1, <4>1
        <3> QED BY <1>1, <2>1, <3>1 DEF Serving, DirectionServed
    <2> QED BY <1>1, <2>1 DEF DirectionServed
<1>9. ASSUME active # None, NEW v \in Steers, cmd'[v].st = "accepted", cmd'[v].turn = active
      PROVE  /\ ~finalized => (\E i \in DOMAIN steering' : steering'[i].id = v) \/ v \in IdsOf("steering_consumed")
             /\ pc \in {"finalize", "commit"} /\ outcome = "completed" => v \in IdsOf("steering_consumed")
    <2>1. CASE v = s
        BY <1>1, <1>6, <1>7, <1>9, <2>1
    <2>2. CASE v # s
        <3>1. /\ ~finalized => (\E i \in DOMAIN steering : steering[i].id = v) \/ v \in IdsOf("steering_consumed")
              /\ pc \in {"finalize", "commit"} /\ outcome = "completed" => v \in IdsOf("steering_consumed")
            BY <1>1, <1>9, <2>2 DEF Serving
        <3> QED BY <1>5, <3>1
    <2> QED BY <2>1, <2>2
<1> QED
    BY <1>1, <1>2, <1>8, <1>9 DEF Serving

\* The loop completes a turn with nothing queued only.
LEMMA MoveServing ==
    ASSUME Shape, Serving, TurnMove
    PROVE  Serving'
<1>1. UNCHANGED <<journal, cmd, active, steering>> /\ pc \in Open
    BY DEF TurnMove, durable
<1>2. active # None => ~finalized /\ pc \notin {"finalize", "commit"}
    BY <1>1 DEF Open, Shape, Placed, Finalizing
<1>3. pc' \in {"finalize", "commit"} /\ outcome' = "completed" => steering = <<>>
    BY DEF TurnMove, Open, Awaiting
<1> QED
    BY <1>1, <1>2, <1>3, ServingKept

\* Every step keeps what completion relies on.
LEMMA NextServing ==
    ASSUME Shape, Asking, TurnRecords, Queued, Serving, [Next]_vars
    PROVE  Serving'
<1>1. CASE Store
    BY <1>1, StoreServing
<1>2. ASSUME NEW s \in Steers, SteerCall(s) \/ SteerWritten(s) \/ SteerAbandoned(s) PROVE Serving'
    BY <1>2, SteerDoes, SteerServing
<1>3. CASE Moving
    BY <1>3, MovingIsMove, MoveServing
<1>4. CASE ConsumeWritten
    <2>1. CASE TurnMove
        BY <2>1, MoveServing
    <2>2. CASE /\ Got("turn", "ok") /\ pc = "consuming" /\ pc' = "consume" /\ steering # <<>> /\ steering' = Tail(steering)
               /\ UNCHANGED <<durable, store, active, finalized, cancelled, ret, steps, outcome, woken,
                              begun, up, state, closing, cmd, stop, awaited, todo>>
        <3>1. UNCHANGED <<journal, cmd, active, finalized>>
            BY <2>2 DEF durable
        <3>2. steering[1].id \in IdsOf("steering_consumed")
            BY <2>2, QueueIs DEF Queued, Got
        <3>3. ASSUME NEW k \in DOMAIN steering, k # 1 PROVE \E i \in DOMAIN steering' : steering'[i].id = steering[k].id
            <4>1. k - 1 \in DOMAIN steering' /\ steering'[k - 1] = steering[(k - 1) + 1]
                BY <2>2, <3>3, QueueIs
            <4>2. (k - 1) + 1 = k
                BY QueueIs
            <4> QED BY <4>1, <4>2
        <3> QED BY <2>2, <3>1, <3>2, <3>3, ServingKept
    <2> QED BY <1>4, <2>1, <2>2, ConsumeWrittenIs
<1>5. CASE Submit
    <2>1. active' = turns + 1 /\ UNCHANGED <<journal, cmd>> /\ turns \in Nat
        BY <1>5 DEF Submit, Shape, TypeOK, EngineTypes
    <2>2. \A s \in Steers : cmd[s].turn # turns + 1
        <3>1. ASSUME NEW s \in Steers PROVE cmd[s].turn # None => cmd[s].turn <= turns /\ cmd[s].turn \in Nat
            <4>1. cmd[s].turn \in Turns \cup {None} /\ (cmd[s].turn # None => cmd[s].turn <= turns)
                BY CommandTyped
            <4> QED BY <4>1 DEF Turns
        <3>2. turns + 1 # None
            BY <2>1, NoneAssumption
        <3> QED BY <2>1, <3>1, <3>2
    <2>3. DirectionServed'
        BY <2>1 DEF Serving, DirectionServed
    <2> QED BY <2>1, <2>2, <2>3 DEF Serving
<1>6. CASE Exit
    <2>1. active' = None /\ UNCHANGED journal /\ cmd' = Lost
        BY <1>6 DEF Exit, Fresh, durable
    <2>2. \A s \in Steers : cmd'[s].st = "accepted" => cmd'[s] = cmd[s]
        <3>1. ASSUME NEW s \in Steers, cmd'[s].st = "accepted" PROVE cmd'[s] = cmd[s]
            <4>1. [cmd[s] EXCEPT !.st = "lost"].st = "lost"
                BY CommandTyped DEF Commands
            <4>2. cmd'[s] = IF cmd[s].st \in {"accepting", "abandoning"} THEN [cmd[s] EXCEPT !.st = "lost"] ELSE cmd[s]
                BY <2>1 DEF Lost
            <4> QED BY <3>1, <4>1, <4>2
        <3> QED BY <3>1
    <2>3. DirectionServed'
        BY <2>1, <2>2 DEF Serving, DirectionServed
    <2> QED BY <2>1, <2>3 DEF Serving
<1>7. CASE ConsumeNext
    <2>1. UNCHANGED <<journal, cmd, active, finalized, steering, outcome>> /\ pc' = "consuming"
        BY <1>7 DEF ConsumeNext, durable
    <2> QED BY <2>1, ServingKept
<1>8. CASE FinalizeOnce \/ CommitWritten \/ DropNext \/ DropWritten \/ DropDone \/ Settle
    <2>1. UNCHANGED <<journal, cmd, active, finalized>>
        BY <1>8 DEF FinalizeOnce, CommitWritten, DropNext, DropWritten, DropDone, Settle, durable
    <2>2. active # None => finalized
        BY <1>8 DEF FinalizeOnce, CommitWritten, DropNext, DropWritten, DropDone, Settle, Shape, Placed, Finalizing
    <2>3. pc' \in {"finalize", "commit"} /\ outcome' = "completed" => pc \in {"finalize", "commit"} /\ outcome = "completed"
        BY <1>8 DEF FinalizeOnce, CommitWritten, CommitFault, DropNext, DropWritten, DropDone, Settle
    <2> QED BY <2>1, <2>2, <2>3, ServingKept
<1>9. CASE (\E t \in Turns : ToolsClosed(t)) \/ Cancel
    <2>1. UNCHANGED <<journal, cmd, steering, pc, outcome>> /\ (UNCHANGED <<active, finalized>> \/ active' = None)
        BY <1>9 DEF ToolsClosed, Cancel, durable
    <2>2. CASE active' = None
        <3>1. DirectionServed'
            BY <2>1 DEF Serving, DirectionServed
        <3> QED BY <2>2, <3>1 DEF Serving
    <2>3. CASE UNCHANGED <<active, finalized>>
        BY <2>1, <2>3, ServingKept
    <2> QED BY <2>1, <2>2, <2>3
<1>10. CASE Shutdown \/ ShutdownJoin \/ ShutdownClose \/ RestoreNext \/ Ready \/ Start \/ UNCHANGED vars
    <2>1. UNCHANGED <<journal, cmd, pc, outcome, active, finalized>>
        BY <1>10 DEF Shutdown, ShutdownJoin, ShutdownClose, RestoreNext, Ready, Start, vars, durable, turnVars
    <2>2. Start => active = None
        BY DEF Start, Shape, Placed
    <2>3. active # None => UNCHANGED steering
        BY <1>10, <2>2 DEF Shutdown, ShutdownJoin, ShutdownClose, RestoreNext, Ready, vars
    <2> QED BY <2>1, <2>3, ServingKept
<1> QED
    BY <1>1, <1>2, <1>3, <1>4, <1>5, <1>6, <1>7, <1>8, <1>9, <1>10, NextIsSteps DEF Steps

----------------------------------------------------------------------------
(* The queue and the admissions stay within maxSteering. *)

\* Commands in flight are finitely many.
LEMMA InFlightFinite ==
    ASSUME NEW t
    PROVE  IsFiniteSet(InFlight(t)) /\ Cardinality(InFlight(t)) \in Nat
<1>1. InFlight(t) \in SUBSET Steers
    BY DEF InFlight
<1>2. IsFiniteSet(InFlight(t))
    BY <1>1, SteersAssumption, FS_Subset
<1> QED
    BY <1>2, FS_CardinalityType

\* The same in the next state.
LEMMA InFlightFiniteNext ==
    ASSUME NEW t
    PROVE  IsFiniteSet(InFlight(t)') /\ Cardinality(InFlight(t)') \in Nat
<1>1. InFlight(t)' \in SUBSET Steers
    BY DEF InFlight
<1>2. IsFiniteSet(InFlight(t)')
    BY <1>1, SteersAssumption, FS_Subset
<1> QED
    BY <1>2, FS_CardinalityType

\* A restart finds finitely many directions.
LEMMA RestorableFinite ==
    ASSUME Shape, NEW t
    PROVE  IsFiniteSet(Restorable(t)) /\ Cardinality(Restorable(t)) \in Nat
<1>1. Len(journal) \in Nat /\ DOMAIN journal = 1 .. Len(journal)
    BY DEF Shape, TypeOK, JournalTypes
<1>2. Restorable(t) \subseteq 1 .. Len(journal)
    BY <1>1 DEF Restorable, TypesOf
<1> QED
    BY <1>1, <1>2, PlacesListed

\* Directions that are each queued or in flight are no more than those together.
LEMMA FewPlaced ==
    ASSUME Shape, NEW R, NEW f \in [R -> Steers], \A i, j \in R : f[i] = f[j] => i = j,
           \A i \in R : (\E k \in DOMAIN steering : steering[k].id = f[i]) \/ f[i] \in InFlight(active)
    PROVE  Cardinality(R) <= Len(steering) + Cardinality(InFlight(active))
<1> DEFINE D == DOMAIN steering
           g == [k \in D |-> steering[k].id]
           Q == {steering[k].id : k \in D}
           A == InFlight(active)
<1>1. Len(steering) \in Nat /\ D = 1 .. Len(steering)
    BY QueueIs
<1>2. IsFiniteSet(D) /\ Cardinality(D) = Len(steering)
    <2>1. \A n \in Nat : IsFiniteSet(1 .. n) /\ Cardinality(1 .. n) = IF 1 > n THEN 0 ELSE n - 1 + 1
        BY FS_Interval
    <2>2. \A n \in Nat : Cardinality(1 .. n) = n
        BY <2>1
    <2> QED BY <1>1, <2>1, <2>2
<1>3. g \in Surjection(D, Q)
    BY DEF Surjection
<1>4. IsFiniteSet(Q) /\ Cardinality(Q) <= Len(steering)
    <2> HIDE DEF D, g, Q
    <2> QED BY <1>2, <1>3, FS_Surjection
<1>5. f \in Injection(R, Q \cup A)
    <2>1. \A i \in R : f[i] \in Q \cup A
        OBVIOUS
    <2>2. f \in [R -> Q \cup A]
        <3> HIDE DEF Q, A
        <3> QED BY <2>1
    <2>3. IsInjective(f)
        BY DEF IsInjective
    <2> QED BY <2>2, <2>3 DEF Injection
<1>6. IsFiniteSet(A) /\ Cardinality(A) \in Nat
    BY InFlightFinite
<1> HIDE DEF D, g, Q, A
<1>7. /\ IsFiniteSet(Q \cup A) /\ Cardinality(Q \cup A) = Cardinality(Q) + Cardinality(A) - Cardinality(Q \cap A)
    BY <1>4, <1>6, FS_Union
<1>8. Cardinality(Q) \in Nat /\ Cardinality(Q \cap A) \in Nat /\ Cardinality(Q \cup A) \in Nat
    <2>1. Q \cap A \in SUBSET Q
        OBVIOUS
    <2>2. IsFiniteSet(Q \cap A)
        BY <1>4, <2>1, FS_Subset
    <2> QED BY <1>4, <1>7, <2>2, FS_CardinalityType
<1>9. IsFiniteSet(R) /\ Cardinality(R) <= Cardinality(Q \cup A)
    BY <1>5, <1>7, FS_Injection
<1>10. Cardinality(R) \in Nat
    BY <1>9, FS_CardinalityType
<1>11. Cardinality(R) <= Len(steering) + Cardinality(A)
    BY <1>1, <1>4, <1>6, <1>7, <1>8, <1>9, <1>10
<1> QED
    BY <1>11 DEF A

\* No record and no command changes, and the queue only shrinks: by what is
\* disposed of, while the turn is not committed.
LEMMA BoundedKept ==
    ASSUME Shape, Shape', Bounded, UNCHANGED <<journal, cmd>>, Writable' => Writable,
           active' = active \/ active' = None, Len(steering') <= Len(steering),
           Writable' /\ pc' \in Uncommitted =>
             /\ pc \in Uncommitted /\ active' = active
             /\ \A k \in DOMAIN steering : \/ \E i \in DOMAIN steering' : steering'[i].id = steering[k].id
                                           \/ steering[k].id \in Disposed
    PROVE  Bounded'
<1>1. /\ ActiveTurns' = ActiveTurns /\ Disposed' = Disposed
      /\ TypesOf("steering_accepted")' = TypesOf("steering_accepted")
    BY IdsStay, JournalStays
<1>2. \A t : Restorable(t)' = Restorable(t) /\ InFlight(t)' = InFlight(t)
    BY <1>1 DEF Restorable, InFlight
<1>3. Single' /\ Few'
    BY <1>1, <1>2 DEF Bounded, Single, Few
<1>4. Len(steering) \in Nat /\ Len(steering') \in Nat /\ MaxSteering \in Nat
    BY StepsAssumption DEF Shape, TypeOK, SteeringTypes
<1>5. Filled'
    <2>1. Cardinality(InFlight(active)) \in Nat
        BY InFlightFinite
    <2>2. Len(steering) <= MaxSteering /\ (active # None => Len(steering) + Cardinality(InFlight(active)) <= MaxSteering)
        BY DEF Bounded, Filled, SteeringBounded, Admissions
    <2>3. active' # None => InFlight(active)' = InFlight(active) /\ active # None
        BY <1>2 DEF InFlight
    <2>4. active' # None => Len(steering') + Cardinality(InFlight(active)') <= MaxSteering
        BY <1>4, <2>1, <2>2, <2>3
    <2>5. Len(steering') <= MaxSteering
        BY <1>4, <2>2
    <2> QED BY <2>4, <2>5 DEF Filled, SteeringBounded, Admissions
<1>6. Placing'
    <2>1. ASSUME Writable', pc' \in Uncommitted, NEW i \in Restorable(active)
          PROVE  (\E k \in DOMAIN steering' : steering'[k].id = journal[i].id) \/ journal[i].id \in InFlight(active)
        <3>1. (\E k \in DOMAIN steering : steering[k].id = journal[i].id) \/ journal[i].id \in InFlight(active)
            BY <2>1 DEF Bounded, Placing
        <3>2. journal[i].id \notin Disposed
            BY DEF Restorable
        <3> QED BY <2>1, <3>1, <3>2
    <2>2. Writable' /\ pc' \in Uncommitted => Restorable(active)' = Restorable(active) /\ InFlight(active)' = InFlight(active)
        BY <1>1 DEF Restorable, InFlight
    <2> QED BY <2>1, <2>2 DEF Placing
<1> QED
    BY <1>3, <1>5, <1>6 DEF Bounded

\* A new turn has no directions yet.
LEMMA SubmitBounded ==
    ASSUME Shape, Admitted, Bounded, Submit
    PROVE  Bounded'
<1>1. active' = turns + 1 /\ UNCHANGED <<journal, cmd, steering>> /\ turns \in Nat
    BY DEF Submit, Shape, TypeOK, EngineTypes
<1>2. \A s \in Steers : cmd[s].turn # turns + 1
    <2>1. ASSUME NEW s \in Steers PROVE cmd[s].turn # None => cmd[s].turn <= turns /\ cmd[s].turn \in Nat
        <3>1. cmd[s].turn \in Turns \cup {None} /\ (cmd[s].turn # None => cmd[s].turn <= turns)
            BY CommandTyped
        <3> QED BY <3>1 DEF Turns
    <2>2. turns + 1 # None
        BY <1>1, NoneAssumption
    <2> QED BY <1>1, <2>1, <2>2
<1>3. /\ ActiveTurns' = ActiveTurns /\ Disposed' = Disposed
      /\ TypesOf("steering_accepted")' = TypesOf("steering_accepted")
    BY <1>1, IdsStay, JournalStays
<1>4. Single' /\ Few'
    <2>1. \A t : Restorable(t)' = Restorable(t)
        BY <1>1, <1>3 DEF Restorable
    <2> QED BY <1>3, <2>1 DEF Bounded, Single, Few
<1>5. Filled'
    <2>1. InFlight(active)' = {}
        BY <1>1, <1>2 DEF InFlight
    <2>2. Cardinality({}) = 0
        BY FS_EmptySet
    <2>3. Len(steering) <= MaxSteering /\ Len(steering) \in Nat
        BY QueueIs DEF Bounded, Filled
    <2> QED BY <1>1, <2>1, <2>2, <2>3 DEF Filled, SteeringBounded, Admissions
<1>6. Restorable(active)' = {}
    <2>1. ASSUME NEW i \in TypesOf("steering_accepted") PROVE journal[i].turn # turns + 1
        <3>1. journal[i].id \in Steers
            BY DisposalTyped DEF TypesOf
        <3> QED BY <1>2, <3>1 DEF Admitted
    <2> QED BY <1>1, <1>3, <2>1 DEF Restorable
<1>7. Placing'
    BY <1>6 DEF Placing
<1> QED
    BY <1>4, <1>5, <1>7 DEF Bounded

\* A restart puts back the directions of the one turn that was cut off.
LEMMA StartBounded ==
    ASSUME Shape, Admitted, Bounded, Start
    PROVE  Bounded'
<1>1. UNCHANGED <<journal, cmd, active, pc>> /\ active = None /\ pc = "none"
    BY DEF Start, turnVars, Shape, Placed
<1>2. /\ ActiveTurns' = ActiveTurns /\ Disposed' = Disposed
      /\ TypesOf("steering_accepted")' = TypesOf("steering_accepted")
    BY <1>1, IdsStay, JournalStays
<1>3. Single' /\ Few'
    <2>1. \A t : Restorable(t)' = Restorable(t)
        BY <1>1, <1>2 DEF Restorable
    <2> QED BY <1>2, <2>1 DEF Bounded, Single, Few
<1>4. Placing'
    BY <1>1 DEF Placing, Uncommitted, Open
<1>5. Cardinality(PendingPlaces) <= MaxSteering
    <2>1. CASE PendingPlaces = {}
        BY <2>1, FS_EmptySet, StepsAssumption
    <2>2. ASSUME NEW j \in PendingPlaces PROVE Cardinality(PendingPlaces) <= MaxSteering
        <3>1. PICK t : t = journal[j].turn
            OBVIOUS
        <3>2. t \in ActiveTurns
            BY <2>2, <3>1 DEF PendingPlaces
        <3>3. PendingPlaces \in SUBSET Restorable(t)
            <4>1. ASSUME NEW i \in PendingPlaces PROVE i \in Restorable(t)
                <5>1. journal[i].turn = t
                    BY <3>2 DEF PendingPlaces, Bounded, Single
                <5> QED BY <5>1 DEF PendingPlaces, Kept, Restorable, Disposed
            <4> QED BY <4>1
        <3>4. Cardinality(Restorable(t)) <= MaxSteering /\ IsFiniteSet(Restorable(t)) /\ Cardinality(Restorable(t)) \in Nat
            BY <3>2, RestorableFinite DEF Bounded, Few
        <3>5. IsFiniteSet(PendingPlaces) /\ Cardinality(PendingPlaces) <= Cardinality(Restorable(t))
            BY <3>3, <3>4, FS_Subset
        <3>6. Cardinality(PendingPlaces) \in Nat
            BY <3>5, FS_CardinalityType
        <3> QED BY <3>4, <3>5, <3>6, StepsAssumption
    <2> QED BY <2>1, <2>2
<1>6. Filled'
    <2>1. Len(steering') <= MaxSteering
        BY <1>5, StartedIs
    <2> QED BY <1>1, <2>1 DEF Filled, SteeringBounded
<1> QED
    BY <1>3, <1>4, <1>6 DEF Bounded

\* A command reserves its place, takes it in the queue or gives it up.
LEMMA SteerBounded ==
    ASSUME Shape, Stopping, Admitted, Bounded, NEW s \in Steers, NEW c, SteerStep(s, c)
    PROVE  Bounded'
<1>1. UNCHANGED <<journal, pc, active, failed, closed>> /\ cmd'[s] = c /\ \A v \in Steers : v # s => cmd'[v] = cmd[v]
    BY DEF SteerStep, Shape, TypeOK, SteeringTypes
<1>2. /\ ActiveTurns' = ActiveTurns /\ Disposed' = Disposed
      /\ TypesOf("steering_accepted")' = TypesOf("steering_accepted")
    BY <1>1, IdsStay, JournalStays
<1>3. \A t : Restorable(t)' = Restorable(t)
    BY <1>1, <1>2 DEF Restorable
<1>4. Single' /\ Few'
    BY <1>2, <1>3 DEF Bounded, Single, Few
<1>5. c.st = "accepted" => steering' = Append(steering, Item(s, cmd[s].turn)) /\ cmd[s].st = "accepting" /\ active = cmd[s].turn
    BY DEF SteerStep
<1>6. c.st # "accepted" => UNCHANGED steering
    BY DEF SteerStep
<1>7. /\ c.st = "accepting" => cmd[s].st = "new" /\ c.turn = active /\ HasRoom
      /\ c.st = "abandoning" => cmd[s].st = "accepting" /\ c.turn = cmd[s].turn
      /\ c.st = "error" => reply[s] = "err"
      /\ c.st = "refused" => cmd[s].st = "new" \/ (cmd[s].st = "abandoning" /\ reply[s] = "ok")
      /\ c.st \in {"accepting", "accepted", "abandoning", "refused", "error"}
    BY DEF SteerStep
<1>8. Filled'
    <2> DEFINE A == InFlight(active)
    <2>1. /\ c.st = "accepting" => s \notin A /\ InFlight(active)' = A \cup {s}
          /\ c.st = "accepted" => s \in A /\ InFlight(active)' = A \ {s}
        BY <1>1, <1>5, <1>7 DEF InFlight
    <2>2. c.st \notin {"accepting", "accepted"} => InFlight(active)' \in SUBSET A
        BY <1>1, <1>7 DEF InFlight
    <2>3. IsFiniteSet(A) /\ Cardinality(A) \in Nat /\ Cardinality(InFlight(active)') \in Nat
        BY <1>1, InFlightFinite, InFlightFiniteNext DEF InFlight
    <2>4. /\ c.st = "accepting" => Len(steering) + Cardinality(A) < MaxSteering
          /\ Len(steering) <= MaxSteering /\ (active # None => Len(steering) + Cardinality(A) <= MaxSteering)
        BY <1>7 DEF HasRoom, Admissions, Bounded, Filled, SteeringBounded
    <2>5. Len(steering) \in Nat /\ MaxSteering \in Nat
        BY QueueIs, StepsAssumption
    <2>6. c.st = "accepted" => Len(steering') = Len(steering) + 1 /\ active # None
        <3>1. c.st = "accepted" => Len(steering') = Len(steering) + 1
            BY <1>5, QueueGrows
        <3>2. c.st = "accepted" => active # None
            BY <1>5, CommandTyped
        <3> QED BY <3>1, <3>2
    <2> HIDE DEF A
    <2>7. /\ Cardinality(A \cup {s}) = IF s \in A THEN Cardinality(A) ELSE Cardinality(A) + 1
          /\ Cardinality(A \ {s}) = IF s \in A THEN Cardinality(A) - 1 ELSE Cardinality(A)
        BY <2>3, FS_AddElement, FS_RemoveElement
    <2>8. c.st \notin {"accepting", "accepted"} => Cardinality(InFlight(active)') <= Cardinality(A)
        BY <2>2, <2>3, FS_Subset
    <2>9. CASE c.st = "accepting"
        <3>1. Cardinality(InFlight(active)') = Cardinality(A) + 1 /\ UNCHANGED steering
            BY <1>6, <2>1, <2>7, <2>9
        <3>2. Len(steering') + Cardinality(InFlight(active)') <= MaxSteering
            BY <2>3, <2>4, <2>5, <2>9, <3>1
        <3> QED BY <2>4, <3>1, <3>2 DEF Filled, SteeringBounded, Admissions
    <2>10. CASE c.st = "accepted"
        <3>1. Cardinality(InFlight(active)') = Cardinality(A) - 1 /\ Len(steering') = Len(steering) + 1 /\ active # None
            BY <2>1, <2>6, <2>7, <2>10
        <3>2. Len(steering') + Cardinality(InFlight(active)') <= MaxSteering /\ Len(steering') <= MaxSteering
            BY <2>3, <2>4, <2>5, <3>1
        <3> QED BY <3>2 DEF Filled, SteeringBounded, Admissions
    <2>11. CASE c.st \notin {"accepting", "accepted"}
        <3>1. Cardinality(InFlight(active)') <= Cardinality(A) /\ UNCHANGED steering
            BY <1>6, <2>8, <2>11
        <3>2. active # None => Len(steering') + Cardinality(InFlight(active)') <= MaxSteering
            BY <2>3, <2>4, <2>5, <3>1
        <3> QED BY <1>1, <2>4, <3>1, <3>2 DEF Filled, SteeringBounded, Admissions
    <2> QED BY <2>9, <2>10, <2>11
<1>9. Placing'
    <2>1. ASSUME Writable, pc \in Uncommitted, NEW i \in Restorable(active)
          PROVE  (\E k \in DOMAIN steering' : steering'[k].id = journal[i].id) \/ journal[i].id \in InFlight(active)'
        <3>1. (\E k \in DOMAIN steering : steering[k].id = journal[i].id) \/ journal[i].id \in InFlight(active)
            BY <2>1 DEF Bounded, Placing
        <3>2. journal[i].id \notin Disposed
            BY DEF Restorable
        <3>3. ASSUME NEW k \in DOMAIN steering PROVE k \in DOMAIN steering' /\ steering'[k] = steering[k]
            BY <1>5, <1>6, QueueGrows
        <3>4. CASE journal[i].id = s /\ s \in InFlight(active)
            <4>1. cmd[s].turn = active /\ cmd[s].st \in {"accepting", "abandoning"}
                BY <3>4 DEF InFlight
            <4>2. c.st # "error"
                BY <1>7, <2>1 DEF Stopping, Writable, Activities
            <4>3. c.st # "refused"
                BY <1>7, <3>2, <3>4, <4>1 DEF Admitted
            <4>4. CASE c.st = "accepted"
                <5>1. Len(steering) + 1 \in DOMAIN steering' /\ steering'[Len(steering) + 1].id = s
                    BY <1>5, <4>4, QueueGrows
                <5> QED BY <3>4, <5>1
            <4>5. CASE c.st = "abandoning"
                BY <1>1, <1>7, <3>4, <4>1, <4>5 DEF InFlight
            <4> QED BY <1>7, <4>1, <4>2, <4>3, <4>4, <4>5
        <3>5. CASE journal[i].id # s /\ journal[i].id \in InFlight(active)
            BY <1>1, <3>5 DEF InFlight
        <3> QED BY <3>1, <3>3, <3>4, <3>5
    <2> QED BY <1>1, <1>3, <2>1 DEF Placing, Writable, Restorable
<1> QED
    BY <1>4, <1>8, <1>9 DEF Bounded

\* What reaches the journal is in the queue or in flight while its turn runs.
LEMMA StoreBounded ==
    ASSUME Shape, Shape', Asking, TurnRecords, TurnRecords', Stopping, Admitted, Queued, Bounded, Store
    PROVE  Bounded'
<1>1. UNCHANGED <<steering, pc, active, up, cmd>>
    BY StoreWrites DEF turnVars
<1>2. CASE UNCHANGED journal
    <2>1. Writable' => Writable
        BY StoreWrites DEF Writable
    <2>2. Len(steering') <= Len(steering)
        BY <1>1, QueueIs
    <2> QED BY <1>1, <1>2, <2>1, <2>2, BoundedKept
<1>3. ASSUME NEW w \in Activities, NEW r \in Records, Asks(w, r), journal' = Append(journal, r), Writable
      PROVE  Bounded'
    <2>1. /\ Len(journal) \in Nat /\ DOMAIN journal = 1 .. Len(journal)
          /\ \A i \in DOMAIN journal : journal'[i] = journal[i]
          /\ \A i \in DOMAIN journal' : i \in DOMAIN journal \/ i = Len(journal) + 1
          /\ journal'[Len(journal) + 1] = r
        BY <1>3, JournalGrows
    <2>2. Disposed \subseteq Disposed'
        BY <1>3, IdsGrow
    <2>3. ASSUME NEW t, NEW i \in Restorable(t)'
          PROVE  i \in Restorable(t) \/ (i = Len(journal) + 1 /\ r.type = "steering_accepted" /\ r.turn = t)
        <3>1. i \in DOMAIN journal' /\ journal'[i].type = "steering_accepted" /\ journal'[i].turn = t /\ journal'[i].id \notin Disposed'
            BY <2>3 DEF Restorable, TypesOf
        <3> QED BY <2>1, <2>2, <3>1 DEF Restorable, TypesOf
    <2>4. r.type = "steering_accepted" =>
            w \in Steers /\ r.id = w /\ cmd[w].st = "accepting" /\ cmd[w].turn = r.turn
        BY <1>3, AsksWhat
    <2>5. ASSUME pc \in Uncommitted, NEW i \in Restorable(active)'
          PROVE  (\E k \in DOMAIN steering : steering[k].id = journal'[i].id) \/ journal'[i].id \in InFlight(active)
        <3>1. CASE i \in Restorable(active)
            <4>1. journal'[i] = journal[i]
                BY <2>1, <3>1 DEF Restorable, TypesOf
            <4> QED BY <1>3, <2>5, <3>1, <4>1 DEF Bounded, Placing
        <3>2. CASE i = Len(journal) + 1 /\ r.type = "steering_accepted" /\ r.turn = active
            <4>1. journal'[i].id = w
                BY <2>1, <2>4, <3>2
            <4> QED BY <2>4, <3>2, <4>1 DEF InFlight
        <3> QED BY <1>1, <2>3, <3>1, <3>2
    <2>6. ASSUME pc \in Uncommitted PROVE Cardinality(Restorable(active)') <= MaxSteering
        <3> DEFINE R == Restorable(active)'
                   f == [i \in R |-> journal'[i].id]
        <3>1. Admitted'
            BY StoreAdmitted
        <3>2. \A i, j \in R : f[i] = f[j] => i = j
            BY <3>1 DEF Admitted, Restorable
        <3>3. f \in [R -> Steers]
            <4>1. ASSUME NEW i \in R PROVE journal'[i].id \in Steers
                <5>1. i \in DOMAIN journal' /\ journal'[i].type = "steering_accepted"
                    BY DEF Restorable, TypesOf
                <5>2. journal'[i] \in Records
                    BY <5>1 DEF Shape, TypeOK, JournalTypes
                <5> QED BY <5>1, <5>2, RecordTyped
            <4> QED BY <4>1
        <3>4. \A i \in R : (\E k \in DOMAIN steering : steering[k].id = f[i]) \/ f[i] \in InFlight(active)
            BY <2>5, <2>6
        <3> HIDE DEF R, f
        <3>5. Cardinality(R) <= Len(steering) + Cardinality(InFlight(active))
            BY <3>2, <3>3, <3>4, FewPlaced
        <3>6. active # None
            BY <2>6, ActiveTyped DEF Uncommitted, Open
        <3>7. Len(steering) + Cardinality(InFlight(active)) <= MaxSteering
            BY <3>6 DEF Bounded, Filled, SteeringBounded, Admissions
        <3>8. Len(steering) \in Nat /\ Cardinality(InFlight(active)) \in Nat /\ MaxSteering \in Nat
            BY QueueIs, InFlightFinite, StepsAssumption
        <3>9. Cardinality(R) \in Nat
            <4>1. Len(journal') \in Nat /\ DOMAIN journal' = 1 .. Len(journal')
                BY DEF Shape, TypeOK, JournalTypes
            <4>2. R \subseteq 1 .. Len(journal')
                BY <4>1 DEF R, Restorable, TypesOf
            <4> QED BY <4>1, <4>2, PlacesListed
        <3>10. Cardinality(R) <= MaxSteering
            BY <3>5, <3>7, <3>8, <3>9
        <3> QED BY <3>10 DEF R
    <2>7. /\ ActiveTurns' \subseteq ActiveTurns \cup (IF r.type = "turn_accepted" THEN {r.turn} ELSE {})
          /\ r.type = "turn_accepted" => r.turn = active /\ pc = "accept" /\ up = "up"
        <3>1. ActiveTurns' \subseteq ActiveTurns \cup (IF r.type = "turn_accepted" THEN {r.turn} ELSE {})
            BY <1>3, TurnsGrow DEF ActiveTurns, TerminalTurns
        <3>2. ASSUME r.type = "turn_accepted" PROVE r.turn = active /\ pc = "accept"
            <4>1. w = "turn"
                BY <1>3, <3>2, AsksWhat DEF Asks
            <4> QED BY <1>3, <3>2, <4>1 DEF Asks, TurnAsks, Rec
        <3>3. pc = "accept" => up = "up"
            BY DEF Shape, Placed
        <3> QED BY <3>1, <3>2, <3>3
    <2>8. Single'
        <3>1. CASE up = "up"
            BY <1>1, <3>1 DEF TurnRecords, Recorded, Single
        <3>2. CASE up # "up"
            BY <2>7, <3>2 DEF Bounded, Single
        <3> QED BY <3>1, <3>2
    <2>9. ASSUME NEW t \in ActiveTurns' PROVE Cardinality(Restorable(t)') <= MaxSteering
        <3>1. CASE t = active /\ pc \in Uncommitted
            BY <1>1, <2>6, <3>1
        <3>2. CASE ~(t = active /\ pc \in Uncommitted)
            <4>1. t \in ActiveTurns
                BY <2>7, <2>9, <3>2 DEF Uncommitted, Open
            <4>2. ~(r.type = "steering_accepted" /\ r.turn = t)
                <5>1. SUFFICES ASSUME r.type = "steering_accepted", r.turn = t PROVE FALSE
                    OBVIOUS
                <5>2. up = "up"
                    BY <2>4, <5>1, CommandTyped
                <5>3. t = active /\ ~Committed
                    BY <4>1, <5>2 DEF TurnRecords, Recorded
                <5>4. pc # "wedged"
                    BY <1>3 DEF Stopping, Writable
                <5>5. pc \in Uncommitted
                    BY <5>3, <5>4 DEF Committed, Dropped, Uncommitted, Open, Shape, TypeOK, TurnTypes, Places
                <5> QED BY <3>2, <5>3, <5>5
            <4>3. Restorable(t)' \in SUBSET Restorable(t)
                BY <2>3, <4>2
            <4>4. IsFiniteSet(Restorable(t)) /\ Cardinality(Restorable(t)) \in Nat /\ Cardinality(Restorable(t)) <= MaxSteering
                BY <4>1, RestorableFinite DEF Bounded, Few
            <4>5. IsFiniteSet(Restorable(t)') /\ Cardinality(Restorable(t)') <= Cardinality(Restorable(t))
                BY <4>3, <4>4, FS_Subset
            <4>6. Cardinality(Restorable(t)') \in Nat
                BY <4>5, FS_CardinalityType
            <4> QED BY <4>4, <4>5, <4>6, StepsAssumption
        <3> QED BY <3>1, <3>2
    <2>10. Filled' /\ Placing'
        <3>1. InFlight(active)' = InFlight(active)
            BY <1>1 DEF InFlight
        <3>2. Filled'
            BY <1>1, <3>1 DEF Bounded, Filled, SteeringBounded, Admissions
        <3>3. Placing'
            BY <1>1, <2>5, <3>1 DEF Placing
        <3> QED BY <3>2, <3>3
    <2> QED BY <2>8, <2>9, <2>10 DEF Bounded, Few
<1> QED
    BY <1>2, <1>3, StoreWrites DEF Writable

\* Every step keeps queue and admissions within the limit.
LEMMA NextBounded ==
    ASSUME Shape, Asking, TurnRecords, Stopping, Admitted, Queued, Bounded, [Next]_vars
    PROVE  Bounded'
<1>0. Shape' /\ TurnRecords'
    BY NextShape, NextTurnRecords
<1>1. CASE Store
    BY <1>0, <1>1, StoreBounded
<1>2. ASSUME NEW s \in Steers, SteerCall(s) \/ SteerWritten(s) \/ SteerAbandoned(s) PROVE Bounded'
    BY <1>2, SteerDoes, SteerBounded
<1>3. CASE Submit
    BY <1>3, SubmitBounded
<1>4. CASE Start
    BY <1>4, StartBounded
<1>5. CASE Exit
    <2>1. active' = None /\ pc' = "none" /\ steering' = <<>> /\ UNCHANGED journal
        BY <1>5 DEF Exit, Fresh, durable
    <2>2. /\ ActiveTurns' = ActiveTurns /\ Disposed' = Disposed
          /\ TypesOf("steering_accepted")' = TypesOf("steering_accepted")
        BY <2>1, IdsStay, JournalStays
    <2>3. \A t : Restorable(t)' = Restorable(t)
        BY <2>1, <2>2 DEF Restorable
    <2>4. Filled'
        BY <2>1, StepsAssumption DEF Filled, SteeringBounded
    <2>5. Placing'
        BY <2>1 DEF Placing, Uncommitted, Open
    <2> QED BY <2>2, <2>3, <2>4, <2>5 DEF Bounded, Single, Few
<1> DEFINE Takes == \A k \in DOMAIN steering : \/ \E i \in DOMAIN steering' : steering'[i].id = steering[k].id
                                               \/ steering[k].id \in Disposed
<1>6. ASSUME UNCHANGED steering PROVE Takes /\ Len(steering') <= Len(steering)
    BY <1>6, QueueIs
<1>7. ASSUME TurnMove PROVE Bounded'
    <2>1. UNCHANGED <<journal, cmd, active, steering, failed, closed>> /\ pc \in Open
        BY <1>7 DEF TurnMove, durable, store
    <2>2. Takes /\ Len(steering') <= Len(steering)
        BY <1>6, <2>1
    <2> QED BY <1>0, <2>1, <2>2, BoundedKept DEF Writable, Uncommitted
<1>8. CASE Moving
    BY <1>7, <1>8, MovingIsMove
<1>9. CASE ConsumeWritten
    <2>1. CASE /\ Got("turn", "ok") /\ pc = "consuming" /\ pc' = "consume" /\ steering # <<>> /\ steering' = Tail(steering)
               /\ UNCHANGED <<durable, store, active, finalized, cancelled, ret, steps, outcome, woken,
                              begun, up, state, closing, cmd, stop, awaited, todo>>
        <3>1. UNCHANGED <<journal, cmd, active, failed, closed>> /\ pc \in Uncommitted
            BY <2>1 DEF durable, store, Uncommitted, Open
        <3>2. steering[1].id \in Disposed
            BY <2>1, QueueIs DEF Queued, Got, Disposed
        <3>3. ASSUME NEW k \in DOMAIN steering, k # 1 PROVE \E i \in DOMAIN steering' : steering'[i].id = steering[k].id
            <4>1. k - 1 \in DOMAIN steering' /\ steering'[k - 1] = steering[(k - 1) + 1]
                BY <2>1, <3>3, QueueIs
            <4>2. (k - 1) + 1 = k
                BY QueueIs
            <4> QED BY <4>1, <4>2
        <3>4. Len(steering') <= Len(steering)
            BY <2>1, QueueIs
        <3> QED BY <1>0, <3>1, <3>2, <3>3, <3>4, BoundedKept DEF Writable
    <2> QED BY <1>7, <1>9, <2>1, ConsumeWrittenIs
<1>10. CASE ConsumeNext \/ FinalizeOnce \/ CommitWritten \/ DropNext \/ DropWritten \/ Settle \/ Cancel
    <2>1. UNCHANGED <<journal, cmd, active, steering, failed, closed>>
        BY <1>10 DEF ConsumeNext, FinalizeOnce, CommitWritten, DropNext, DropWritten, Settle, Cancel, durable, store
    <2>2. pc' \in Uncommitted => pc \in Uncommitted
        BY <1>10 DEF ConsumeNext, FinalizeOnce, CommitWritten, CommitFault, DropNext, DropWritten, Settle, Cancel, Uncommitted, Open
    <2>3. Takes /\ Len(steering') <= Len(steering)
        BY <1>6, <2>1
    <2> QED BY <1>0, <2>1, <2>2, <2>3, BoundedKept DEF Writable
<1>11. CASE DropDone
    <2>1. UNCHANGED <<journal, cmd, active, failed, closed>> /\ pc' \notin Uncommitted
        BY <1>11 DEF DropDone, durable, store, Uncommitted, Open
    <2>2. Len(steering') <= Len(steering)
        BY <1>11, DropDoneIs
    <2> QED BY <1>0, <2>1, <2>2, BoundedKept DEF Writable
<1>12. CASE \E t \in Turns : ToolsClosed(t)
    <2>1. UNCHANGED <<journal, cmd, steering, pc, failed, closed>> /\ (active' = active \/ (active' = None /\ state = "idle"))
        BY <1>12 DEF ToolsClosed, durable, store
    <2>2. pc \in Uncommitted => active' = active
        BY <2>1 DEF Shape, Placed, Uncommitted, Open
    <2>3. Takes /\ Len(steering') <= Len(steering)
        BY <1>6, <2>1
    <2> QED BY <1>0, <2>1, <2>2, <2>3, BoundedKept DEF Writable
<1>13. CASE Shutdown \/ ShutdownJoin \/ ShutdownClose \/ RestoreNext \/ Ready \/ UNCHANGED vars
    <2>1. UNCHANGED <<journal, cmd, steering, pc, active, failed, closed>>
        BY <1>13 DEF Shutdown, ShutdownJoin, ShutdownClose, RestoreNext, Ready, vars, durable, turnVars, store
    <2>2. Takes /\ Len(steering') <= Len(steering)
        BY <1>6, <2>1
    <2> QED BY <1>0, <2>1, <2>2, BoundedKept DEF Writable
<1> QED
    BY <1>1, <1>2, <1>3, <1>4, <1>5, <1>8, <1>9, <1>10, <1>11, <1>12, <1>13, NextIsSteps DEF Steps

----------------------------------------------------------------------------
(* The theorems. *)

\* The whole of the invariant.
SteeringInv == TurnInv /\ Admitted /\ Queued /\ Disposing /\ Crossing /\ Serving /\ Bounded

\* Nothing was given at first.
LEMMA InitSteering == Init => Admitted /\ Queued /\ Disposing /\ Crossing /\ Serving /\ Bounded
<1> SUFFICES ASSUME Init PROVE Admitted /\ Queued /\ Disposing /\ Crossing /\ Serving /\ Bounded
    OBVIOUS
<1>1. /\ journal = <<>> /\ steering = <<>> /\ todo = <<>> /\ tail = <<>> /\ pc = "none" /\ up = "down" /\ active = None
      /\ \A s \in Steers : cmd[s].st = "new"
    BY DEF Init
<1>2. DOMAIN journal = {} /\ DOMAIN steering = {} /\ DOMAIN todo = {} /\ DOMAIN tail = {}
    BY <1>1
<1>3. /\ TypesOf("steering_accepted") = {} /\ TypesOf("steering_consumed") = {} /\ Disposed = {}
      /\ IdsOf("steering_accepted") = {} /\ TodoIds = {} /\ TailIds = {}
    BY <1>2 DEF TypesOf, IdsOf, Disposed, TodoIds, TailIds
<1>4. Admitted
    BY <1>1, <1>3 DEF Admitted
<1>5. Queued
    BY <1>1, <1>2 DEF Queued
<1>6. Disposing
    BY <1>2, <1>3 DEF Disposing
<1>7. Crossing
    BY <1>1, <1>2, <1>3 DEF Crossing
<1>8. Serving
    BY <1>1, <1>2 DEF Serving, DirectionServed
<1>9. Bounded
    <2>1. ActiveTurns = {}
        BY <1>2 DEF ActiveTurns, TurnsOf, TypesOf
    <2> QED BY <1>1, <2>1, StepsAssumption DEF Bounded, Single, Filled, SteeringBounded, Placing, Uncommitted, Open, Few
<1> QED
    BY <1>4, <1>5, <1>6, <1>7, <1>8, <1>9

\* The layers together are inductive.
LEMMA SteeringHolds == Spec => []SteeringInv
<1>1. Init => Admitted /\ Queued /\ Disposing /\ Crossing /\ Serving /\ Bounded
    BY InitSteering
<1>2. TurnInv /\ (Admitted /\ Queued /\ Disposing /\ Crossing /\ Serving /\ Bounded) /\ [Next]_vars
      => (Admitted /\ Queued /\ Disposing /\ Crossing /\ Serving /\ Bounded)'
    BY NextAdmitted, NextQueued, NextDisposing, NextCrossing, NextServing, NextBounded DEF TurnInv
<1> QED
    BY <1>1, <1>2, InvHolds, PTL DEF Spec, SteeringInv

\* #consumeSteering, dropUnconsumedSteering, a late steerEngineTurn and
\* abandonOrphanedSteering between them write one disposal for a direction,
\* whatever crashes, restarts and failed writes come between.
THEOREM DirectionsDisposedOnce == Spec => []DisposedOnce
<1>1. SteeringInv => DisposedOnce
    <2>1. SUFFICES ASSUME Disposing, NEW s \in Steers
                   PROVE  Cardinality({i \in DOMAIN journal : journal[i].id = s
                            /\ journal[i].type \in {"steering_consumed", "steering_abandoned"}}) <= 1
        BY DEF SteeringInv, DisposedOnce
    <2> DEFINE S == {i \in DOMAIN journal : journal[i].id = s
                       /\ journal[i].type \in {"steering_consumed", "steering_abandoned"}}
    <2>2. \A i, j \in S : i = j
        BY <2>1 DEF Disposing, DisposalTypes
    <2> HIDE DEF S
    <2>3. Cardinality(S) <= 1
        BY <2>2, AtMostOne
    <2> QED BY <2>3 DEF S
<1> QED
    BY <1>1, SteeringHolds, PTL

\* A direction that restoreSessionRecords hands on to a later turn was given to a
\* turn that a crash cut off, never to one that reached its outcome.
THEOREM AuthorityStaysWithTurn == Spec => []NoCrossTurnAuthority
<1>1. SteeringInv => NoCrossTurnAuthority
    <2>1. SUFFICES ASSUME Once, Admitted, Crossing, NEW i \in DOMAIN journal, NEW j \in DOMAIN journal,
                          journal[i].type = "steering_accepted", journal[j].type = "steering_consumed",
                          journal[i].id = journal[j].id, journal[i].turn # journal[j].turn,
                          journal[i].turn \in TerminalTurns
                   PROVE  FALSE
        BY DEF SteeringInv, TurnInv, TurnRecords, NoCrossTurnAuthority
    <2>2. cmd[journal[i].id].turn = journal[i].turn
        BY <2>1 DEF Admitted, TypesOf
    <2>3. journal[i].turn \in TurnsOf("turn_interrupted")
        BY <2>1, <2>2 DEF Crossing, TypesOf
    <2>4. PICK k \in DOMAIN journal : journal[k].type = "turn_interrupted" /\ journal[k].turn = journal[i].turn
        BY <2>3, TurnsOfIs
    <2>5. PICK l \in DOMAIN journal : journal[l].type = "turn_outcome" /\ journal[l].turn = journal[i].turn
        BY <2>1, TurnsOfIs DEF TerminalTurns
    <2>6. k = l
        BY <2>1, <2>4, <2>5 DEF Once, TerminalTypes
    <2> QED BY <2>4, <2>5, <2>6
<1> QED
    BY <1>1, SteeringHolds, PTL

\* runModelStepLoop completes a turn only when each direction the operator was
\* told was accepted for it has its consumption on record before the outcome.
THEOREM CompletionServesDirections == Spec => []DirectionServed
<1>1. SteeringInv => DirectionServed
    BY DEF SteeringInv, Serving
<1> QED
    BY <1>1, SteeringHolds, PTL

\* steerEngineTurn reserves a place before its append and the queue takes it over:
\* queue and admissions stay within limits.maxSteering, also after a restart has
\* put the directions of an interrupted turn back.
THEOREM SteeringStaysBounded == Spec => []SteeringBounded
<1>1. SteeringInv => SteeringBounded
    BY DEF SteeringInv, Bounded, Filled
<1> QED
    BY <1>1, SteeringHolds, PTL
===============================================================================
