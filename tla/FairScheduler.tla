--------------------------- MODULE FairScheduler ---------------------------
(***************************************************************************)
(* The admission scheduler of one provider resource                        *)
(* (src/src/provider/fair-scheduler.js).  Callers acquire a slot, wait in  *)
(* a queue when none is free, give the slot back, or abort while waiting.  *)
(* The number of slots is not fixed: it is the least of the configured (or *)
(* discovered) capacity and of the limit every holder and every waiter     *)
(* brought with its own request.                                           *)
(*                                                                         *)
(* A resource's record in the code's #resources map is the group of        *)
(* variables below.  Resources share only the configuration, so one is     *)
(* modelled.  The code is single threaded and none of these methods        *)
(* awaits.  The loop inside #pump is modelled as one step per iteration,   *)
(* and pc = "pump" disables every other action until the loop is over: no  *)
(* caller can observe, or act on, a state in the middle of it.             *)
(*                                                                         *)
(* A member of Req is a caller that may come back: the promise it gets     *)
(* from acquire is its entry in st.                                        *)
(***************************************************************************)
EXTENDS Naturals, Sequences, FiniteSets

CONSTANTS
    Req,             \* the requests that may be outstanding at one time
    Owners,          \* sessions on whose behalf requests are made
    Signals,         \* abort signals; requests may share one
    OwnerOf,         \* the owner argument of each request
    SignalOf,        \* the signal argument of each request
    NoOwner,         \* lastOwner before the first grant (null)
    MaxConcurrency,  \* MAX_PROVIDER_CONCURRENCY
    QueueBounds      \* the values maxQueued may be configured to

ASSUME ReqFinite == IsFiniteSet(Req)
ASSUME OwnerAssumption == OwnerOf \in [Req -> Owners] /\ NoOwner \notin Owners
ASSUME SignalAssumption == SignalOf \in [Req -> Signals]
ASSUME ConcurrencyAssumption == MaxConcurrency \in Nat \ {0}
ASSUME QueueAssumption == QueueBounds \subseteq Nat \ {0} /\ QueueBounds # {}

VARIABLES
    cfgLimit,    \* this.limit
    maxQueued,   \* this.maxQueued
    discovered,  \* state.discoveredLimit, 0 when null
    running,     \* state.running
    active,      \* state.active: the grants not yet released
    queue,       \* state.queue
    lastOwner,   \* state.lastOwner
    limit,       \* state.limit, the cached effective limit
    reqLimit,    \* requestLimit of each outstanding request
    st,          \* what became of each request's promise
    aborted,     \* signals that have fired
    pc           \* "idle", or "pump" inside #pump

vars == <<cfgLimit, maxQueued, discovered, running, active, queue, lastOwner,
          limit, reqLimit, st, aborted, pc>>

Limits == 1 .. MaxConcurrency

----------------------------------------------------------------------------
(* Helpers of the code, as operators. *)

MinOf(S) == CHOOSE x \in S : \A y \in S : x <= y

QueueSet(q) == {q[i] : i \in 1 .. Len(q)}

\* Array.prototype.splice(i, 1) and the filter in cancel, which drops the one
\* occurrence of its item.
RemoveIndex(q, i) == SubSeq(q, 1, i - 1) \o SubSeq(q, i + 1, Len(q))

\* Mutant: an absent discovered limit taken for a limit.
BaseLimitNoNull(c, d) == d

\* effectiveLimit with no requested limit.
BaseLimit(c, d) == IF d > 0 THEN d ELSE c

\* #refreshLimit.
EffectiveLimit(c, d, a, q, rl) ==
    MinOf({BaseLimit(c, d)} \cup {rl[r] : r \in a \cup QueueSet(q)})

\* Mutant: the newest waiter is served first.
NextFairIndexLast(q, last) == Len(q)

\* nextFairIndex: the first waiter of an owner other than the last one served.
NextFairIndex(q, last) ==
    LET different == {i \in 1 .. Len(q) : OwnerOf[q[i]] # last}
    IN  IF last = NoOwner \/ different = {} THEN 1 ELSE MinOf(different)

\* Waiters whose signal fired but whose listener has not run yet.
Fired == {i \in 1 .. Len(queue) : SignalOf[queue[i]] \in aborted}

----------------------------------------------------------------------------
Init ==
    /\ cfgLimit \in Limits
    /\ maxQueued \in QueueBounds
    /\ discovered = 0
    /\ running = 0
    /\ active = {}
    /\ queue = <<>>
    /\ lastOwner = NoOwner
    /\ limit = cfgLimit
    /\ reqLimit = [r \in Req |-> MaxConcurrency]
    /\ st = [r \in Req |-> "new"]
    /\ aborted = {}
    /\ pc = "idle"

\* acquire, the two early rejections.
AcquireRejected(r) ==
    /\ pc = "idle" /\ st[r] = "new"
    /\ SignalOf[r] \in aborted \/ Len(queue) >= maxQueued
    /\ st' = [st EXCEPT ![r] = "rejected"]
    /\ UNCHANGED <<cfgLimit, maxQueued, discovered, running, active, queue,
                   lastOwner, limit, reqLimit, aborted, pc>>

\* #grant: the caller adds the request to active and the limit is refreshed.
Grant(r, rl, q) ==
    /\ running' = running + 1
    /\ lastOwner' = OwnerOf[r]
    /\ active' = active \cup {r}
    /\ limit' = EffectiveLimit(cfgLimit, discovered, active \cup {r}, q, rl)
    /\ st' = [st EXCEPT ![r] = "granted"]

\* Mutant: a signal that fired before acquire is not noticed.
AdmissibleAborted(r) ==
    /\ pc = "idle" /\ st[r] = "new"
    /\ Len(queue) < maxQueued

\* acquire, past its two early returns.
Admissible(r) ==
    /\ pc = "idle" /\ st[r] = "new"
    /\ SignalOf[r] \notin aborted /\ Len(queue) < maxQueued

\* Mutant: the request's own limit does not bound its admission.
AdmitsNowUnbounded(l) == running < limit /\ queue = <<>>

\* acquire when a slot is free and nobody waits.  l is the request's limit
\* after boundedRequestLimit.
AdmitsNow(l) == running < limit /\ running < l /\ queue = <<>>

AcquireNow(r, l) ==
    /\ Admissible(r) /\ AdmitsNow(l)
    /\ reqLimit' = [reqLimit EXCEPT ![r] = l]
    /\ Grant(r, reqLimit', queue)
    /\ UNCHANGED <<cfgLimit, maxQueued, discovered, queue, aborted, pc>>

\* Mutant: the limit is not refreshed when a request joins the queue.
AcquireWaitStale(r, l) ==
    /\ Admissible(r) /\ ~AdmitsNow(l)
    /\ reqLimit' = [reqLimit EXCEPT ![r] = l]
    /\ queue' = Append(queue, r)
    /\ st' = [st EXCEPT ![r] = "queued"]
    /\ UNCHANGED <<cfgLimit, maxQueued, discovered, running, active,
                   lastOwner, limit, aborted, pc>>

\* acquire when the request must wait: enqueue, then #refreshLimit.
AcquireWait(r, l) ==
    /\ Admissible(r) /\ ~AdmitsNow(l)
    /\ reqLimit' = [reqLimit EXCEPT ![r] = l]
    /\ queue' = Append(queue, r)
    /\ st' = [st EXCEPT ![r] = "queued"]
    /\ limit' = EffectiveLimit(cfgLimit, discovered, active, queue', reqLimit')
    /\ UNCHANGED <<cfgLimit, maxQueued, discovered, running, active,
                   lastOwner, aborted, pc>>

\* Mutant: the released grant stays in state.active.
ReleaseLeaksGrant(r) ==
    /\ pc = "idle" /\ st[r] = "granted"
    /\ running' = running - 1
    /\ st' = [st EXCEPT ![r] = "new"]
    /\ limit' = EffectiveLimit(cfgLimit, discovered, active, queue, reqLimit)
    /\ pc' = "pump"
    /\ UNCHANGED <<cfgLimit, maxQueued, discovered, active, queue, lastOwner,
                   reqLimit, aborted>>

\* The function a grant returns: give the slot back and pump.  Calling it a
\* second time does nothing (released), which is a stuttering step here.
Release(r) ==
    /\ pc = "idle" /\ st[r] = "granted"
    /\ running' = running - 1
    /\ active' = active \ {r}
    /\ st' = [st EXCEPT ![r] = "new"]
    /\ limit' = EffectiveLimit(cfgLimit, discovered, active', queue, reqLimit)
    /\ pc' = "pump"
    /\ UNCHANGED <<cfgLimit, maxQueued, discovered, queue, lastOwner,
                   reqLimit, aborted>>

\* Mutant: a cancellation that does not pump.
CancelAtNoPump(i) ==
    /\ queue' = RemoveIndex(queue, i)
    /\ st' = [st EXCEPT ![queue[i]] = "rejected"]
    /\ limit' = EffectiveLimit(cfgLimit, discovered, active, queue', reqLimit)
    /\ UNCHANGED <<cfgLimit, maxQueued, discovered, running, active,
                   lastOwner, reqLimit, pc>>

\* cancel of the waiter at index i: settle, filter, reject, pump.
CancelAt(i) ==
    /\ queue' = RemoveIndex(queue, i)
    /\ st' = [st EXCEPT ![queue[i]] = "rejected"]
    /\ limit' = EffectiveLimit(cfgLimit, discovered, active, queue', reqLimit)
    /\ pc' = "pump"
    /\ UNCHANGED <<cfgLimit, maxQueued, discovered, running, active,
                   lastOwner, reqLimit>>

\* AbortController.abort(): the listeners of the signal's waiters run one
\* after the other, in the order in which they were added (here the first,
\* the others in PumpEnd).  A signal nobody waits on has no listener.
Abort(s) ==
    /\ pc = "idle" /\ s \notin aborted
    /\ aborted' = aborted \cup {s}
    /\ LET waiting == {i \in 1 .. Len(queue) : SignalOf[queue[i]] = s}
       IN  \/ waiting # {} /\ CancelAt(MinOf(waiting))
           \/ /\ waiting = {}
              /\ UNCHANGED <<cfgLimit, maxQueued, discovered, running, active,
                             queue, lastOwner, limit, reqLimit, st, pc>>

\* configure.
Configure(c, m) ==
    /\ pc = "idle"
    /\ cfgLimit' = c
    /\ maxQueued' = m
    /\ limit' = EffectiveLimit(c, discovered, active, queue, reqLimit)
    /\ pc' = "pump"
    /\ UNCHANGED <<discovered, running, active, queue, lastOwner, reqLimit, st,
                   aborted>>

\* setDiscoveredLimit; d = 0 stands for null.
SetDiscoveredLimit(d) ==
    /\ pc = "idle"
    /\ discovered' = d
    /\ limit' = EffectiveLimit(cfgLimit, d, active, queue, reqLimit)
    /\ pc' = "pump"
    /\ UNCHANGED <<cfgLimit, maxQueued, running, active, queue, lastOwner,
                   reqLimit, st, aborted>>

----------------------------------------------------------------------------
(* #pump, one action per way through the body of its loop. *)

Pumping == pc = "pump" /\ running < limit /\ queue # <<>>

PumpIndex == NextFairIndex(queue, lastOwner)

PumpGrant ==
    /\ Pumping
    /\ SignalOf[queue[PumpIndex]] \notin aborted
    /\ queue' = RemoveIndex(queue, PumpIndex)
    /\ Grant(queue[PumpIndex], reqLimit, queue')
    /\ UNCHANGED <<cfgLimit, maxQueued, discovered, reqLimit, aborted, pc>>

\* The chosen waiter's signal has fired: its cancel runs, with a nested #pump
\* that is the continuation of this loop.
PumpDrop ==
    /\ Pumping
    /\ SignalOf[queue[PumpIndex]] \in aborted
    /\ CancelAt(PumpIndex)
    /\ UNCHANGED aborted

\* The loop is over.  While an abort is being dispatched, the next listener
\* runs; otherwise the call returns.
PumpEnd ==
    /\ pc = "pump" /\ ~Pumping
    /\ \/ /\ Fired # {}
          /\ CancelAt(MinOf(Fired))
          /\ UNCHANGED aborted
       \/ /\ Fired = {}
          /\ pc' = "idle"
          /\ UNCHANGED <<cfgLimit, maxQueued, discovered, running, active,
                         queue, lastOwner, limit, reqLimit, st, aborted>>

----------------------------------------------------------------------------
(* The callers. *)

\* A caller whose acquire was rejected may call again.
Retry(r) ==
    /\ pc = "idle" /\ st[r] = "rejected"
    /\ st' = [st EXCEPT ![r] = "new"]
    /\ UNCHANGED <<cfgLimit, maxQueued, discovered, running, active, queue,
                   lastOwner, limit, reqLimit, aborted, pc>>

\* A new turn brings a new AbortController in the place of a fired one.
NewSignal(s) ==
    /\ pc = "idle" /\ s \in aborted
    /\ aborted' = aborted \ {s}
    /\ UNCHANGED <<cfgLimit, maxQueued, discovered, running, active, queue,
                   lastOwner, limit, reqLimit, st, pc>>

Pump == PumpGrant \/ PumpDrop \/ PumpEnd

Next ==
    \/ \E r \in Req : AcquireRejected(r) \/ Release(r) \/ Retry(r)
    \/ \E r \in Req, l \in Limits : AcquireNow(r, l) \/ AcquireWait(r, l)
    \/ \E s \in Signals : Abort(s) \/ NewSignal(s)
    \/ \E c \in Limits, m \in QueueBounds : Configure(c, m)
    \/ \E d \in Limits \cup {0} : SetDiscoveredLimit(d)
    \/ Pump

Spec == Init /\ [][Next]_vars

\* #pump is one synchronous loop and runs to its end.  Nothing is assumed of the
\* callers: a request to a trusted local provider has no deadline and holds its
\* slot until the provider ends or the operator cancels.
Fairness == WF_vars(Pump)

FairSpec == Spec /\ Fairness

----------------------------------------------------------------------------
(* Properties *)

\* The resource record keeps its shape: the cached limit stays between one and
\* MAX_PROVIDER_CONCURRENCY although the discovered limit may be null.
TypeOK ==
    /\ cfgLimit \in Limits /\ maxQueued \in QueueBounds
    /\ discovered \in Limits \cup {0}
    /\ running \in Nat
    /\ active \subseteq Req
    /\ queue \in Seq(Req)
    /\ lastOwner \in Owners \cup {NoOwner}
    /\ limit \in Limits
    /\ reqLimit \in [Req -> Limits]
    /\ st \in [Req -> {"new", "queued", "granted", "rejected"}]
    /\ aborted \subseteq Signals
    /\ pc \in {"idle", "pump"}

\* The counter the code compares with the limit is the number of grants not
\* yet released, and a promise is settled exactly once: a request is waiting
\* in the queue (at one position) or holds a slot, never both, whatever the
\* order of aborts, releases and pumps.
SlotsAccounted ==
    /\ running = Cardinality(active)
    /\ active = {r \in Req : st[r] = "granted"}
    /\ QueueSet(queue) = {r \in Req : st[r] = "queued"}
    /\ \A i, j \in 1 .. Len(queue) : queue[i] = queue[j] => i = j

\* The cached state.limit is never stale: it is what #refreshLimit would
\* compute now, after every operation and in every iteration of #pump.
LimitCurrent ==
    limit = EffectiveLimit(cfgLimit, discovered, active, queue, reqLimit)

\* No lost wakeup: when an operation returns, a request waits only if every
\* slot of the effective limit is taken.  Every path that frees capacity
\* (release, cancel, configure, a new discovered limit) must have pumped.
WorkConserving == pc = "idle" /\ queue # <<>> => running >= limit

\* When an operation returns, nobody whose signal fired is still waiting,
\* although one signal may cancel several waiters and the pump that follows
\* the first cancellation may already have reached the others.
AbortDrained == pc = "idle" => Fired = {}

\* A slot is only handed out while every limit that applies, those of the
\* other holders included, has room for it: the capacity one caller asked for
\* is not exceeded by somebody who asked for more.
GrantWithinEveryLimit ==
    [][running' > running =>
         /\ running' <= BaseLimit(cfgLimit', discovered')
         /\ \A r \in active' \cup QueueSet(queue') : running' <= reqLimit'[r]]_vars

\* Fairness across owners: the request at the head of the queue is passed over
\* only in favour of another owner, and then the last owner served differs
\* from its own, so the next free slot is its.
HeadPassedOverOnce ==
    [][(queue # <<>> /\ queue' # <<>> /\ running' > running
          /\ Head(queue') = Head(queue)) =>
         /\ OwnerOf[Head(queue)] = lastOwner
         /\ OwnerOf[Head(queue)] # lastOwner'
         /\ NextFairIndex(queue', lastOwner') = 1]_vars

\* Whoever waits for ever waits behind a holder that never gives its slot back:
\* neither the choice of the next owner nor the limits and queue bounds set
\* meanwhile keep a request waiting while the slots change hands.
NoStarvation ==
    \A r \in Req :
      <>[](st[r] = "queued") => \E q \in Req : <>[](st[q] = "granted")
=============================================================================
