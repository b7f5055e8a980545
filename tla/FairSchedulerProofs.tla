------------------------ MODULE FairSchedulerProofs ------------------------
(* Proofs about FairScheduler, for every set of requests and every limit.    *)
EXTENDS FairScheduler, TLAPS, FiniteSetTheorems, SequenceTheorems,
        WellFoundedInduction

Distinct(q) == \A i, j \in 1 .. Len(q) : q[i] = q[j] => i = j

----------------------------------------------------------------------------
(* The helpers. *)

\* MinOf picks the least element of a set of naturals.
LEMMA MinOfLeast ==
    ASSUME NEW S, S \subseteq Nat, S # {}
    PROVE  MinOf(S) \in S /\ \A y \in S : MinOf(S) <= y
<1> DEFINE LT == {ss \in Nat \X Nat : ss[1] < ss[2]}
<1>1. IsWellFoundedOn(LT, Nat)
    BY NatLessThanWellFounded DEF OpToRel
<1>2. \E x \in S : \A y \in S : ~(<<y, x>> \in LT)
    <2> HIDE DEF LT
    <2> QED BY <1>1, WFMin
<1>3. \E x \in S : \A y \in S : x <= y
    <2>1. PICK x \in S : \A y \in S : ~(<<y, x>> \in LT)
        BY <1>2
    <2>2. ASSUME NEW y \in S PROVE x <= y
        <3>1. x \in Nat /\ y \in Nat
            OBVIOUS
        <3>2. <<y, x>> \in LT <=> y < x
            BY <3>1
        <3> QED BY <2>1, <3>1, <3>2
    <2> QED BY <2>2
<1> QED BY <1>3 DEF MinOf

\* The effective limit is one of the supported limits, and no limit that
\* applies is below it.
LEMMA EffectiveLimitLeast ==
    ASSUME NEW c \in Limits, NEW d \in Limits \cup {0}, NEW a \in SUBSET Req,
           NEW q \in Seq(Req), NEW rl \in [Req -> Limits]
    PROVE  /\ EffectiveLimit(c, d, a, q, rl) \in Limits
           /\ EffectiveLimit(c, d, a, q, rl) <= BaseLimit(c, d)
           /\ \A r \in a \cup QueueSet(q) : EffectiveLimit(c, d, a, q, rl) <= rl[r]
<1> DEFINE S == {BaseLimit(c, d)} \cup {rl[r] : r \in a \cup QueueSet(q)}
<1>1. BaseLimit(c, d) \in Limits
    BY DEF BaseLimit, Limits
<1>2. QueueSet(q) \subseteq Req
    BY DEF QueueSet
<1>3. S \subseteq Limits /\ S # {}
    BY <1>1, <1>2
<1>4. S \subseteq Nat
    <2>1. Limits \subseteq Nat
        BY ConcurrencyAssumption DEF Limits
    <2> HIDE DEF S
    <2> QED BY <1>3, <2>1
<1>5. MinOf(S) \in S /\ \A y \in S : MinOf(S) <= y
    <2> HIDE DEF S
    <2> QED BY <1>3, <1>4, MinOfLeast
<1>6. EffectiveLimit(c, d, a, q, rl) = MinOf(S)
    BY DEF EffectiveLimit
<1> QED BY <1>3, <1>5, <1>6

\* nextFairIndex is an index of the queue.
LEMMA NextFairIndexInQueue ==
    ASSUME NEW q \in Seq(Req), q # <<>>, NEW last
    PROVE  NextFairIndex(q, last) \in 1 .. Len(q)
<1> DEFINE D == {i \in 1 .. Len(q) : OwnerOf[q[i]] # last}
<1>1. Len(q) \in Nat /\ Len(q) >= 1
    BY EmptySeq, LenProperties
<1>2. CASE last = NoOwner \/ D = {}
    BY <1>1, <1>2 DEF NextFairIndex
<1>3. CASE ~(last = NoOwner \/ D = {})
    <2>1. D \subseteq Nat /\ D # {}
        BY <1>1, <1>3
    <2>2. MinOf(D) \in D
        <3> HIDE DEF D
        <3> QED BY <2>1, MinOfLeast
    <2> QED BY <1>3, <2>2 DEF NextFairIndex
<1> QED BY <1>2, <1>3

\* When the head of the queue is not the one chosen, its owner was served last,
\* and the one chosen has another owner.
LEMMA PassedOver ==
    ASSUME NEW q \in Seq(Req), q # <<>>, NEW last, NextFairIndex(q, last) # 1
    PROVE  OwnerOf[q[1]] = last /\ OwnerOf[q[NextFairIndex(q, last)]] # last
<1> DEFINE D == {i \in 1 .. Len(q) : OwnerOf[q[i]] # last}
<1>1. Len(q) \in Nat /\ 1 \in 1 .. Len(q)
    BY EmptySeq, LenProperties
<1>2. D # {} /\ NextFairIndex(q, last) = MinOf(D)
    BY DEF NextFairIndex
<1>3. MinOf(D) \in D /\ \A y \in D : MinOf(D) <= y
    <2>1. D \subseteq Nat
        BY <1>1
    <2> HIDE DEF D
    <2> QED BY <1>2, <2>1, MinOfLeast
<1>4. 1 \notin D
    BY <1>1, <1>2, <1>3
<1> QED BY <1>1, <1>2, <1>3, <1>4

\* A head whose owner was not the last one served is the one chosen.
LEMMA HeadIsNext ==
    ASSUME NEW q \in Seq(Req), q # <<>>, NEW last, OwnerOf[q[1]] # last
    PROVE  NextFairIndex(q, last) = 1
BY PassedOver

\* Removing the item at an index of a queue without repetitions.
LEMMA RemoveIndexProperties ==
    ASSUME NEW q \in Seq(Req), NEW i \in 1 .. Len(q), Distinct(q)
    PROVE  /\ RemoveIndex(q, i) \in Seq(Req)
           /\ Len(RemoveIndex(q, i)) = Len(q) - 1
           /\ \A k \in 1 .. Len(q) - 1 :
                RemoveIndex(q, i)[k] = IF k < i THEN q[k] ELSE q[k + 1]
           /\ QueueSet(RemoveIndex(q, i)) = QueueSet(q) \ {q[i]}
           /\ Distinct(RemoveIndex(q, i))
<1> DEFINE left == SubSeq(q, 1, i - 1)
           right == SubSeq(q, i + 1, Len(q))
           n == Len(q)
<1>1. n \in Nat /\ i \in Nat /\ 1 <= i /\ i <= n
    BY LenProperties
<1>2. \A k \in 1 .. n : q[k] \in Req
    BY ElementOfSeq
<1>3. /\ left \in Seq(Req) /\ Len(left) = i - 1
      /\ \A k \in 1 .. i - 1 : left[k] = q[k]
    <2>1. \A k \in 1 .. i - 1 : q[k] \in Req
        BY <1>1, <1>2
    <2>2. 1 \in Int /\ i - 1 \in Int
        BY <1>1
    <2> QED BY <1>1, <2>1, <2>2, SubSeqProperties
<1>4. /\ right \in Seq(Req) /\ Len(right) = n - i
      /\ \A k \in 1 .. n - i : right[k] = q[i + k]
    <2>1. \A k \in i + 1 .. n : q[k] \in Req
        BY <1>1, <1>2
    <2>2. i + 1 \in Int /\ n \in Int
        BY <1>1
    <2>3. /\ right \in Seq(Req)
          /\ Len(right) = IF i + 1 <= n THEN n - (i + 1) + 1 ELSE 0
          /\ \A k \in 1 .. n - (i + 1) + 1 : right[k] = q[(i + 1) + k - 1]
        BY <2>1, <2>2, SubSeqProperties
    <2> QED BY <1>1, <2>3
<1>5. /\ RemoveIndex(q, i) \in Seq(Req)
      /\ Len(RemoveIndex(q, i)) = n - 1
      /\ \A k \in 1 .. n - 1 : RemoveIndex(q, i)[k] = IF k < i THEN q[k] ELSE q[k + 1]
    <2>1. RemoveIndex(q, i) = left \o right
        BY DEF RemoveIndex
    <2>2. /\ left \o right \in Seq(Req)
          /\ Len(left \o right) = Len(left) + Len(right)
          /\ \A k \in 1 .. Len(left) + Len(right) : (left \o right)[k] =
                IF k <= Len(left) THEN left[k] ELSE right[k - Len(left)]
        <3> HIDE DEF left, right
        <3> QED BY <1>3, <1>4, ConcatProperties
    <2>3. Len(left) + Len(right) = n - 1
        <3> HIDE DEF left, right, n
        <3> QED BY <1>1, <1>3, <1>4
    <2>4. ASSUME NEW k \in 1 .. n - 1
          PROVE  (left \o right)[k] = IF k < i THEN q[k] ELSE q[k + 1]
        <3>1. (left \o right)[k] = IF k <= i - 1 THEN left[k] ELSE right[k - (i - 1)]
            BY <2>2, <2>3, <1>3
        <3>2. CASE k < i
            <4> HIDE DEF left, right, n
            <4> QED BY <1>1, <1>3, <3>1, <3>2
        <3>3. CASE ~(k < i)
            <4>1. k - (i - 1) \in 1 .. n - i /\ i + (k - (i - 1)) = k + 1 /\ ~(k <= i - 1)
                <5> HIDE DEF n
                <5> QED BY <1>1, <3>3
            <4> HIDE DEF left, right, n
            <4> QED BY <1>4, <3>1, <3>3, <4>1
        <3> QED BY <3>2, <3>3
    <2> QED BY <2>1, <2>2, <2>3, <2>4
<1>6. Distinct(RemoveIndex(q, i))
    BY <1>1, <1>5 DEF Distinct
<1>7. QueueSet(RemoveIndex(q, i)) = QueueSet(q) \ {q[i]}
    <2> DEFINE p == RemoveIndex(q, i)
    <2>1. ASSUME NEW x \in QueueSet(p) PROVE x \in QueueSet(q) \ {q[i]}
        <3>1. PICK k \in 1 .. n - 1 : x = IF k < i THEN q[k] ELSE q[k + 1]
            BY <1>5 DEF QueueSet
        <3>2. PICK m \in 1 .. n : x = q[m] /\ m # i
            <4>1. CASE k < i
                BY <1>1, <3>1, <4>1
            <4>2. CASE ~(k < i)
                BY <1>1, <3>1, <4>2
            <4> QED BY <4>1, <4>2
        <3> QED BY <3>2 DEF QueueSet, Distinct
    <2>2. ASSUME NEW x \in QueueSet(q) \ {q[i]} PROVE x \in QueueSet(p)
        <3>1. PICK m \in 1 .. n : x = q[m] /\ m # i
            BY DEF QueueSet
        <3>2. \E k \in 1 .. n - 1 : x = p[k]
            <4>1. CASE m < i
                BY <1>1, <1>5, <3>1, <4>1
            <4>2. CASE m > i
                <5>1. m - 1 \in 1 .. n - 1 /\ ~(m - 1 < i) /\ (m - 1) + 1 = m
                    BY <1>1, <4>2
                <5> QED BY <1>5, <3>1, <5>1
            <4> QED BY <1>1, <3>1, <4>1, <4>2
        <3> QED BY <1>5, <3>2 DEF QueueSet
    <2> QED BY <2>1, <2>2
<1> QED BY <1>5, <1>6, <1>7

\* Joining the queue at its end.
LEMMA AppendDistinct ==
    ASSUME NEW q \in Seq(Req), NEW r \in Req, Distinct(q), r \notin QueueSet(q)
    PROVE  /\ Append(q, r) \in Seq(Req)
           /\ QueueSet(Append(q, r)) = QueueSet(q) \cup {r}
           /\ Distinct(Append(q, r))
<1> DEFINE n == Len(q)
           p == Append(q, r)
<1>1. /\ p \in Seq(Req) /\ n \in Nat /\ Len(p) = n + 1 /\ p[n + 1] = r
      /\ \A i \in 1 .. n : p[i] = q[i]
    BY AppendProperties, LenProperties
<1>2. \A i \in 1 .. n : q[i] # r
    BY DEF QueueSet
<1>3. Distinct(p)
    <2> HIDE DEF p
    <2>1. ASSUME NEW i \in 1 .. n + 1, NEW j \in 1 .. n + 1, p[i] = p[j]
          PROVE  i = j
        <3>1. CASE i = n + 1 \/ j = n + 1
            BY <1>1, <1>2, <2>1, <3>1
        <3>2. CASE i \in 1 .. n /\ j \in 1 .. n
            BY <1>1, <2>1, <3>2 DEF Distinct
        <3> QED BY <1>1, <3>1, <3>2
    <2> QED BY <1>1, <2>1 DEF Distinct
<1>4. QueueSet(p) = QueueSet(q) \cup {r}
    <2> HIDE DEF p
    <2>1. \A i \in 1 .. n + 1 : i \in 1 .. n \/ i = n + 1
        BY <1>1
    <2>2. 1 .. n \subseteq 1 .. n + 1 /\ n + 1 \in 1 .. n + 1
        BY <1>1
    <2> QED BY <1>1, <2>1, <2>2 DEF QueueSet
<1> QED BY <1>1, <1>3, <1>4

----------------------------------------------------------------------------
(* The inductive invariant: what the properties say, together.  Each leans   *)
(* on another: that a cancelled or granted waiter leaves the queue needs the *)
(* queue to be without repetitions, that nobody is left waiting needs the    *)
(* cached limit to be current.                                               *)

Inv == TypeOK /\ SlotsAccounted /\ LimitCurrent /\ WorkConserving /\ AbortDrained

LEMMA InitInv == Init => Inv
<1> SUFFICES ASSUME Init PROVE Inv
    OBVIOUS
<1> USE DEF Init
<1>1. QueueSet(<<>>) = {} /\ Len(<<>>) = 0
    BY DEF QueueSet
<1>2. limit \in Limits
    OBVIOUS
<1>3. TypeOK
    BY ConcurrencyAssumption DEF TypeOK, Limits
<1>4. SlotsAccounted
    BY <1>1, FS_EmptySet DEF SlotsAccounted
<1>5. LimitCurrent
    <2>1. BaseLimit(cfgLimit, 0) = cfgLimit
        BY DEF BaseLimit
    <2>2. MinOf({cfgLimit}) = cfgLimit
        <3>1. {cfgLimit} \subseteq Nat
            BY ConcurrencyAssumption DEF Limits
        <3> QED BY <3>1, MinOfLeast
    <2>3. {reqLimit[r] : r \in {} \cup QueueSet(<<>>)} = {}
        BY <1>1
    <2> QED BY <2>1, <2>2, <2>3 DEF LimitCurrent, EffectiveLimit
<1>6. WorkConserving /\ AbortDrained
    BY DEF WorkConserving, AbortDrained, Fired
<1> QED BY <1>3, <1>4, <1>5, <1>6 DEF Inv

\* What #grant preserves, given the request it is for and the queue after it.
LEMMA GrantInv ==
    ASSUME Inv, NEW r \in Req, st[r] \in {"new", "queued"},
           NEW q \in Seq(Req), q = queue',
           QueueSet(q) = QueueSet(queue) \ {r}, Distinct(q),
           reqLimit' \in [Req -> Limits],
           UNCHANGED <<cfgLimit, maxQueued, discovered, aborted, pc>>,
           Grant(r, reqLimit', q)
    PROVE  TypeOK' /\ SlotsAccounted' /\ LimitCurrent'
<1> USE DEF Inv
<1>1. active' \in SUBSET Req /\ IsFiniteSet(active) /\ Cardinality(active) \in Nat
    BY ReqFinite, FS_Subset, FS_CardinalityType DEF Grant, TypeOK
<1>2. LimitCurrent'
    BY DEF Grant, LimitCurrent
<1>3. limit' \in Limits
    BY <1>1, <1>2, EffectiveLimitLeast DEF LimitCurrent, TypeOK
<1>4. TypeOK'
    <2>1. running' \in Nat
        BY DEF Grant, TypeOK
    <2>4. lastOwner' \in Owners \cup {NoOwner}
        <3>1. OwnerOf[r] \in Owners /\ lastOwner' = OwnerOf[r]
            BY OwnerAssumption DEF Grant
        <3> QED BY <3>1
    <2>3. st' \in [Req -> {"new", "queued", "granted", "rejected"}]
        BY DEF Grant, TypeOK
    <2>2. /\ cfgLimit' \in Limits /\ maxQueued' \in QueueBounds
          /\ discovered' \in Limits \cup {0}
          /\ aborted' \subseteq Signals /\ pc' \in {"idle", "pump"}
        BY DEF TypeOK
    <2> QED BY <1>1, <1>3, <2>1, <2>2, <2>3, <2>4 DEF TypeOK
<1>5. r \notin active
    BY DEF SlotsAccounted
<1>6. running' = Cardinality(active')
    BY <1>1, <1>5, FS_AddElement DEF Grant, SlotsAccounted
<1>7. active' = {x \in Req : st'[x] = "granted"}
    BY DEF Grant, SlotsAccounted, TypeOK
<1>8. QueueSet(queue') = {x \in Req : st'[x] = "queued"}
    BY DEF Grant, SlotsAccounted, TypeOK
<1>9. SlotsAccounted'
    BY <1>6, <1>7, <1>8 DEF SlotsAccounted, Distinct
<1> QED BY <1>2, <1>4, <1>9

\* What cancel preserves.
LEMMA CancelInv ==
    ASSUME Inv, NEW i \in 1 .. Len(queue), CancelAt(i), aborted' \in SUBSET Signals
    PROVE  Inv'
<1> USE DEF Inv
<1>1. queue \in Seq(Req) /\ Distinct(queue)
    BY DEF TypeOK, SlotsAccounted, Distinct
<1>2. /\ queue' \in Seq(Req) /\ Distinct(queue')
      /\ QueueSet(queue') = QueueSet(queue) \ {queue[i]}
    BY <1>1, RemoveIndexProperties DEF CancelAt
<1>3. queue[i] \in Req /\ queue[i] \in QueueSet(queue)
    BY <1>1, ElementOfSeq DEF QueueSet
<1>4. LimitCurrent'
    BY DEF CancelAt, LimitCurrent
<1>5. limit' \in Limits
    <2>1. /\ cfgLimit \in Limits /\ discovered \in Limits \cup {0}
          /\ active \in SUBSET Req /\ reqLimit \in [Req -> Limits]
        BY DEF TypeOK
    <2>2. limit' = EffectiveLimit(cfgLimit, discovered, active, queue', reqLimit)
        BY DEF CancelAt
    <2> QED BY <1>2, <2>1, <2>2, EffectiveLimitLeast
<1>6. TypeOK'
    BY <1>2, <1>3, <1>5 DEF TypeOK, CancelAt
<1>7. st[queue[i]] = "queued"
    BY <1>3 DEF SlotsAccounted
<1>8. SlotsAccounted'
    <2>1. active' = {r \in Req : st'[r] = "granted"}
        BY <1>3, <1>7 DEF CancelAt, SlotsAccounted, TypeOK
    <2>2. QueueSet(queue') = {r \in Req : st'[r] = "queued"}
        BY <1>2, <1>3 DEF CancelAt, SlotsAccounted, TypeOK
    <2> QED BY <1>2, <2>1, <2>2 DEF CancelAt, SlotsAccounted, Distinct
<1>9. WorkConserving' /\ AbortDrained'
    BY DEF CancelAt, WorkConserving, AbortDrained
<1> QED BY <1>4, <1>6, <1>8, <1>9

LEMMA NextInv == Inv /\ [Next]_vars => Inv'
<1> SUFFICES ASSUME Inv, [Next]_vars PROVE Inv'
    OBVIOUS
<1> USE DEF Inv
<1>0. /\ queue \in Seq(Req) /\ Len(queue) \in Nat /\ Distinct(queue)
      /\ (queue # <<>> => Len(queue) >= 1)
    BY LenProperties, EmptySeq DEF TypeOK, SlotsAccounted, Distinct
<1>1. ASSUME NEW r \in Req, AcquireRejected(r) PROVE Inv'
    BY <1>1 DEF AcquireRejected, TypeOK, SlotsAccounted, LimitCurrent,
                WorkConserving, AbortDrained, Fired
<1>2. ASSUME NEW r \in Req, Release(r) PROVE Inv'
    <2> USE <1>2 DEF Release
    <2>1. /\ IsFiniteSet(active) /\ Cardinality(active) \in Nat
          /\ r \in active /\ active' \in SUBSET Req
        BY ReqFinite, FS_Subset, FS_CardinalityType DEF TypeOK, SlotsAccounted
    <2>2. running' = Cardinality(active')
        BY <2>1, FS_RemoveElement DEF SlotsAccounted
    <2>3. running' \in Nat
        <3>1. IsFiniteSet(active')
            BY <2>1, FS_RemoveElement
        <3> QED BY <2>2, <3>1, FS_CardinalityType
    <2>4. LimitCurrent'
        BY DEF LimitCurrent
    <2>5. limit' \in Limits
        <3>1. /\ cfgLimit \in Limits /\ discovered \in Limits \cup {0}
              /\ queue \in Seq(Req) /\ reqLimit \in [Req -> Limits]
            BY DEF TypeOK
        <3>2. limit' = EffectiveLimit(cfgLimit, discovered, active', queue, reqLimit)
            OBVIOUS
        <3> HIDE <1>2 DEF Release, Inv
        <3> QED BY <2>1, <3>1, <3>2, EffectiveLimitLeast
    <2>6. TypeOK'
        BY <2>1, <2>3, <2>5 DEF TypeOK
    <2>7. SlotsAccounted'
        BY <2>1, <2>2 DEF SlotsAccounted, TypeOK
    <2> QED BY <2>4, <2>6, <2>7 DEF WorkConserving, AbortDrained
<1>3. ASSUME NEW r \in Req, Retry(r) PROVE Inv'
    BY <1>3 DEF Retry, TypeOK, SlotsAccounted, LimitCurrent, WorkConserving,
                AbortDrained, Fired
<1>4. ASSUME NEW r \in Req, NEW l \in Limits, AcquireNow(r, l) PROVE Inv'
    <2> USE <1>4 DEF AcquireNow, Admissible, AdmitsNow
    <2>1. r \notin QueueSet(queue)
        BY DEF SlotsAccounted
    <2>2. reqLimit' \in [Req -> Limits]
        BY DEF TypeOK
    <2>3. TypeOK' /\ SlotsAccounted' /\ LimitCurrent'
        BY <1>0, <2>1, <2>2, GrantInv
    <2>4. WorkConserving' /\ AbortDrained'
        BY DEF WorkConserving, AbortDrained, Fired
    <2> QED BY <2>3, <2>4
<1>5. ASSUME NEW r \in Req, NEW l \in Limits, AcquireWait(r, l) PROVE Inv'
    <2> USE <1>5 DEF AcquireWait, Admissible
    <2>1. r \notin QueueSet(queue) /\ r \notin active
        BY DEF SlotsAccounted
    <2>2. /\ queue' \in Seq(Req) /\ Distinct(queue')
          /\ QueueSet(queue') = QueueSet(queue) \cup {r}
        BY <1>0, <2>1, AppendDistinct
    <2>3. reqLimit' \in [Req -> Limits]
        BY DEF TypeOK
    <2>4. LimitCurrent'
        BY DEF LimitCurrent
    <2>5. /\ limit' \in Limits /\ limit' <= BaseLimit(cfgLimit, discovered)
          /\ \A x \in active \cup QueueSet(queue') : limit' <= reqLimit'[x]
        <3>1. /\ cfgLimit \in Limits /\ discovered \in Limits \cup {0}
              /\ active \in SUBSET Req
            BY DEF TypeOK
        <3>2. limit' = EffectiveLimit(cfgLimit, discovered, active, queue', reqLimit')
            OBVIOUS
        <3> HIDE <1>5 DEF AcquireWait, Admissible, Inv
        <3> QED BY <2>2, <2>3, <3>1, <3>2, EffectiveLimitLeast
    <2>6. TypeOK'
        BY <2>2, <2>3, <2>5 DEF TypeOK
    <2>7. SlotsAccounted'
        <3>1. QueueSet(queue') = {x \in Req : st'[x] = "queued"}
            BY <2>2 DEF SlotsAccounted, TypeOK
        <3>2. active' = {x \in Req : st'[x] = "granted"}
            BY <2>1 DEF SlotsAccounted, TypeOK
        <3>3. running' = Cardinality(active')
            BY DEF SlotsAccounted
        <3> QED BY <2>2, <3>1, <3>2, <3>3 DEF SlotsAccounted, Distinct
    <2>8. limit' <= limit
        <3>1. /\ limit \in {BaseLimit(cfgLimit, discovered)}
                             \cup {reqLimit[x] : x \in active \cup QueueSet(queue)}
            <4> DEFINE S == {BaseLimit(cfgLimit, discovered)}
                              \cup {reqLimit[x] : x \in active \cup QueueSet(queue)}
            <4>1. S \subseteq Limits
                BY DEF TypeOK, BaseLimit, QueueSet
            <4>2. S \subseteq Nat /\ S # {}
                <5>1. Limits \subseteq Nat
                    BY ConcurrencyAssumption DEF Limits
                <5> QED BY <4>1, <5>1
            <4>3. limit = MinOf(S)
                BY DEF LimitCurrent, EffectiveLimit
            <4>4. MinOf(S) \in S
                <5> HIDE DEF S
                <5> QED BY <4>2, MinOfLeast
            <4> QED BY <4>3, <4>4
        <3>2. CASE limit = BaseLimit(cfgLimit, discovered)
            BY <2>5, <3>2
        <3>3. ASSUME NEW x \in active \cup QueueSet(queue), limit = reqLimit[x]
              PROVE  limit' <= limit
            <4>1. x # r /\ x \in Req
                BY <2>1 DEF TypeOK, SlotsAccounted
            <4>2. reqLimit'[x] = reqLimit[x]
                BY <4>1 DEF TypeOK
            <4> QED BY <2>2, <2>5, <3>3, <4>2
        <3> QED BY <3>1, <3>2, <3>3
    <2>9. WorkConserving'
        <3>1. running \in Nat /\ limit \in Nat /\ limit' \in Nat /\ l \in Nat
            BY <2>5, ConcurrencyAssumption DEF TypeOK, Limits
        <3>2. limit' <= l
            BY <2>2, <2>5 DEF TypeOK
        <3>3. running >= limit \/ running >= l
            BY <3>1 DEF AdmitsNow, WorkConserving
        <3> QED BY <2>8, <3>1, <3>2, <3>3 DEF WorkConserving
    <2>10. AbortDrained'
        <3>1. \A x \in QueueSet(queue') : SignalOf[x] \notin aborted
            BY <2>2 DEF AbortDrained, Fired, QueueSet
        <3> QED BY <3>1 DEF AbortDrained, Fired, QueueSet
    <2> QED BY <2>4, <2>6, <2>7, <2>9, <2>10
<1>6. ASSUME NEW s \in Signals, Abort(s) PROVE Inv'
    <2> DEFINE W == {i \in 1 .. Len(queue) : SignalOf[queue[i]] = s}
    <2>1. aborted' \in SUBSET Signals
        BY <1>6 DEF Abort, TypeOK
    <2>2. CASE W # {} /\ CancelAt(MinOf(W))
        <3>1. W \subseteq Nat
            BY <1>0
        <3>2. MinOf(W) \in W
            <4> HIDE DEF W
            <4> QED BY <2>2, <3>1, MinOfLeast
        <3> QED BY <2>1, <2>2, <3>2, CancelInv
    <2>3. CASE W = {} /\ UNCHANGED <<cfgLimit, maxQueued, discovered, running,
                          active, queue, lastOwner, limit, reqLimit, st, pc>>
        <3>1. aborted' = aborted \cup {s}
            BY <1>6 DEF Abort
        <3>2. AbortDrained'
            BY <2>3, <3>1 DEF AbortDrained, Fired
        <3> QED BY <2>1, <2>3, <3>2 DEF TypeOK, SlotsAccounted, LimitCurrent,
                                        WorkConserving
    <2> QED BY <1>6, <2>2, <2>3 DEF Abort
<1>7. ASSUME NEW s \in Signals, NewSignal(s) PROVE Inv'
    BY <1>7 DEF NewSignal, TypeOK, SlotsAccounted, LimitCurrent,
                WorkConserving, AbortDrained, Fired
<1>8. ASSUME NEW c \in Limits, NEW m \in QueueBounds, Configure(c, m) PROVE Inv'
    <2> USE <1>8 DEF Configure
    <2>1. LimitCurrent'
        BY DEF LimitCurrent
    <2>2. limit' \in Limits
        BY <2>1, EffectiveLimitLeast DEF LimitCurrent, TypeOK
    <2> QED BY <2>1, <2>2 DEF TypeOK, SlotsAccounted, WorkConserving, AbortDrained
<1>9. ASSUME NEW d \in Limits \cup {0}, SetDiscoveredLimit(d) PROVE Inv'
    <2> USE <1>9 DEF SetDiscoveredLimit
    <2>1. LimitCurrent'
        BY DEF LimitCurrent
    <2>2. limit' \in Limits
        BY <2>1, EffectiveLimitLeast DEF LimitCurrent, TypeOK
    <2> QED BY <2>1, <2>2 DEF TypeOK, SlotsAccounted, WorkConserving, AbortDrained
<1>10. CASE PumpGrant
    <2> USE <1>10 DEF PumpGrant, Pumping
    <2>1. PumpIndex \in 1 .. Len(queue)
        BY <1>0, NextFairIndexInQueue DEF PumpIndex
    <2>2. /\ queue' \in Seq(Req) /\ Distinct(queue')
          /\ QueueSet(queue') = QueueSet(queue) \ {queue[PumpIndex]}
        BY <1>0, <2>1, RemoveIndexProperties
    <2>3. queue[PumpIndex] \in Req /\ st[queue[PumpIndex]] = "queued"
        BY <1>0, <2>1 DEF SlotsAccounted, QueueSet
    <2>4. reqLimit' \in [Req -> Limits] /\ Grant(queue[PumpIndex], reqLimit', queue')
        BY DEF TypeOK
    <2>5. TypeOK' /\ SlotsAccounted' /\ LimitCurrent'
        BY <2>2, <2>3, <2>4, GrantInv
    <2> QED BY <2>5 DEF WorkConserving, AbortDrained
<1>11. CASE PumpDrop
    <2>1. PumpIndex \in 1 .. Len(queue)
        BY <1>0, <1>11, NextFairIndexInQueue DEF PumpDrop, Pumping, PumpIndex
    <2> QED BY <1>11, <2>1, CancelInv DEF PumpDrop, TypeOK
<1>12. CASE PumpEnd
    <2>1. CASE Fired # {} /\ CancelAt(MinOf(Fired)) /\ UNCHANGED aborted
        <3>1. Fired \subseteq Nat /\ Fired \subseteq 1 .. Len(queue)
            BY <1>0 DEF Fired
        <3>2. MinOf(Fired) \in Fired
            BY <2>1, <3>1, MinOfLeast
        <3> QED BY <2>1, <3>1, <3>2, CancelInv DEF TypeOK
    <2>2. CASE /\ Fired = {} /\ pc' = "idle"
               /\ UNCHANGED <<cfgLimit, maxQueued, discovered, running, active,
                              queue, lastOwner, limit, reqLimit, st, aborted>>
        <3>1. running \in Nat /\ limit \in Nat
            BY ConcurrencyAssumption DEF TypeOK, Limits
        <3>2. queue # <<>> => running >= limit
            BY <1>12, <3>1 DEF PumpEnd, Pumping
        <3> QED BY <2>2, <3>2 DEF TypeOK, SlotsAccounted, LimitCurrent,
                                  WorkConserving, AbortDrained, Fired
    <2> QED BY <1>12, <2>1, <2>2 DEF PumpEnd
<1>13. CASE UNCHANGED vars
    BY <1>13 DEF vars, TypeOK, SlotsAccounted, LimitCurrent, WorkConserving,
                 AbortDrained, Fired
<1> QED BY <1>1, <1>2, <1>3, <1>4, <1>5, <1>6, <1>7, <1>8, <1>9, <1>10, <1>11,
           <1>12, <1>13 DEF Next, Pump

\* Only a grant takes a slot: the two ways in which running grows.
LEMMA GrowthIsGrant ==
    ASSUME Inv, Next, running' > running
    PROVE  (\E r \in Req, l \in Limits : AcquireNow(r, l)) \/ PumpGrant
<1>1. running \in Nat
    BY DEF Inv, TypeOK
<1>2. ASSUME NEW r \in Req, AcquireRejected(r) \/ Release(r) \/ Retry(r)
      PROVE  FALSE
    BY <1>1, <1>2 DEF AcquireRejected, Release, Retry
<1>3. ASSUME NEW r \in Req, NEW l \in Limits, AcquireWait(r, l) PROVE FALSE
    BY <1>1, <1>3 DEF AcquireWait
<1>4. ASSUME NEW i, CancelAt(i) PROVE FALSE
    BY <1>1, <1>4 DEF CancelAt
<1>5. ASSUME NEW s \in Signals, Abort(s) \/ NewSignal(s) PROVE FALSE
    BY <1>1, <1>4, <1>5 DEF Abort, NewSignal
<1>6. ASSUME NEW c \in Limits, NEW m \in QueueBounds, Configure(c, m)
      PROVE  FALSE
    BY <1>1, <1>6 DEF Configure
<1>7. ASSUME NEW d \in Limits \cup {0}, SetDiscoveredLimit(d) PROVE FALSE
    BY <1>1, <1>7 DEF SetDiscoveredLimit
<1>8. ASSUME PumpDrop \/ PumpEnd PROVE FALSE
    BY <1>1, <1>4, <1>8 DEF PumpDrop, PumpEnd
<1> QED BY <1>2, <1>3, <1>5, <1>6, <1>7, <1>8 DEF Next, Pump

\* A grant respects every limit that applies, whoever asked for it.
THEOREM GrantsAreWithinEveryLimit == Spec => GrantWithinEveryLimit
<1> DEFINE Within == running' > running =>
             /\ running' <= BaseLimit(cfgLimit', discovered')
             /\ \A r \in active' \cup QueueSet(queue') : running' <= reqLimit'[r]
<1>1. ASSUME Inv, Next PROVE Within
    <2> SUFFICES ASSUME running' > running
                 PROVE  /\ running' <= BaseLimit(cfgLimit', discovered')
                        /\ \A r \in active' \cup QueueSet(queue') :
                             running' <= reqLimit'[r]
        OBVIOUS
    <2>0. /\ running \in Nat /\ Limits \subseteq Nat
          /\ active \subseteq Req /\ queue \in Seq(Req)
          /\ reqLimit \in [Req -> Limits]
        BY <1>1, ConcurrencyAssumption DEF Inv, TypeOK, Limits
    <2>1. /\ limit \in Nat
          /\ limit <= BaseLimit(cfgLimit, discovered)
          /\ \A r \in active \cup QueueSet(queue) : limit <= reqLimit[r]
        BY <1>1, <2>0, EffectiveLimitLeast DEF Inv, TypeOK, LimitCurrent
    <2>2. QueueSet(queue) \subseteq Req /\ BaseLimit(cfgLimit, discovered) \in Nat
        BY <1>1, <2>0 DEF Inv, TypeOK, QueueSet, BaseLimit
    <2>3. ASSUME NEW r \in Req, NEW l \in Limits, AcquireNow(r, l)
          PROVE  /\ running' <= BaseLimit(cfgLimit', discovered')
                 /\ \A x \in active' \cup QueueSet(queue') :
                      running' <= reqLimit'[x]
        <3>1. /\ running' = running + 1 /\ running < limit /\ running < l
              /\ active' = active \cup {r} /\ queue' = queue
              /\ reqLimit' = [reqLimit EXCEPT ![r] = l]
              /\ cfgLimit' = cfgLimit /\ discovered' = discovered
            BY <2>3 DEF AcquireNow, AdmitsNow, Grant
        <3>2. ASSUME NEW x \in active' \cup QueueSet(queue')
              PROVE  running' <= reqLimit'[x]
            <4>1. CASE x = r
                BY <2>0, <3>1, <4>1
            <4>2. CASE x # r
                <5>1. x \in active \cup QueueSet(queue) /\ x \in Req
                    BY <2>0, <2>2, <3>1, <4>2
                <5>2. reqLimit'[x] = reqLimit[x] /\ reqLimit[x] \in Nat
                    BY <2>0, <3>1, <4>2, <5>1
                <5> QED BY <2>0, <2>1, <3>1, <5>1, <5>2
            <4> QED BY <4>1, <4>2
        <3> QED BY <2>0, <2>1, <2>2, <3>1, <3>2
    <2>4. CASE PumpGrant
        <3>1. /\ running' = running + 1 /\ running < limit /\ queue # <<>>
              /\ active' = active \cup {queue[PumpIndex]}
              /\ queue' = RemoveIndex(queue, PumpIndex)
              /\ reqLimit' = reqLimit
              /\ cfgLimit' = cfgLimit /\ discovered' = discovered
            BY <2>4 DEF PumpGrant, Pumping, Grant
        <3>2. PumpIndex \in 1 .. Len(queue)
            BY <2>0, <3>1, NextFairIndexInQueue DEF PumpIndex
        <3>3. QueueSet(queue') \subseteq QueueSet(queue)
            BY <1>1, <2>0, <3>1, <3>2, RemoveIndexProperties
            DEF Inv, SlotsAccounted, Distinct
        <3>4. active' \cup QueueSet(queue') \subseteq active \cup QueueSet(queue)
            BY <3>1, <3>2, <3>3 DEF QueueSet
        <3>5. \A x \in active \cup QueueSet(queue) : reqLimit[x] \in Nat
            BY <2>0, <2>2
        <3> QED BY <2>0, <2>1, <2>2, <3>1, <3>4, <3>5
    <2> QED BY <1>1, <2>3, <2>4, GrowthIsGrant
<1>2. ASSUME UNCHANGED vars, Inv PROVE Within
    BY <1>2 DEF vars, Inv, TypeOK
<1>3. Inv /\ [Next]_vars => [Within]_vars
    BY <1>1, <1>2
<1> QED BY <1>3, InitInv, NextInv, PTL DEF Spec, GrantWithinEveryLimit

\* For any number of waiters and owners: the head of the queue is passed over only
\* when its owner was the last one served, and the slot after that is its.
THEOREM HeadIsPassedOverOnce == Spec => HeadPassedOverOnce
<1> DEFINE Fair == (queue # <<>> /\ queue' # <<>> /\ running' > running /\ Head(queue') = Head(queue)) =>
                     /\ OwnerOf[Head(queue)] = lastOwner
                     /\ OwnerOf[Head(queue)] # lastOwner'
                     /\ NextFairIndex(queue', lastOwner') = 1
<1>1. ASSUME Inv, Next PROVE Fair
    <2> SUFFICES ASSUME queue # <<>>, queue' # <<>>, running' > running, Head(queue') = Head(queue)
                 PROVE  /\ OwnerOf[Head(queue)] = lastOwner
                        /\ OwnerOf[Head(queue)] # lastOwner'
                        /\ NextFairIndex(queue', lastOwner') = 1
        OBVIOUS
    <2>1. PumpGrant
        BY <1>1, GrowthIsGrant DEF AcquireNow, AdmitsNow
    <2>2. /\ queue' = RemoveIndex(queue, PumpIndex) /\ lastOwner' = OwnerOf[queue[PumpIndex]]
          /\ queue \in Seq(Req) /\ Distinct(queue)
        BY <1>1, <2>1 DEF PumpGrant, Grant, Inv, TypeOK, SlotsAccounted, Distinct
    <2>3. PumpIndex \in 1 .. Len(queue)
        BY <2>2, NextFairIndexInQueue DEF PumpIndex
    <2>4. /\ queue' \in Seq(Req) /\ Len(queue') = Len(queue) - 1 /\ Len(queue) \in Nat
          /\ \A k \in 1 .. Len(queue) - 1 : queue'[k] = IF k < PumpIndex THEN queue[k] ELSE queue[k + 1]
        BY <2>2, <2>3, RemoveIndexProperties, LenProperties
    <2>5. Head(queue) = queue[1] /\ Head(queue') = queue'[1] /\ Len(queue') >= 1
        BY <2>2, <2>4, EmptySeq, LenProperties
    <2>6. PumpIndex # 1
        <3>1. SUFFICES ASSUME PumpIndex = 1 PROVE FALSE
            OBVIOUS
        <3>2. queue'[1] = queue[2] /\ 2 \in 1 .. Len(queue) /\ 1 \in 1 .. Len(queue)
            BY <2>4, <2>5, <3>1
        <3> QED BY <2>2, <2>5, <3>2 DEF Distinct
    <2>7. OwnerOf[queue[1]] = lastOwner /\ OwnerOf[queue[PumpIndex]] # lastOwner
        BY <2>2, <2>6, PassedOver DEF PumpIndex
    <2>8. OwnerOf[queue'[1]] # lastOwner'
        BY <2>2, <2>5, <2>7
    <2> QED BY <2>2, <2>4, <2>5, <2>7, <2>8, HeadIsNext
<1>2. ASSUME UNCHANGED vars, Inv PROVE Fair
    BY <1>2 DEF vars, Inv, TypeOK
<1>3. Inv /\ [Next]_vars => [Fair]_vars
    BY <1>1, <1>2
<1> QED BY <1>3, InitInv, NextInv, PTL DEF Spec, HeadPassedOverOnce

\* The variables keep their types.
THEOREM TypeCorrect == Spec => []TypeOK
<1>1. Inv => TypeOK
    BY DEF Inv
<1> QED BY <1>1, InitInv, NextInv, PTL DEF Spec

\* For any number of callers, owners, signals and limits: the counter, the
\* set of grants and the queue agree, and a request never both waits and holds
\* a slot.
THEOREM SlotsAreAccounted == Spec => []SlotsAccounted
<1>1. Inv => SlotsAccounted
    BY DEF Inv
<1> QED BY <1>1, InitInv, NextInv, PTL DEF Spec

\* The limit #pump and acquire read is never stale.
THEOREM LimitIsCurrent == Spec => []LimitCurrent
<1>1. Inv => LimitCurrent
    BY DEF Inv
<1> QED BY <1>1, InitInv, NextInv, PTL DEF Spec

\* No wakeup is lost: a request waits only while all slots are taken.
THEOREM NoLostWakeup == Spec => []WorkConserving
<1>1. Inv => WorkConserving
    BY DEF Inv
<1> QED BY <1>1, InitInv, NextInv, PTL DEF Spec

\* No waiter outlives its abort signal.
THEOREM AbortIsDrained == Spec => []AbortDrained
<1>1. Inv => AbortDrained
    BY DEF Inv
<1> QED BY <1>1, InitInv, NextInv, PTL DEF Spec
=============================================================================
