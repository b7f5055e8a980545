---------------------------- MODULE NumberLemmas ----------------------------
(***************************************************************************)
(* Facts about sets of numbers that several proofs need.                   *)
(***************************************************************************)
EXTENDS Naturals, FiniteSets, FiniteSetTheorems, NaturalsInduction, WellFoundedInduction, TLAPS

\* A set of numbers that is not empty has a least member: the proofs by induction
\* over the lines of a journal rest on it.
LEMMA LeastNumber ==
    ASSUME NEW S, S \subseteq Nat, S # {}
    PROVE  \E x \in S : \A y \in S : x <= y
<1> DEFINE LT == {ss \in Nat \X Nat : ss[1] < ss[2]}
<1>1. IsWellFoundedOn(LT, Nat)
    BY NatLessThanWellFounded DEF OpToRel
<1>2. \E x \in S : \A y \in S : ~(<<y, x>> \in LT)
    <2> HIDE DEF LT
    <2> QED BY <1>1, WFMin
<1>3. PICK x \in S : \A y \in S : ~(<<y, x>> \in LT)
    BY <1>2
<1>4. ASSUME NEW y \in S PROVE x <= y
    <2>1. x \in Nat /\ y \in Nat
        OBVIOUS
    <2>2. <<y, x>> \in LT <=> y < x
        BY <2>1
    <2> QED BY <1>3, <2>1, <2>2
<1> QED BY <1>4

\* at lists the members of I from the least to the greatest.
Lists(at, I) ==
    /\ at \in [1 .. Cardinality(I) -> I]
    /\ \A i, j \in 1 .. Cardinality(I) : i < j => at[i] < at[j]
    /\ \A x \in I : \E k \in 1 .. Cardinality(I) : at[k] = x

\* The places 1 to m of a sequence that were selected can be listed in order.
LEMMA PlacesListed ==
    ASSUME NEW m \in Nat, NEW I, I \subseteq 1 .. m
    PROVE  IsFiniteSet(I) /\ Cardinality(I) \in Nat /\ \E at : Lists(at, I)
<1> DEFINE Good(k) == \A J \in SUBSET (1 .. k) : \E at : Lists(at, J)
<1> DEFINE Bad == {k \in Nat : ~Good(k)}
<1>0. ASSUME NEW k \in Nat, NEW J, J \subseteq 1 .. k PROVE IsFiniteSet(J) /\ Cardinality(J) \in Nat
    <2>1. J \in SUBSET Nat /\ \A x \in J : x <= k
        BY <1>0
    <2>2. IsFiniteSet(J)
        BY <2>1, FS_BoundedSetOfNaturals
    <2> QED BY <2>2, FS_CardinalityType
<1>1. IsFiniteSet(I) /\ Cardinality(I) \in Nat
    BY <1>0
<1>2. Good(0)
    <2>1. ASSUME NEW J \in SUBSET (1 .. 0) PROVE \E at : Lists(at, J)
        <3>0. J = {}
            <4>1. \A x \in 1 .. 0 : FALSE
                OBVIOUS
            <4> QED BY <4>1
        <3>1. J = {} /\ Cardinality(J) = 0
            BY <3>0, FS_EmptySet
        <3>2. Lists([i \in 1 .. 0 |-> i], J)
            BY <3>1 DEF Lists
        <3> QED BY <3>2
    <2> QED BY <2>1
<1>3. ASSUME NEW k \in Nat, Good(k) PROVE Good(k + 1)
    <2>1. ASSUME NEW J \in SUBSET (1 .. k + 1) PROVE \E at : Lists(at, J)
        <3>1. CASE k + 1 \notin J
            <4>1. J \subseteq 1 .. k
                BY <3>1
            <4> QED BY <1>3, <4>1
        <3>2. CASE k + 1 \in J
            <4> DEFINE K == J \ {k + 1}
            <4>1. K \subseteq 1 .. k
                BY <3>2
            <4>2. PICK at : Lists(at, K)
                BY <1>3, <4>1
            <4>3. IsFiniteSet(K) /\ J = K \cup {k + 1} /\ k + 1 \notin K
                BY <1>0, <3>2, <4>1
            <4>4. Cardinality(J) = Cardinality(K) + 1 /\ Cardinality(K) \in Nat
                BY <4>3, FS_AddElement, FS_CardinalityType
            <4> DEFINE n == Cardinality(K)
            <4> DEFINE ay == [i \in 1 .. n + 1 |-> IF i = n + 1 THEN k + 1 ELSE at[i]]
            <4> HIDE DEF K
            <4>5. at \in [1 .. n -> K] /\ (\A i, j \in 1 .. n : i < j => at[i] < at[j])
                  /\ \A x \in K : \E i \in 1 .. n : at[i] = x
                BY <4>2 DEF Lists
            <4> HIDE DEF n
            <4>6. n \in Nat /\ Cardinality(J) = n + 1
                BY <4>4 DEF n
            <4>7. \A i \in 1 .. n : i \in 1 .. n + 1 /\ i # n + 1 /\ ay[i] = at[i] /\ at[i] \in 1 .. k
                <5>1. \A i \in 1 .. n : i \in 1 .. n + 1 /\ i # n + 1
                    BY <4>6
                <5>2. \A i \in 1 .. n : at[i] \in 1 .. k
                    BY <4>1, <4>5
                <5> QED BY <5>1, <5>2
            <4>8. n + 1 \in 1 .. n + 1 /\ ay[n + 1] = k + 1
                BY <4>6
            <4>9. \A i \in 1 .. n + 1 : i # n + 1 => i \in 1 .. n
                BY <4>6
            <4>10. ay \in [1 .. n + 1 -> J]
                <5>1. \A i \in 1 .. n + 1 : ay[i] \in J
                    BY <4>3, <4>5, <4>7, <4>8, <4>9
                <5> QED BY <5>1
            <4> HIDE DEF ay
            <4>11. ASSUME NEW i \in 1 .. n + 1, NEW j \in 1 .. n + 1, i < j PROVE ay[i] < ay[j]
                <5>1. i \in 1 .. n
                    BY <4>6, <4>11
                <5>2. CASE j = n + 1
                    <6>1. at[i] < k + 1
                        BY <4>7, <5>1
                    <6> QED BY <4>7, <4>8, <5>1, <5>2, <6>1
                <5>3. CASE j # n + 1
                    BY <4>5, <4>7, <4>9, <4>11, <5>1, <5>3
                <5> QED BY <5>2, <5>3
            <4>12. ASSUME NEW x \in J PROVE \E i \in 1 .. n + 1 : ay[i] = x
                <5>1. CASE x = k + 1
                    BY <4>8, <5>1
                <5>2. CASE x # k + 1
                    BY <4>3, <4>5, <4>7, <5>2
                <5> QED BY <5>1, <5>2
            <4>13. Lists(ay, J)
                BY <4>6, <4>10, <4>11, <4>12 DEF Lists
            <4> QED BY <4>13
        <3> QED BY <3>1, <3>2
    <2> QED BY <2>1
<1> HIDE DEF Good
<1>4. ASSUME Bad # {} PROVE FALSE
    <2>1. PICK k \in Bad : \A j \in Bad : k <= j
        BY <1>4, LeastNumber
    <2>2. k \in Nat /\ ~Good(k) /\ k # 0
        BY <1>2
    <2>3. k - 1 \in Nat /\ (k - 1) + 1 = k /\ ~(k <= k - 1)
        BY <2>2
    <2>4. Good(k - 1)
        BY <2>1, <2>3
    <2> QED BY <1>3, <2>2, <2>3, <2>4
<1>5. Good(m)
    BY <1>4
<1> QED BY <1>1, <1>5 DEF Good

\* A set without two different members has at most one.
LEMMA AtMostOne ==
    ASSUME NEW S, \A x, y \in S : x = y
    PROVE  IsFiniteSet(S) /\ Cardinality(S) <= 1
<1>1. CASE S = {}
    BY <1>1, FS_EmptySet
<1>2. ASSUME NEW x \in S PROVE IsFiniteSet(S) /\ Cardinality(S) <= 1
    <2>1. S = {x}
        BY <1>2
    <2>2. IsFiniteSet({x}) /\ Cardinality({x}) = 1
        BY FS_Singleton
    <2> QED BY <2>1, <2>2
<1> QED
    BY <1>1, <1>2
=============================================================================
