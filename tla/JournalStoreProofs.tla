------------------------- MODULE JournalStoreProofs -------------------------
(***************************************************************************)
(* Proofs about JournalStore, for any number of openings and of files at   *)
(* the path, all sets of values and journals of every length; JournalStore *)
(* implements DurableLog.                                                  *)
(***************************************************************************)
EXTENDS JournalStore, NumberLemmas, SequenceTheorems, TLAPS

\* Every line is accepted and the last one has its newline.
Intact(f) == ~CorruptTail(f) /\ Terminated(f)

\* Only the last line of a file can lack its newline.
Lined(f) == \A i \in 1 .. Len(f) - 1 : f[i].form \in {"line", "bad"}

\* A write under way has something to write, and one that was given up is of a
\* store that flushes no more.
Writes(r) ==
    /\ r.pc \in {"write", "sync"} \/ r.late => r.val \in Values
    /\ r.pc \in {"newline", "write", "sync"} => r.handle # 0 /\ ~r.failed
    /\ r.late => r.failed /\ r.handle # 0 /\ r.pc \in {"idle", "closed"}
    /\ r.pc \in {"replace", "reopen"} => r.handle = 0
    /\ r.pc = "new" => ~r.failed

Writing == \A s \in Stores : Writes(store[s])

\* What was acknowledged is on the disk; the last line is not if it has no newline.
OnDisk ==
    /\ Len(acked) <= synced
    /\ Terminated(file) \/ synced < Len(file)

\* No store has the lock while the operator's command is under way: one of them
\* works on a corrupt journal, which is not opened, the other on one that is left
\* alone.
Commanded ==
    /\ command.name # "none" => LockFree
    /\ command.name = "compact" => ~CorruptTail(file) /\ command.read = Log
    /\ command.name \in {"repair", "away"} => CorruptTail(file)
    /\ command.name # "overtaken"

OneActive == \A s, t \in Stores : Active(s) /\ Active(t) => s = t

\* How the chain of the store that has the lock, the file and its handle fit.
Fits(r) ==
    /\ r.handle \in {0, gen}
    /\ r.pc # "reopen" => IsPrefix(r.chain, Log)
    /\ r.pc = "newline" => ~CorruptTail(file) /\ ~Terminated(file) /\ r.chain = Log
    /\ \/ r.pc = "write"
       \/ r.pc = "idle" /\ r.handle # 0 /\ (r.late \/ ~r.failed)
       => Intact(file) /\ r.chain = Log
    /\ r.pc = "sync" => Intact(file) /\ Log = Append(r.chain, r.val)
    /\ r.pc = "reopen" => Intact(file)

OwnerFits == \A s \in Stores : Active(s) => Fits(store[s])

Sound == IsPrefix(acked, Log) /\ OnDisk /\ Commanded /\ OneActive /\ OwnerFits

Inv == TypeOK /\ Lined(file) /\ Writing /\ (hurt = {} => Sound)

\* What a step does to what an opening would find and to what was acknowledged.
LogStep ==
    \/ UNCHANGED <<Log, acked>>
    \/ UNCHANGED acked /\ \E v \in Values : Log' = Append(Log, v)
    \/ UNCHANGED acked /\ \E k \in Len(acked) .. Len(Log) : Log' = SubSeq(Log, 1, k)
    \/ UNCHANGED Log /\ acked' = Log
    \/ Log' \in D!Thinned(Log) /\ acked' = Log'
    \/ (\E s \in Stores : store[s].pc = "replace") /\ Log' \in Seq(Values) /\ acked' = Log'

----------------------------------------------------------------------------
(* Sequences. *)

\* A prefix agrees with its sequence at all its places.
LEMMA PrefixIs ==
    ASSUME NEW S, NEW a \in Seq(S), NEW b \in Seq(S)
    PROVE  IsPrefix(a, b) <=> Len(a) <= Len(b) /\ \A i \in 1 .. Len(a) : a[i] = b[i]
<1>1. SUFFICES ASSUME Len(a) <= Len(b)
               PROVE  SubSeq(a, 1, Len(a)) = SubSeq(b, 1, Len(a))
                        <=> \A i \in 1 .. Len(a) : a[i] = b[i]
    BY DEF IsPrefix
<1>2. Len(a) \in Nat /\ Len(b) \in Nat
    OBVIOUS
<1>3. SubSeq(a, 1, Len(a)) = [i \in 1 .. Len(a) |-> a[i]]
    BY <1>2
<1>4. SubSeq(b, 1, Len(a)) = [i \in 1 .. Len(a) |-> b[i]]
    BY <1>1, <1>2
<1> QED
    BY <1>3, <1>4

\* The values of the first lines of a file.
LEMMA ValuesTyped ==
    ASSUME NEW f \in Seq(Lines), NEW k \in 0 .. Len(f)
    PROVE  /\ ValuesOf(f, k) \in Seq(Values) /\ Len(ValuesOf(f, k)) = k
           /\ \A i \in 1 .. k : ValuesOf(f, k)[i] = f[i].val
<1>1. k \in Nat /\ \A i \in 1 .. k : f[i] \in Lines
    OBVIOUS
<1>2. \A i \in 1 .. k : f[i].val \in Values
    BY <1>1 DEF Lines
<1>3. ValuesOf(f, k) \in [1 .. k -> Values]
    BY <1>2 DEF ValuesOf
<1> QED
    BY <1>1, <1>3, IsASeq DEF ValuesOf

----------------------------------------------------------------------------
(* Recovery. *)

\* What recoverJournal accepts of f are its first k lines.
Recovers(f, k) ==
    /\ k \in 0 .. Len(f)
    /\ \A i \in 1 .. k : Chained(f, i)
    /\ k = Len(f) \/ ~Chained(f, k + 1)

Recovered(f) == ValuesOf(f, Verified(f))

\* There is one place where a recovery stops.
LEMMA RecoversOnce ==
    ASSUME NEW f \in Seq(Lines), NEW k, Recovers(f, k)
    PROVE  Verified(f) = k
<1>0. Len(f) \in Nat
    OBVIOUS
<1>1. ASSUME NEW j, Recovers(f, j) PROVE j = k
    <2>1. j \in Nat /\ k \in Nat /\ j <= Len(f) /\ k <= Len(f)
        BY <1>0, <1>1 DEF Recovers
    <2>2. ~(j < k)
        <3>1. ASSUME j < k PROVE FALSE
            <4>1. j + 1 \in 1 .. k /\ j # Len(f)
                BY <2>1, <3>1, <1>0
            <4> QED
                BY <4>1, <1>1 DEF Recovers
        <3> QED BY <3>1
    <2>3. ~(k < j)
        <3>1. ASSUME k < j PROVE FALSE
            <4>1. k + 1 \in 1 .. j /\ k # Len(f)
                BY <2>1, <3>1, <1>0
            <4> QED
                BY <4>1, <1>1 DEF Recovers
        <3> QED BY <3>1
    <2> QED BY <2>1, <2>2, <2>3
<1>2. Verified(f) = CHOOSE j \in 0 .. Len(f) : Recovers(f, j)
    BY DEF Verified, Recovers
<1>3. k \in 0 .. Len(f)
    BY DEF Recovers
<1> QED
    BY <1>1, <1>2, <1>3

\* A recovery stops somewhere.
LEMMA RecoversSome ==
    ASSUME NEW f \in Seq(Lines)
    PROVE  Recovers(f, Verified(f))
<1> DEFINE B == {i \in 1 .. Len(f) : ~Chained(f, i)}
<1>0. Len(f) \in Nat
    OBVIOUS
<1>1. \E k : Recovers(f, k)
    <2>1. CASE B = {}
        <3>1. Recovers(f, Len(f))
            BY <1>0, <2>1 DEF Recovers
        <3> QED BY <3>1
    <2>2. CASE B # {}
        <3>1. B \subseteq Nat
            BY <1>0
        <3>2. PICK b \in B : \A y \in B : b <= y
            BY <2>2, <3>1, LeastNumber
        <3>3. b \in 1 .. Len(f) /\ ~Chained(f, b)
            OBVIOUS
        <3>4. b - 1 \in 0 .. Len(f) /\ (b - 1) + 1 = b
            BY <1>0, <3>3
        <3>5. ASSUME NEW i \in 1 .. b - 1 PROVE Chained(f, i)
            <4>1. i \in 1 .. Len(f) /\ ~(b <= i)
                BY <1>0, <3>3
            <4> QED
                BY <3>2, <4>1
        <3>6. Recovers(f, b - 1)
            BY <3>3, <3>4, <3>5 DEF Recovers
        <3> QED BY <3>6
    <2> QED BY <2>1, <2>2
<1> QED
    BY <1>1, RecoversOnce

\* What is recovered are the values of the lines accepted.
LEMMA RecoveredTyped ==
    ASSUME NEW f \in Seq(Lines)
    PROVE  /\ Recovered(f) \in Seq(Values) /\ Len(Recovered(f)) = Verified(f)
           /\ Verified(f) \in 0 .. Len(f)
           /\ \A i \in 1 .. Verified(f) : Recovered(f)[i] = f[i].val
           /\ CorruptTail(f) <=> Verified(f) # Len(f)
<1>1. Verified(f) \in 0 .. Len(f)
    BY RecoversSome DEF Recovers
<1> QED
    BY <1>1, ValuesTyped DEF Recovered, CorruptTail

\* Whether a line is accepted depends on the values before it and on itself.
LEMMA SameChained ==
    ASSUME NEW f \in Seq(Lines), NEW g \in Seq(Lines), NEW i \in 1 .. Len(f), i <= Len(g),
           \A j \in 1 .. i - 1 : g[j].val = f[j].val, g[i].prev = f[i].prev,
           g[i].form \in {"line", "bare"} <=> f[i].form \in {"line", "bare"}
    PROVE  Chained(g, i) <=> Chained(f, i)
<1>1. ValuesOf(g, i - 1) = ValuesOf(f, i - 1)
    BY DEF ValuesOf
<1> QED
    BY <1>1 DEF Chained

\* Lines in front that stay as they are stay accepted.
LEMMA SameFront ==
    ASSUME NEW f \in Seq(Lines), NEW g \in Seq(Lines), NEW k \in 0 .. Len(f), k <= Len(g),
           \A j \in 1 .. k : /\ g[j].val = f[j].val /\ g[j].prev = f[j].prev
                             /\ g[j].form \in {"line", "bare"} <=> f[j].form \in {"line", "bare"}
    PROVE  \A i \in 1 .. k : Chained(g, i) <=> Chained(f, i)
<1>1. ASSUME NEW i \in 1 .. k PROVE Chained(g, i) <=> Chained(f, i)
    <2>1. i \in 1 .. Len(f) /\ i <= Len(g) /\ \A j \in 1 .. i - 1 : j \in 1 .. k
        OBVIOUS
    <2> QED
        BY <2>1, SameChained
<1> QED BY <1>1

----------------------------------------------------------------------------
(* What happens to files. *)

\* What is recovered of a file that keeps fewer of the lines accepted.
LEMMA FrontRecovered ==
    ASSUME NEW f \in Seq(Lines), NEW g \in Seq(Lines), Verified(g) <= Verified(f),
           \A j \in 1 .. Verified(g) : g[j].val = f[j].val
    PROVE  Recovered(g) = SubSeq(Recovered(f), 1, Verified(g))
<1> DEFINE m == Verified(g)
<1> DEFINE n == Verified(f)
<1>1. m \in Nat /\ n \in Nat /\ m <= n
    BY RecoveredTyped
<1>2. /\ Recovered(g) = [i \in 1 .. m |-> g[i].val]
      /\ Recovered(f) = [i \in 1 .. n |-> f[i].val]
    BY DEF Recovered, ValuesOf
<1>3. Recovered(f) \in Seq(Values) /\ Len(Recovered(f)) = n
    BY RecoveredTyped
<1> HIDE DEF m, n
<1>4. SubSeq(Recovered(f), 1, m) = [i \in 1 .. m |-> Recovered(f)[i]]
    BY <1>1, <1>3
<1>5. \A i \in 1 .. m : g[i].val = Recovered(f)[i]
    BY <1>1, <1>2 DEF m
<1>6. Recovered(g) = SubSeq(Recovered(f), 1, m)
    BY <1>2, <1>4, <1>5
<1> QED
    BY <1>6 DEF m

\* Lines at the end are gone.
LEMMA LinesCut ==
    ASSUME NEW f \in Seq(Lines), NEW k \in 0 .. Len(f)
    PROVE  LET g == SubSeq(f, 1, k)
           IN  /\ g \in Seq(Lines) /\ Len(g) = k /\ \A i \in 1 .. k : g[i] = f[i]
               /\ Verified(g) = IF Verified(f) <= k THEN Verified(f) ELSE k
               /\ Recovered(g) = SubSeq(Recovered(f), 1, Verified(g))
<1> DEFINE g == SubSeq(f, 1, k)
<1> DEFINE n == Verified(f)
<1> DEFINE m == IF n <= k THEN n ELSE k
<1>0. Len(f) \in Nat /\ k \in Nat /\ k <= Len(f)
    OBVIOUS
<1>1. g \in Seq(Lines) /\ Len(g) = k /\ \A i \in 1 .. k : g[i] = f[i]
    BY <1>0, SubSeqProperties
<1>2. n \in 0 .. Len(f) /\ (\A i \in 1 .. n : Chained(f, i)) /\ (n = Len(f) \/ ~Chained(f, n + 1))
    BY RecoversSome DEF Recovers
<1> HIDE DEF g, n
<1>3. \A i \in 1 .. k : Chained(g, i) <=> Chained(f, i)
    BY <1>0, <1>1, SameFront
<1>4. m \in 0 .. k /\ m <= n
    BY <1>0, <1>2
<1>5. \A i \in 1 .. m : Chained(g, i)
    BY <1>2, <1>3, <1>4, <1>0
<1>6. m = k \/ ~Chained(g, m + 1)
    BY <1>0, <1>2, <1>3
<1>7. Recovers(g, m)
    BY <1>1, <1>4, <1>5, <1>6 DEF Recovers
<1>8. Verified(g) = m
    BY <1>1, <1>7, RecoversOnce
<1>9. \A j \in 1 .. m : g[j].val = f[j].val
    BY <1>0, <1>1, <1>4
<1>10. Recovered(g) = SubSeq(Recovered(f), 1, Verified(g))
    BY <1>1, <1>4, <1>8, <1>9, FrontRecovered DEF n
<1> QED
    BY <1>1, <1>8, <1>10 DEF g, n

\* The form of a line changes and nothing else.
LEMMA FormChanges ==
    ASSUME NEW f \in Seq(Lines), NEW k \in 1 .. Len(f), NEW form \in Forms
    PROVE  LET g == [f EXCEPT ![k].form = form]
           IN  /\ g \in Seq(Lines) /\ Len(g) = Len(f)
               /\ \A i \in 1 .. Len(f) : g[i].val = f[i].val /\ g[i].prev = f[i].prev
               /\ \A i \in 1 .. Len(f) : i # k => g[i] = f[i]
               /\ g[k].form = form
<1> DEFINE g == [f EXCEPT ![k].form = form]
<1> DEFINE l == [f[k] EXCEPT !.form = form]
<1>1. \A i \in 1 .. Len(f) : f[i] \in Lines
    OBVIOUS
<1>2. l \in Lines /\ l.val = f[k].val /\ l.prev = f[k].prev /\ l.form = form
    BY <1>1 DEF Lines
<1>3. g = [f EXCEPT ![k] = l]
    OBVIOUS
<1> HIDE DEF l, g
<1>4. g \in Seq(Lines) /\ Len(g) = Len(f)
    BY <1>2, <1>3, ExceptSeq
<1>5. g[k] = l /\ \A i \in 1 .. Len(f) : i # k => g[i] = f[i]
    BY <1>3, ExceptSeq, <1>2
<1> QED
    BY <1>2, <1>4, <1>5 DEF g

\* A file whose last line is changed is recovered up to it, or with it.
LEMMA LastChanges ==
    ASSUME NEW f \in Seq(Lines), f # <<>>, NEW form \in Forms
    PROVE  LET g == [f EXCEPT ![Len(f)].form = form]
           IN  /\ g \in Seq(Lines) /\ Len(g) = Len(f) /\ g[Len(g)].form = form
               /\ form \in {"part", "bad"} =>
                    /\ CorruptTail(f) => Recovered(g) = Recovered(f)
                    /\ ~CorruptTail(f) => Recovered(g) = SubSeq(Recovered(f), 1, Len(f) - 1)
               /\ form \in {"line", "bare"} /\ f[Len(f)].form \in {"line", "bare"} =>
                    Verified(g) = Verified(f) /\ Recovered(g) = Recovered(f)
<1> DEFINE k == Len(f)
<1> DEFINE g == [f EXCEPT ![k].form = form]
<1> DEFINE n == Verified(f)
<1>0. k \in Nat \ {0} /\ k \in 1 .. k
    BY EmptySeq
<1>1. /\ g \in Seq(Lines) /\ Len(g) = k
      /\ \A i \in 1 .. k : g[i].val = f[i].val /\ g[i].prev = f[i].prev
      /\ \A i \in 1 .. k : i # k => g[i] = f[i]
      /\ g[k].form = form
    BY <1>0, FormChanges
<1>2. /\ n \in 0 .. k /\ (\A i \in 1 .. n : Chained(f, i)) /\ (n = k \/ ~Chained(f, n + 1))
      /\ CorruptTail(f) <=> n # k
    BY RecoversSome, RecoveredTyped DEF Recovers
<1>3. \A i \in 1 .. k - 1 : Chained(g, i) <=> Chained(f, i)
    <2> HIDE DEF g
    <2>1. k - 1 \in 0 .. Len(f) /\ k - 1 <= Len(g)
        BY <1>0, <1>1
    <2>2. \A j \in 1 .. k - 1 : g[j] = f[j]
        BY <1>0, <1>1
    <2> QED
        BY <1>1, <2>1, <2>2, SameFront
<1> HIDE DEF g, n, k
<1>4. ASSUME NEW m \in 0 .. n, Recovers(g, m)
      PROVE  Verified(g) = m /\ Recovered(g) = SubSeq(Recovered(f), 1, m)
    <2>1. Verified(g) = m
        BY <1>1, <1>4, RecoversOnce
    <2>2. \A j \in 1 .. m : g[j].val = f[j].val
        BY <1>0, <1>1, <1>2
    <2> QED
        BY <1>0, <1>1, <1>2, <2>1, <2>2, FrontRecovered DEF n
<1>5. SubSeq(Recovered(f), 1, n) = Recovered(f)
    BY RecoveredTyped, SubSeqFull DEF n
<1>6. ASSUME form \in {"part", "bad"}
      PROVE  /\ CorruptTail(f) => Recovered(g) = Recovered(f)
             /\ ~CorruptTail(f) => Recovered(g) = SubSeq(Recovered(f), 1, k - 1)
    <2>1. ~Chained(g, k)
        BY <1>1, <1>6 DEF Chained
    <2>2. CASE n # k
        <3>1. Recovers(g, n)
            <4>1. n \in 0 .. Len(g) /\ \A i \in 1 .. n : Chained(g, i)
                BY <1>0, <1>1, <1>2, <1>3, <2>2
            <4>2. ~Chained(g, n + 1)
                <5>1. CASE n + 1 = k
                    BY <2>1, <5>1
                <5>2. CASE n + 1 # k
                    <6>1. n + 1 \in 1 .. k - 1
                        BY <1>0, <1>2, <2>2, <5>2
                    <6> QED BY <1>2, <1>3, <2>2, <6>1
                <5> QED BY <5>1, <5>2
            <4> QED BY <4>1, <4>2 DEF Recovers
        <3>2. n \in 0 .. n
            BY <1>2, <1>0
        <3> QED
            BY <1>2, <1>4, <1>5, <2>2, <3>1, <3>2
    <2>3. CASE n = k
        <3>1. Recovers(g, k - 1)
            <4>1. k - 1 \in 0 .. Len(g) /\ (k - 1) + 1 = k
                BY <1>0, <1>1
            <4>2. \A i \in 1 .. k - 1 : Chained(g, i)
                BY <1>0, <1>2, <1>3, <2>3
            <4> QED BY <2>1, <4>1, <4>2 DEF Recovers
        <3>2. k - 1 \in 0 .. n
            BY <1>0, <2>3
        <3> QED
            BY <1>2, <1>4, <2>3, <3>1, <3>2
    <2> QED BY <2>2, <2>3
<1>7. ASSUME form \in {"line", "bare"}, f[k].form \in {"line", "bare"}
      PROVE  Verified(g) = n /\ Recovered(g) = Recovered(f)
    <2>1. \A i \in 1 .. k : Chained(g, i) <=> Chained(f, i)
        <3>1. \A j \in 1 .. k : g[j].form \in {"line", "bare"} <=> f[j].form \in {"line", "bare"}
            BY <1>1, <1>7
        <3>2. k \in 0 .. Len(f)
            BY <1>0 DEF k
        <3> QED
            BY <1>0, <1>1, <3>1, <3>2, SameFront
    <2>2. Recovers(g, n)
        <3>1. n \in 0 .. Len(g) /\ (\A i \in 1 .. n : Chained(g, i))
            BY <1>0, <1>1, <1>2, <2>1
        <3>2. n = Len(g) \/ ~Chained(g, n + 1)
            BY <1>0, <1>1, <1>2, <2>1
        <3> QED BY <3>1, <3>2 DEF Recovers
    <2>3. n \in 0 .. n
        BY <1>2, <1>0
    <2> QED
        BY <1>4, <1>5, <2>2, <2>3
<1> QED
    BY <1>1, <1>6, <1>7 DEF g, k, n

\* Whether a file is terminated is the form of its last line.
LEMMA TerminatedIs ==
    ASSUME NEW f \in Seq(Lines)
    PROVE  /\ Terminated(f) <=> Len(f) = 0 \/ f[Len(f)].form \in {"line", "bad"}
           /\ ~Terminated(f) => f # <<>> /\ Len(f) > 0 /\ f[Len(f)].form \in {"part", "bare"}
<1>1. f = <<>> <=> Len(f) = 0
    BY EmptySeq
<1>2. Len(f) # 0 => Len(f) \in 1 .. Len(f) /\ Len(f) > 0
    OBVIOUS
<1>3. Len(f) # 0 => f[Len(f)].form \in Forms
    <2>1. Len(f) # 0 => f[Len(f)] \in Lines
        BY <1>2
    <2> QED BY <2>1 DEF Lines
<1> QED
    BY <1>1, <1>2, <1>3 DEF Terminated, Forms

\* A line that is not accepted leaves the recovery as it was, another one is next.
LEMMA LineAppended ==
    ASSUME NEW f \in Seq(Lines), NEW l \in Lines
    PROVE  LET g == Append(f, l)
           IN  /\ g \in Seq(Lines) /\ Len(g) = Len(f) + 1 /\ g[Len(g)] = l
               /\ \A i \in 1 .. Len(f) : g[i] = f[i]
               /\ ~CorruptTail(f) /\ l.form \in {"line", "bare"} /\ l.prev = Recovered(f) =>
                    ~CorruptTail(g) /\ Recovered(g) = Append(Recovered(f), l.val)
               /\ ~(~CorruptTail(f) /\ l.form \in {"line", "bare"} /\ l.prev = Recovered(f)) =>
                    Recovered(g) = Recovered(f)
<1> DEFINE g == Append(f, l)
<1> DEFINE k == Len(f)
<1> DEFINE n == Verified(f)
<1>0. k \in Nat
    OBVIOUS
<1>1. g \in Seq(Lines) /\ Len(g) = k + 1 /\ g[k + 1] = l /\ \A i \in 1 .. k : g[i] = f[i]
    BY AppendProperties
<1>2. /\ n \in 0 .. k /\ (\A i \in 1 .. n : Chained(f, i)) /\ (n = k \/ ~Chained(f, n + 1))
      /\ CorruptTail(f) <=> n # k
    BY RecoversSome, RecoveredTyped DEF Recovers
<1> HIDE DEF g, n
<1>3. \A i \in 1 .. k : Chained(g, i) <=> Chained(f, i)
    <2>1. k \in 0 .. Len(f) /\ k <= Len(g)
        BY <1>0, <1>1
    <2> QED
        BY <1>1, <2>1, SameFront
<1>4. n = k => Recovered(f) = ValuesOf(g, k)
    BY <1>1 DEF Recovered, ValuesOf, n
<1>5. n = k => (Chained(g, k + 1) <=> l.form \in {"line", "bare"} /\ l.prev = Recovered(f))
    <2>1. (k + 1) - 1 = k
        BY <1>0
    <2> QED
        BY <1>1, <1>4, <2>1 DEF Chained
<1> HIDE DEF k
<1>6. ASSUME n = k, l.form \in {"line", "bare"}, l.prev = Recovered(f)
      PROVE  ~CorruptTail(g) /\ Recovered(g) = Append(Recovered(f), l.val)
    <2>1. k + 1 \in 0 .. Len(g) /\ k + 1 = Len(g) /\ k = (k + 1) - 1
        BY <1>0, <1>1
    <2>2. \A i \in 1 .. k + 1 : Chained(g, i)
        <3>1. \A i \in 1 .. k + 1 : i \in 1 .. k \/ i = k + 1
            BY <1>0
        <3> QED
            BY <1>2, <1>3, <1>5, <1>6, <3>1
    <2>3. Verified(g) = k + 1
        <3>1. Recovers(g, k + 1)
            BY <2>1, <2>2 DEF Recovers
        <3> QED BY <1>1, <3>1, RecoversOnce
    <2>4. ~CorruptTail(g)
        BY <1>0, <1>1, <2>3 DEF CorruptTail
    <2>5. /\ Recovered(g) \in Seq(Values) /\ Len(Recovered(g)) = k + 1
          /\ \A i \in 1 .. k + 1 : Recovered(g)[i] = g[i].val
        BY <1>1, <2>3, RecoveredTyped
    <2>6. /\ Recovered(f) \in Seq(Values) /\ Len(Recovered(f)) = k
          /\ \A i \in 1 .. k : Recovered(f)[i] = f[i].val
        BY <1>6, RecoveredTyped DEF n
    <2> DEFINE h == Append(Recovered(f), l.val)
    <2>7. l.val \in Values
        BY DEF Lines
    <2>8. h \in Seq(Values) /\ Len(h) = k + 1 /\ h[k + 1] = l.val /\ \A i \in 1 .. k : h[i] = Recovered(f)[i]
        BY <2>6, <2>7, AppendProperties
    <2> HIDE DEF h
    <2>9. \A i \in 1 .. k + 1 : Recovered(g)[i] = h[i]
        <3>1. \A i \in 1 .. k + 1 : i \in 1 .. k \/ i = k + 1
            BY <1>0
        <3>2. \A i \in 1 .. k : i \in 1 .. k + 1
            BY <1>0
        <3>3. \A i \in 1 .. k : Recovered(g)[i] = h[i]
            BY <1>1, <2>5, <2>6, <2>8, <3>2
        <3>4. Recovered(g)[k + 1] = h[k + 1]
            <4>1. k + 1 \in 1 .. k + 1
                BY <1>0
            <4> QED BY <1>1, <2>5, <2>8, <4>1
        <3> QED BY <3>1, <3>3, <3>4
    <2>10. Recovered(g) = h
        BY <2>5, <2>8, <2>9, SeqEqual
    <2> QED
        BY <2>4, <2>10 DEF h
<1>7. ASSUME ~(n = k /\ l.form \in {"line", "bare"} /\ l.prev = Recovered(f))
      PROVE  Recovered(g) = Recovered(f)
    <2>1. n \in 0 .. Len(g) /\ \A i \in 1 .. n : Chained(g, i)
        BY <1>0, <1>1, <1>2, <1>3
    <2>2. ~Chained(g, n + 1)
        <3>1. CASE n = k
            BY <1>5, <1>7, <3>1
        <3>2. CASE n # k
            <4>1. n + 1 \in 1 .. k
                BY <1>0, <1>2, <3>2
            <4> QED BY <1>2, <1>3, <3>2, <4>1
        <3> QED BY <3>1, <3>2
    <2>3. Verified(g) = n
        <3>1. Recovers(g, n)
            BY <2>1, <2>2 DEF Recovers
        <3> QED BY <1>1, <3>1, RecoversOnce
    <2>4. \A j \in 1 .. n : g[j].val = f[j].val
        BY <1>0, <1>1, <1>2
    <2>5. Recovered(g) = SubSeq(Recovered(f), 1, n)
        <3>1. Verified(g) <= Verified(f)
            BY <1>0, <1>2, <2>3 DEF n
        <3> QED BY <1>1, <2>3, <2>4, <3>1, FrontRecovered
    <2> QED
        BY <2>5, RecoveredTyped, SubSeqFull DEF n
<1> QED
    BY <1>1, <1>2, <1>6, <1>7 DEF g, k

\* Bytes of a line reach a file: it is next, it is not accepted, or it spoils a last
\* line that had no newline.
LEMMA PutRecovers ==
    ASSUME NEW f \in Seq(Lines), Lined(f), NEW l \in Lines
    PROVE  LET g == Put(f, l)
           IN  /\ g \in Seq(Lines) /\ Lined(g) /\ Len(g) >= Len(f)
               /\ Terminated(g) \/ Len(g) > Len(f)
               /\ \/ Recovered(g) = Recovered(f)
                  \/ Terminated(f) /\ Recovered(g) = Append(Recovered(f), l.val)
                  \/ /\ ~Terminated(f) /\ Len(Recovered(f)) = Len(f)
                     /\ Recovered(g) = SubSeq(Recovered(f), 1, Len(f) - 1)
               /\ Intact(f) /\ l.form = "line" /\ l.prev = Recovered(f) =>
                    Intact(g) /\ Recovered(g) = Append(Recovered(f), l.val)
               /\ CorruptTail(f) => CorruptTail(g)
<1> DEFINE g == Put(f, l)
<1>0. Len(f) \in Nat
    OBVIOUS
<1>1. CASE Terminated(f)
    <2>1. g = Append(f, l)
        BY <1>1 DEF Put
    <2>2. /\ g \in Seq(Lines) /\ Len(g) = Len(f) + 1 /\ g[Len(g)] = l
          /\ \A i \in 1 .. Len(f) : g[i] = f[i]
          /\ ~CorruptTail(f) /\ l.form \in {"line", "bare"} /\ l.prev = Recovered(f) =>
               ~CorruptTail(g) /\ Recovered(g) = Append(Recovered(f), l.val)
          /\ ~(~CorruptTail(f) /\ l.form \in {"line", "bare"} /\ l.prev = Recovered(f)) =>
               Recovered(g) = Recovered(f)
        BY <2>1, LineAppended
    <2> HIDE DEF g
    <2>3. Lined(g)
        <3>1. ASSUME NEW i \in 1 .. Len(g) - 1 PROVE g[i].form \in {"line", "bad"}
            <4>1. i \in 1 .. Len(f) /\ g[i] = f[i]
                BY <1>0, <2>2
            <4>2. CASE i = Len(f)
                BY <1>0, <1>1, <4>1, <4>2, TerminatedIs
            <4>3. CASE i # Len(f)
                <5>1. i \in 1 .. Len(f) - 1
                    BY <1>0, <4>1, <4>3
                <5> QED BY <4>1, <5>1 DEF Lined
            <4> QED BY <4>2, <4>3
        <3> QED BY <3>1 DEF Lined
    <2>4. l.form = "line" => Terminated(g)
        BY <2>2, TerminatedIs
    <2>5. Len(g) >= Len(f) /\ Len(g) > Len(f)
        BY <1>0, <2>2
    <2>6. CorruptTail(f) => CorruptTail(g)
        BY <1>0, <2>2, RecoveredTyped
    <2> QED
        BY <1>1, <2>2, <2>3, <2>4, <2>5, <2>6 DEF Intact, g
<1>2. CASE ~Terminated(f)
    <2>1. g = [f EXCEPT ![Len(f)].form = "bad"]
        BY <1>2 DEF Put
    <2>2. f # <<>> /\ Len(f) > 0
        BY <1>2, TerminatedIs
    <2>3. /\ g \in Seq(Lines) /\ Len(g) = Len(f) /\ g[Len(g)].form = "bad"
          /\ CorruptTail(f) => Recovered(g) = Recovered(f)
          /\ ~CorruptTail(f) => Recovered(g) = SubSeq(Recovered(f), 1, Len(f) - 1)
        <3>1. "bad" \in Forms /\ "bad" \in {"part", "bad"}
            BY DEF Forms
        <3> DEFINE h == [f EXCEPT ![Len(f)].form = "bad"]
        <3>2. /\ h \in Seq(Lines) /\ Len(h) = Len(f) /\ h[Len(h)].form = "bad"
              /\ CorruptTail(f) => Recovered(h) = Recovered(f)
              /\ ~CorruptTail(f) => Recovered(h) = SubSeq(Recovered(f), 1, Len(f) - 1)
            BY <2>2, <3>1, LastChanges
        <3>3. g = h
            BY <2>1
        <3> HIDE DEF g, h
        <3> QED BY <3>2, <3>3
    <2>4. Terminated(g)
        <3> HIDE DEF g
        <3> QED BY <2>3, TerminatedIs
    <2>5. Lined(g)
        <3>1. ASSUME NEW i \in 1 .. Len(g) - 1 PROVE g[i].form \in {"line", "bad"}
            <4>1. i \in 1 .. Len(f) - 1 /\ i \in 1 .. Len(f) /\ i # Len(f)
                BY <1>0, <2>3
            <4>2. g[i] = f[i]
                BY <2>1, <4>1
            <4> QED BY <4>1, <4>2 DEF Lined
        <3> QED BY <3>1 DEF Lined
    <2>6. ~CorruptTail(f) => Len(Recovered(f)) = Len(f)
        BY RecoveredTyped
    <2>7. ~Intact(f) /\ Len(g) >= Len(f)
        BY <1>0, <1>2, <2>3 DEF Intact
    <2> HIDE DEF g
    <2>8. CorruptTail(f) => CorruptTail(g)
        BY <2>3, RecoveredTyped
    <2> QED
        BY <1>2, <2>3, <2>4, <2>5, <2>6, <2>7, <2>8 DEF g
<1> QED
    BY <1>1, <1>2

\* A last line without its newline gets it.
LEMMA EndedRecovers ==
    ASSUME NEW f \in Seq(Lines), Lined(f)
    PROVE  LET g == Ended(f)
           IN  /\ g \in Seq(Lines) /\ Lined(g) /\ Len(g) = Len(f)
               /\ Verified(g) = Verified(f) /\ Recovered(g) = Recovered(f)
               /\ ~CorruptTail(f) \/ Terminated(f) => Terminated(g)
<1> DEFINE g == Ended(f)
<1>0. Len(f) \in Nat
    OBVIOUS
<1>1. CASE Len(f) # 0 /\ f[Len(f)].form = "bare"
    <2> DEFINE h == [f EXCEPT ![Len(f)].form = "line"]
    <2>1. g = h
        BY <1>1 DEF Ended
    <2>2. /\ h \in Seq(Lines) /\ Len(h) = Len(f) /\ h[Len(h)].form = "line"
          /\ Verified(h) = Verified(f) /\ Recovered(h) = Recovered(f)
        <3>1. f # <<>> /\ "line" \in Forms /\ "line" \in {"line", "bare"} /\ f[Len(f)].form \in {"line", "bare"}
            BY <1>1, EmptySeq DEF Forms
        <3> QED BY <3>1, LastChanges
    <2>3. \A i \in 1 .. Len(f) - 1 : h[i] = f[i]
        BY <1>0
    <2> HIDE DEF g, h
    <2>4. Lined(h)
        BY <2>2, <2>3 DEF Lined
    <2>5. Terminated(h)
        BY <2>2, TerminatedIs
    <2> QED
        BY <2>1, <2>2, <2>4, <2>5 DEF g
<1>2. CASE ~(Len(f) # 0 /\ f[Len(f)].form = "bare")
    <2>1. g = f
        <3>1. CASE Len(f) = 0
            <4>1. f = <<>>
                BY <3>1, EmptySeq
            <4> QED BY <4>1 DEF Ended
        <3>2. CASE Len(f) # 0
            <4>1. Len(f) \in 1 .. Len(f)
                BY <1>0, <3>2
            <4>2. f[Len(f)] \in Lines
                BY <4>1
            <4>3. [f[Len(f)] EXCEPT !.form = f[Len(f)].form] = f[Len(f)]
                BY <4>2 DEF Lines
            <4>4. g = [f EXCEPT ![Len(f)] = [f[Len(f)] EXCEPT !.form = f[Len(f)].form]]
                BY <1>2, <3>2 DEF Ended
            <4>5. g = [f EXCEPT ![Len(f)] = f[Len(f)]]
                BY <4>3, <4>4
            <4> QED BY <4>5
        <3> QED BY <3>1, <3>2
    <2>2. ~CorruptTail(f) => Terminated(f)
        <3>1. ASSUME ~CorruptTail(f), ~Terminated(f) PROVE FALSE
            <4>1. Len(f) > 0 /\ f[Len(f)].form = "part" /\ Verified(f) = Len(f)
                BY <1>2, <3>1, TerminatedIs, RecoveredTyped
            <4>2. Len(f) \in 1 .. Len(f)
                BY <1>0, <4>1
            <4>3. Chained(f, Len(f))
                BY <4>1, <4>2, RecoversSome DEF Recovers
            <4> QED BY <4>1, <4>3 DEF Chained
        <3> QED BY <3>1
    <2> QED
        BY <2>1, <2>2
<1> QED
    BY <1>1, <1>2

\* A file that was rewritten holds what it was rewritten with.
LEMMA EncodeRecovers ==
    ASSUME NEW vs \in Seq(Values)
    PROVE  LET g == Encode(vs)
           IN  /\ g \in Seq(Lines) /\ Lined(g) /\ Len(g) = Len(vs)
               /\ Intact(g) /\ Recovered(g) = vs
<1> DEFINE g == Encode(vs)
<1> DEFINE n == Len(vs)
<1>0. n \in Nat /\ \A i \in 1 .. n : vs[i] \in Values
    OBVIOUS
<1>1. g = [i \in 1 .. n |-> [prev |-> SubSeq(vs, 1, i - 1), val |-> vs[i], form |-> "line"]]
    BY DEF Encode, Line
<1>2. \A i \in 1 .. n : SubSeq(vs, 1, i - 1) \in Seq(Values)
    <2>1. ASSUME NEW i \in 1 .. n PROVE SubSeq(vs, 1, i - 1) \in Seq(Values)
        BY <1>0
    <2> QED BY <2>1
<1>3. g \in [1 .. n -> Lines]
    <2>1. \A i \in 1 .. n : [prev |-> SubSeq(vs, 1, i - 1), val |-> vs[i], form |-> "line"] \in Lines
        BY <1>0, <1>2 DEF Lines, Forms
    <2> QED BY <1>1, <2>1
<1>4. \A i \in 1 .. n : g[i].prev = SubSeq(vs, 1, i - 1) /\ g[i].val = vs[i] /\ g[i].form = "line"
    BY <1>1
<1> HIDE DEF g, n
<1>5. g \in Seq(Lines) /\ Len(g) = n
    BY <1>0, <1>3, IsASeq
<1>6. Lined(g)
    BY <1>0, <1>4, <1>5 DEF Lined
<1>7. Terminated(g)
    <2>1. Len(g) # 0 => Len(g) \in 1 .. n
        BY <1>0, <1>5
    <2> QED
        BY <1>4, <1>5, <2>1, TerminatedIs
<1>8. \A i \in 1 .. n : Chained(g, i)
    <2>1. ASSUME NEW i \in 1 .. n PROVE ValuesOf(g, i - 1) = SubSeq(vs, 1, i - 1)
        <3>1. SubSeq(vs, 1, i - 1) = [j \in 1 .. i - 1 |-> vs[j]]
            BY <1>0 DEF n
        <3>2. \A j \in 1 .. i - 1 : g[j].val = vs[j]
            <4>1. \A j \in 1 .. i - 1 : j \in 1 .. n
                BY <1>0
            <4> QED BY <1>4, <4>1
        <3>3. ValuesOf(g, i - 1) = [j \in 1 .. i - 1 |-> g[j].val]
            BY DEF ValuesOf
        <3> QED BY <3>1, <3>2, <3>3
    <2> QED
        BY <1>4, <2>1 DEF Chained
<1>9. Verified(g) = n
    <2>1. Recovers(g, n)
        BY <1>0, <1>5, <1>8 DEF Recovers
    <2> QED BY <1>5, <2>1, RecoversOnce
<1>10. Recovered(g) = vs
    <2>1. Recovered(g) \in Seq(Values) /\ Len(Recovered(g)) = n /\ \A i \in 1 .. n : Recovered(g)[i] = g[i].val
        BY <1>5, <1>9, RecoveredTyped
    <2>2. \A i \in 1 .. n : Recovered(g)[i] = vs[i]
        BY <1>4, <2>1
    <2> QED
        BY <2>1, <2>2, SeqEqual DEF n
<1>11. ~CorruptTail(g)
    BY <1>0, <1>5, <1>9 DEF CorruptTail
<1> QED
    BY <1>5, <1>6, <1>7, <1>10, <1>11 DEF Intact, g, n

\* Power fails: what is recovered is shorter by lines that were not synced.
LEMMA LossRecovers ==
    ASSUME NEW f \in Seq(Lines), Lined(f), NEW s \in 0 .. Len(f),
           NEW k \in s .. Len(f), NEW g,
           \/ g = SubSeq(f, 1, k)
           \/ /\ k < Len(f) /\ f[k + 1].form = "line"
              /\ \E form \in {"part", "bare"} : g = [SubSeq(f, 1, k + 1) EXCEPT ![k + 1].form = form]
    PROVE  /\ g \in Seq(Lines) /\ Lined(g) /\ Len(g) >= s
           /\ (Terminated(f) \/ s < Len(f)) => (Terminated(g) \/ s < Len(g))
           /\ \E m \in 0 .. Verified(f) : /\ Recovered(g) = SubSeq(Recovered(f), 1, m)
                                          /\ m >= s \/ m = Verified(f)
<1> DEFINE n == Verified(f)
<1>0. Len(f) \in Nat /\ k \in Nat /\ s \in Nat /\ s <= k /\ k <= Len(f) /\ k \in 0 .. Len(f)
    OBVIOUS
<1>1. n \in Nat /\ n <= Len(f) /\ Recovered(f) \in Seq(Values) /\ Len(Recovered(f)) = n
    BY <1>0, RecoveredTyped
<1>2. CASE g = SubSeq(f, 1, k)
    <2>1. /\ g \in Seq(Lines) /\ Len(g) = k /\ \A i \in 1 .. k : g[i] = f[i]
          /\ Verified(g) = IF n <= k THEN n ELSE k
          /\ Recovered(g) = SubSeq(Recovered(f), 1, Verified(g))
        BY <1>0, <1>2, LinesCut
    <2>2. Lined(g)
        <3>1. \A i \in 1 .. k - 1 : i \in 1 .. k /\ i \in 1 .. Len(f) - 1
            BY <1>0
        <3> QED BY <2>1, <3>1 DEF Lined
    <2>3. ASSUME Terminated(f) \/ s < Len(f)
          PROVE  Terminated(g) \/ s < Len(g)
        <3>1. CASE k = s
            <4>1. CASE k = 0
                BY <2>1, <4>1, TerminatedIs
            <4>2. CASE k # 0 /\ k = Len(f)
                <5>1. k \in 1 .. k /\ Terminated(f)
                    BY <1>0, <2>3, <3>1, <4>2
                <5> QED BY <2>1, <4>2, <5>1, TerminatedIs
            <4>3. CASE k # 0 /\ k # Len(f)
                <5>1. k \in 1 .. k /\ k \in 1 .. Len(f) - 1
                    BY <1>0, <4>3
                <5>2. g[Len(g)].form \in {"line", "bad"}
                    BY <2>1, <5>1 DEF Lined
                <5> QED BY <2>1, <5>2, TerminatedIs
            <4> QED BY <4>1, <4>2, <4>3
        <3>2. CASE k # s
            BY <1>0, <2>1, <3>2
        <3> QED BY <3>1, <3>2
    <2>4. Verified(g) \in 0 .. n /\ (Verified(g) >= s \/ Verified(g) = n)
        BY <1>0, <1>1, <2>1
    <2>5. Len(g) >= s
        BY <1>0, <2>1
    <2> HIDE DEF n
    <2> QED
        BY <2>1, <2>2, <2>3, <2>4, <2>5 DEF n
<1>3. ASSUME NEW form \in {"part", "bare"}, k < Len(f), f[k + 1].form = "line",
             g = [SubSeq(f, 1, k + 1) EXCEPT ![k + 1].form = form]
      PROVE  /\ g \in Seq(Lines) /\ Lined(g) /\ Len(g) >= s
             /\ Terminated(g) \/ s < Len(g)
             /\ \E m \in 0 .. n : /\ Recovered(g) = SubSeq(Recovered(f), 1, m)
                                  /\ m >= s \/ m = n
    <2> DEFINE h == SubSeq(f, 1, k + 1)
    <2>0. k + 1 \in 0 .. Len(f) /\ k + 1 \in 1 .. k + 1 /\ k + 1 # 0 /\ (k + 1) - 1 = k
        <3>1. PICK j \in Nat : j = Len(f)
            BY <1>0
        <3>2. k < j
            BY <1>3, <3>1
        <3> HIDE <1>3
        <3>3. k + 1 \in 0 .. j /\ k + 1 \in 1 .. k + 1 /\ k + 1 # 0 /\ (k + 1) - 1 = k
            BY <1>0, <3>2
        <3> QED BY <3>1, <3>3
    <2>1. /\ h \in Seq(Lines) /\ Len(h) = k + 1 /\ \A i \in 1 .. k + 1 : h[i] = f[i]
          /\ Verified(h) = IF n <= k + 1 THEN n ELSE k + 1
          /\ Recovered(h) = SubSeq(Recovered(f), 1, Verified(h))
        BY <2>0, LinesCut
    <2>2. g = [h EXCEPT ![Len(h)].form = form]
        BY <1>3, <2>1
    <2> HIDE DEF h
    <2>3. h # <<>> /\ form \in Forms /\ h[Len(h)].form \in {"line", "bare"}
        BY <1>3, <2>0, <2>1, EmptySeq DEF Forms
    <2>4. /\ g \in Seq(Lines) /\ Len(g) = Len(h)
          /\ form \in {"part", "bad"} =>
               /\ CorruptTail(h) => Recovered(g) = Recovered(h)
               /\ ~CorruptTail(h) => Recovered(g) = SubSeq(Recovered(h), 1, Len(h) - 1)
          /\ form \in {"line", "bare"} /\ h[Len(h)].form \in {"line", "bare"} => Recovered(g) = Recovered(h)
        BY <2>1, <2>2, <2>3, LastChanges
    <2>5. Lined(g)
        <3>1. \A i \in 1 .. k : i \in 1 .. k + 1 /\ i \in 1 .. Len(f) - 1 /\ i # Len(h) /\ i \in DOMAIN h
            BY <1>0, <1>3, <2>1
        <3>2. \A i \in 1 .. k : g[i] = f[i]
            BY <2>1, <2>2, <3>1
        <3> QED BY <2>0, <2>1, <2>4, <3>1, <3>2 DEF Lined
    <2>6. Len(g) >= s /\ s < Len(g)
        BY <1>0, <2>1, <2>4
    <2>7. CASE Recovered(g) = Recovered(h)
        <3>1. Verified(h) \in 0 .. n /\ (Verified(h) >= s \/ Verified(h) = n)
            BY <1>0, <1>1, <2>1
        <3> QED
            BY <2>1, <2>4, <2>5, <2>6, <2>7, <3>1
    <2>8. CASE ~CorruptTail(h) /\ Recovered(g) = SubSeq(Recovered(h), 1, Len(h) - 1)
        <3>1. Verified(h) = k + 1 /\ k + 1 <= n
            <4>1. Verified(h) = Len(h)
                BY <2>1, <2>8, RecoveredTyped
            <4> QED BY <1>0, <1>1, <2>1, <4>1
        <3>2. Recovered(g) = SubSeq(SubSeq(Recovered(f), 1, k + 1), 1, k)
            BY <2>0, <2>1, <2>8, <3>1
        <3>3. SubSeq(SubSeq(Recovered(f), 1, k + 1), 1, k) = SubSeq(Recovered(f), 1, k)
            BY <1>0, <1>1, <3>1
        <3>4. k \in 0 .. n /\ k >= s
            BY <1>0, <1>1, <3>1
        <3> QED
            BY <2>4, <2>5, <2>6, <3>2, <3>3, <3>4
    <2> QED
        BY <2>3, <2>4, <2>7, <2>8
<1> QED
    BY <1>2, <1>3

----------------------------------------------------------------------------
(* Prefixes and replacements. *)

\* A prefix stays one when the sequence grows, or loses what is behind it.
LEMMA PrefixKept ==
    ASSUME NEW a \in Seq(Values), NEW b \in Seq(Values), IsPrefix(a, b)
    PROVE  /\ Len(a) <= Len(b)
           /\ \A v \in Values : IsPrefix(a, Append(b, v))
           /\ \A m \in Len(a) .. Len(b) : IsPrefix(a, SubSeq(b, 1, m))
<1>1. Len(a) <= Len(b) /\ \A i \in 1 .. Len(a) : a[i] = b[i]
    BY PrefixIs
<1>2. ASSUME NEW v \in Values PROVE IsPrefix(a, Append(b, v))
    <2> DEFINE c == Append(b, v)
    <2>1. c \in Seq(Values) /\ Len(c) = Len(b) + 1 /\ \A i \in 1 .. Len(b) : c[i] = b[i]
        BY AppendProperties
    <2> HIDE DEF c
    <2>2. Len(a) <= Len(c) /\ \A i \in 1 .. Len(a) : a[i] = c[i]
        BY <1>1, <2>1
    <2>3. IsPrefix(a, c)
        BY <2>1, <2>2, PrefixIs
    <2> QED BY <2>3 DEF c
<1>3. ASSUME NEW m \in Len(a) .. Len(b) PROVE IsPrefix(a, SubSeq(b, 1, m))
    <2> DEFINE c == SubSeq(b, 1, m)
    <2>1. c \in Seq(Values) /\ Len(c) = m /\ \A i \in 1 .. m : c[i] = b[i]
        <3>1. m \in 0 .. Len(b) /\ Len(b) \in Nat
            OBVIOUS
        <3> QED BY <3>1, SubSeqProperties
    <2> HIDE DEF c
    <2>2. Len(a) <= Len(c) /\ \A i \in 1 .. Len(a) : a[i] = c[i]
        BY <1>1, <2>1
    <2>3. IsPrefix(a, c)
        BY <2>1, <2>2, PrefixIs
    <2> QED BY <2>3 DEF c
<1> QED BY <1>1, <1>2, <1>3

\* A sequence is its own prefix.
LEMMA PrefixSelf ==
    ASSUME NEW a \in Seq(Values)
    PROVE  IsPrefix(a, a)
BY PrefixIs

\* What is kept of a sequence is chosen by an increasing sequence of places.
LEMMA ThinnedIs ==
    ASSUME NEW c, NEW vs
    PROVE  vs \in D!Thinned(c) <=>
             \E n \in 0 .. Len(c) : \E at \in [1 .. n -> 1 .. Len(c)] :
               /\ \A i, j \in 1 .. n : i < j => at[i] < at[j]
               /\ vs = [i \in 1 .. n |-> c[at[i]]]
<1> DEFINE Places(n) == { at \in [1 .. n -> 1 .. Len(c)] : \A i, j \in 1 .. n : i < j => at[i] < at[j] }
<1> DEFINE Kept(n) == { [i \in 1 .. n |-> c[at[i]]] : at \in Places(n) }
<1>1. D!Thinned(c) = UNION { Kept(n) : n \in 0 .. Len(c) }
    BY DEF D!Thinned
<1>2. ASSUME NEW n
      PROVE  vs \in Kept(n) <=> \E at \in [1 .. n -> 1 .. Len(c)] :
                                  /\ \A i, j \in 1 .. n : i < j => at[i] < at[j]
                                  /\ vs = [i \in 1 .. n |-> c[at[i]]]
    <2>1. vs \in Kept(n) <=> \E at \in Places(n) : vs = [i \in 1 .. n |-> c[at[i]]]
        OBVIOUS
    <2> QED BY <2>1
<1> HIDE DEF Kept
<1>3. vs \in UNION { Kept(n) : n \in 0 .. Len(c) } <=> \E n \in 0 .. Len(c) : vs \in Kept(n)
    OBVIOUS
<1> QED
    BY <1>1, <1>2, <1>3

\* What is kept of values are values.
LEMMA ThinnedTyped ==
    ASSUME NEW c \in Seq(Values), NEW vs \in D!Thinned(c)
    PROVE  vs \in Seq(Values)
<1>1. PICK n \in 0 .. Len(c) : \E at \in [1 .. n -> 1 .. Len(c)] :
               /\ \A i, j \in 1 .. n : i < j => at[i] < at[j]
               /\ vs = [i \in 1 .. n |-> c[at[i]]]
    BY ThinnedIs, SMTT(30)
<1>2. PICK at \in [1 .. n -> 1 .. Len(c)] : vs = [i \in 1 .. n |-> c[at[i]]]
    BY <1>1
<1>3. n \in Nat /\ \A i \in 1 .. n : c[at[i]] \in Values
    OBVIOUS
<1>4. vs \in [1 .. n -> Values]
    BY <1>2, <1>3
<1> QED
    BY <1>3, <1>4, IsASeq

\* Keeping some of the beginning and all of the rest is keeping some.
LEMMA ThinnedRest ==
    ASSUME NEW c \in Seq(Values), NEW b \in 1 .. Len(c), NEW older \in D!Thinned(SubSeq(c, 1, b - 1))
    PROVE  older \o SubSeq(c, b, Len(c)) \in D!Thinned(c)
<1> DEFINE d == SubSeq(c, 1, b - 1)
<1> DEFINE e == SubSeq(c, b, Len(c))
<1>0. Len(c) \in Nat /\ b \in Nat /\ 1 <= b /\ b <= Len(c)
    OBVIOUS
<1>1. d \in Seq(Values) /\ Len(d) = b - 1 /\ \A i \in 1 .. b - 1 : d[i] = c[i]
    BY <1>0
<1>2. e \in Seq(Values) /\ Len(e) = Len(c) - b + 1 /\ \A i \in 1 .. Len(c) - b + 1 : e[i] = c[b + i - 1]
    BY <1>0
<1>2a. older \in D!Thinned(d)
    OBVIOUS
<1> HIDE DEF d, e
<1>3. PICK n \in 0 .. Len(d) : \E at \in [1 .. n -> 1 .. Len(d)] :
               /\ \A i, j \in 1 .. n : i < j => at[i] < at[j]
               /\ older = [i \in 1 .. n |-> d[at[i]]]
    BY <1>2a, ThinnedIs, SMTT(30)
<1>4. PICK at \in [1 .. n -> 1 .. Len(d)] :
               /\ \A i, j \in 1 .. n : i < j => at[i] < at[j]
               /\ older = [i \in 1 .. n |-> d[at[i]]]
    BY <1>3
<1>5. older \in Seq(Values) /\ Len(older) = n
    <2>1. n \in Nat
        BY <1>0, <1>1
    <2>2. older \in Seq(Values)
        BY <1>1, <1>2a, ThinnedTyped
    <2> QED BY <1>4, <2>1, <2>2
<1> DEFINE m == n + Len(c) - b + 1
<1> DEFINE to == [i \in 1 .. m |-> IF i <= n THEN at[i] ELSE b + (i - n) - 1]
<1>6. n \in Nat /\ n <= b - 1 /\ m \in 0 .. Len(c)
    BY <1>0, <1>1
<1>7. to \in [1 .. m -> 1 .. Len(c)]
    <2>1. ASSUME NEW i \in 1 .. m PROVE (IF i <= n THEN at[i] ELSE b + (i - n) - 1) \in 1 .. Len(c)
        <3>1. CASE i <= n
            <4>1. i \in 1 .. n
                BY <1>6, <3>1
            <4>2. at[i] \in 1 .. b - 1
                BY <1>1, <4>1
            <4> QED BY <1>0, <3>1, <4>2
        <3>2. CASE ~(i <= n)
            BY <1>0, <1>6, <3>2
        <3> QED BY <3>1, <3>2
    <2> QED BY <2>1
<1>8. \A i, j \in 1 .. m : i < j => to[i] < to[j]
    <2>1. ASSUME NEW i \in 1 .. m, NEW j \in 1 .. m, i < j PROVE to[i] < to[j]
        <3>1. CASE j <= n
            <4>1. i \in 1 .. n /\ j \in 1 .. n /\ i <= n
                BY <1>6, <2>1, <3>1
            <4> QED BY <1>4, <2>1, <3>1, <4>1
        <3>2. CASE ~(j <= n) /\ i <= n
            <4>1. i \in 1 .. n
                BY <1>6, <3>2
            <4>2. at[i] \in 1 .. b - 1
                BY <1>1, <4>1
            <4> QED BY <1>0, <1>6, <3>2, <4>2
        <3>3. CASE ~(j <= n) /\ ~(i <= n)
            BY <1>0, <1>6, <2>1, <3>3
        <3> QED BY <3>1, <3>2, <3>3
    <2> QED BY <2>1
<1> DEFINE vs == older \o e
<1>9. vs \in Seq(Values) /\ Len(vs) = m
    <2>1. vs \in Seq(Values) /\ Len(vs) = n + Len(e)
        BY <1>2, <1>5, ConcatProperties
    <2> QED BY <1>0, <1>2, <1>6, <2>1
<1>10. \A i \in 1 .. m : vs[i] = c[to[i]]
    <2>1. ASSUME NEW i \in 1 .. m PROVE vs[i] = c[to[i]]
        <3>1. CASE i <= n
            <4>1. i \in 1 .. n /\ to[i] = at[i]
                BY <1>6, <3>1
            <4>2. vs[i] = older[i]
                BY <1>2, <1>5, <3>1, <4>1
            <4>3. at[i] \in 1 .. b - 1
                BY <1>1, <4>1
            <4> QED BY <1>1, <1>4, <4>1, <4>2, <4>3
        <3>2. CASE ~(i <= n)
            <4>1. i - n \in 1 .. Len(c) - b + 1 /\ to[i] = b + (i - n) - 1
                BY <1>0, <1>6, <3>2
            <4>2. vs[i] = e[i - n]
                <5>1. i \in 1 .. Len(older) + Len(e) /\ ~(i <= Len(older))
                    BY <1>0, <1>2, <1>5, <1>6, <3>2
                <5> QED BY <1>2, <1>5, <5>1, ConcatProperties
            <4> QED BY <1>2, <4>1, <4>2
        <3> QED BY <3>1, <3>2
    <2> QED BY <2>1
<1> HIDE DEF vs, to, m
<1>11. vs = [i \in 1 .. m |-> c[to[i]]]
    BY <1>9, <1>10
<1>12. \E p \in [1 .. m -> 1 .. Len(c)] :
               /\ \A i, j \in 1 .. m : i < j => p[i] < p[j]
               /\ vs = [i \in 1 .. m |-> c[p[i]]]
    BY <1>7, <1>8, <1>11
<1>13. vs \in D!Thinned(c)
    BY <1>6, <1>12, ThinnedIs
<1> QED
    BY <1>13 DEF vs, e

----------------------------------------------------------------------------
(* The state. *)

\* The log is what is recovered of the file.
LEMMA LogIs == Log = Recovered(file) /\ Log' = Recovered(file')
BY DEF Log, Recovered

\* The log and the file it is recovered from.
LEMMA LogTyped ==
    ASSUME Inv
    PROVE  /\ file \in Seq(Lines) /\ Log \in Seq(Values) /\ Len(Log) = Verified(file)
           /\ Len(file) \in Nat /\ Len(Log) \in 0 .. Len(file)
           /\ ~CorruptTail(file) <=> Len(Log) = Len(file)
BY LogIs, RecoveredTyped DEF Inv, TypeOK

\* One store is changed.
LEMMA StoreChanges ==
    ASSUME Inv, NEW s \in Stores, NEW r \in Runs, store' = [store EXCEPT ![s] = r], Writes(r)
    PROVE  /\ store' \in [Stores -> Runs] /\ store'[s] = r
           /\ \A t \in Stores \ {s} : store'[t] = store[t]
           /\ Writing'
<1>1. store \in [Stores -> Runs]
    BY DEF Inv, TypeOK
<1>2. store' \in [Stores -> Runs] /\ store'[s] = r /\ \A t \in Stores \ {s} : store'[t] = store[t]
    BY <1>1
<1>3. ASSUME NEW t \in Stores PROVE Writes(store'[t])
    <2>1. CASE t = s
        BY <1>2, <2>1
    <2>2. CASE t # s
        <3>1. store'[t] = store[t] /\ Writes(store[t])
            BY <1>2, <2>2 DEF Inv, Writing
        <3> QED BY <3>1
    <2> QED BY <2>1, <2>2
<1>4. Writing'
    BY <1>3 DEF Writing, Writes
<1> QED BY <1>2, <1>4

\* While a store has the lock it is the only one, and nothing is compacted.
LEMMA LockHeld ==
    ASSUME Sound, NEW s \in Stores, Active(s)
    PROVE  Fits(store[s]) /\ command.name = "none" /\ \A t \in Stores \ {s} : ~Active(t)
BY DEF Sound, OwnerFits, OneActive, Commanded, LockFree

\* A step of the store that has the lock keeps the journal sound, if its own parts
\* fit and what was acknowledged is there.
LEMMA OwnerActs ==
    ASSUME Inv, Sound, NEW s \in Stores, Active(s), NEW r \in Runs, Writes(r),
           store' = [store EXCEPT ![s] = r], command' = command,
           r.pc \notin {"new", "closed", "dead"} => Fits(r)',
           IsPrefix(acked', Log'), OnDisk'
    PROVE  Sound'
<1>1. store'[s] = r /\ \A t \in Stores \ {s} : store'[t] = store[t]
    BY StoreChanges
<1>2. command.name = "none" /\ \A t \in Stores \ {s} : ~Active(t)
    BY LockHeld
<1>3. \A t \in Stores : Active(t)' => t = s
    BY <1>1, <1>2 DEF Active
<1>4. OneActive'
    BY <1>3 DEF OneActive
<1>5. OwnerFits'
    <2>1. ASSUME NEW t \in Stores, Active(t)' PROVE Fits(store[t])'
        <3>1. t = s /\ r.pc \notin {"new", "closed", "dead"}
            BY <1>1, <1>3, <2>1 DEF Active
        <3>2. Fits(r)'
            BY <3>1
        <3> QED BY <1>1, <3>1, <3>2 DEF Fits
    <2> QED BY <2>1 DEF OwnerFits
<1>6. Commanded'
    BY <1>2 DEF Commanded
<1> QED
    BY <1>4, <1>5, <1>6 DEF Sound

\* What a write can leave in the file.
LEMMA ReachRecovers ==
    ASSUME Inv, NEW s \in Stores, NEW l \in Lines, Reach(s, l)
    PROVE  /\ file' \in Seq(Lines) /\ Lined(file') /\ Len(file') >= Len(file) /\ synced \in 0 .. Len(file')
           /\ Terminated(file) => (Terminated(file') \/ Len(file') > Len(file))
           /\ CorruptTail(file) => CorruptTail(file')
           /\ Intact(file) /\ l.form = "line" /\ l.prev = Log /\ Attached(s) =>
                Intact(file') /\ Log' = Append(Log, l.val)
           /\ Sound => /\ Terminated(file') \/ synced < Len(file')
                       /\ IsPrefix(acked, Log')
                       /\ \/ Log' = Log
                          \/ Log' = Append(Log, l.val)
                          \/ ~Terminated(file) /\ \E k \in Len(acked) .. Len(Log) : Log' = SubSeq(Log, 1, k)
<1> USE DEF Inv
<1>0. /\ file \in Seq(Lines) /\ Lined(file) /\ Len(file) \in Nat /\ synced \in Nat /\ synced <= Len(file)
      /\ acked \in Seq(Values) /\ Len(acked) \in Nat
    BY DEF TypeOK
<1>1. Sound => /\ Len(acked) <= synced /\ IsPrefix(acked, Log)
               /\ Terminated(file) \/ synced < Len(file)
    BY DEF Sound, OnDisk
<1>2. CASE ~Attached(s)
    <2>1. file' = file
        BY <1>2 DEF Reach
    <2>2. Log' = Log
        BY <2>1, LogIs
    <2> QED
        BY <1>0, <1>1, <1>2, <2>1, <2>2
<1>3. CASE Attached(s)
    <2> DEFINE g == Put(file, l)
    <2>1. file' = g
        BY <1>3 DEF Reach
    <2>2. /\ g \in Seq(Lines) /\ Lined(g) /\ Len(g) >= Len(file)
          /\ Terminated(g) \/ Len(g) > Len(file)
          /\ \/ Recovered(g) = Recovered(file)
             \/ Terminated(file) /\ Recovered(g) = Append(Recovered(file), l.val)
             \/ /\ ~Terminated(file) /\ Len(Recovered(file)) = Len(file)
                /\ Recovered(g) = SubSeq(Recovered(file), 1, Len(file) - 1)
          /\ Intact(file) /\ l.form = "line" /\ l.prev = Recovered(file) =>
               Intact(g) /\ Recovered(g) = Append(Recovered(file), l.val)
          /\ CorruptTail(file) => CorruptTail(g)
        BY <1>0, PutRecovers
    <2> HIDE DEF g
    <2>3. Log' = Recovered(g) /\ Log = Recovered(file)
        BY <2>1, LogIs
    <2>4. /\ g \in Seq(Lines) /\ Lined(g) /\ Len(g) >= Len(file)
          /\ Terminated(g) \/ Len(g) > Len(file)
          /\ \/ Log' = Log
             \/ Terminated(file) /\ Log' = Append(Log, l.val)
             \/ /\ ~Terminated(file) /\ Len(Log) = Len(file)
                /\ Log' = SubSeq(Log, 1, Len(file) - 1)
          /\ Intact(file) /\ l.form = "line" /\ l.prev = Log =>
               Intact(g) /\ Log' = Append(Log, l.val)
          /\ CorruptTail(file) => CorruptTail(g)
        BY <2>2, <2>3
    <2>5. Len(g) \in Nat /\ synced \in 0 .. Len(g)
        BY <1>0, <2>4
    <2>6. ASSUME Sound
          PROVE  /\ Terminated(g) \/ synced < Len(g)
                 /\ IsPrefix(acked, Log')
                 /\ \/ Log' = Log
                    \/ Log' = Append(Log, l.val)
                    \/ ~Terminated(file) /\ \E k \in Len(acked) .. Len(Log) : Log' = SubSeq(Log, 1, k)
        <3>1. Log \in Seq(Values) /\ l.val \in Values
            BY LogTyped DEF Lines
        <3>2. /\ \A v \in Values : IsPrefix(acked, Append(Log, v))
              /\ \A m \in Len(acked) .. Len(Log) : IsPrefix(acked, SubSeq(Log, 1, m))
            BY <1>0, <1>1, <2>6, <3>1, PrefixKept
        <3>3. Terminated(g) \/ synced < Len(g)
            BY <1>0, <2>4, <2>5
        <3>4. CASE Log' = Log
            BY <1>1, <2>6, <3>3, <3>4
        <3>5. CASE Log' = Append(Log, l.val)
            BY <3>1, <3>2, <3>3, <3>5
        <3>6. CASE ~Terminated(file) /\ Len(Log) = Len(file) /\ Log' = SubSeq(Log, 1, Len(file) - 1)
            <4>1. Len(file) - 1 \in Len(acked) .. Len(Log)
                BY <1>0, <1>1, <2>6, <3>6
            <4> QED BY <3>2, <3>3, <3>6, <4>1
        <3> QED BY <2>4, <3>4, <3>5, <3>6
    <2> QED
        BY <1>3, <2>1, <2>4, <2>5, <2>6
<1> QED BY <1>2, <1>3

\* A step of the store that has the lock.
LEMMA OwnerInv ==
    ASSUME Inv, NEW s \in Stores, Active(s), NEW r \in Runs, Writes(r),
           store' = [store EXCEPT ![s] = r], UNCHANGED <<prefix, command>>,
           hurt \subseteq hurt', hurt' \subseteq Harms,
           file' \in Seq(Lines), Lined(file'), gen' \in 1 .. MaxGen, synced' \in 0 .. Len(file'),
           acked' \in Seq(Values),
           Sound => /\ r.pc \notin {"new", "closed", "dead"} => Fits(r)'
                    /\ IsPrefix(acked', Log') /\ OnDisk' /\ LogStep
    PROVE  Inv' /\ (hurt' = {} => LogStep)
<1>1. store' \in [Stores -> Runs] /\ Writing'
    BY StoreChanges
<1>2. TypeOK'
    BY <1>1 DEF Inv, TypeOK
<1>3. hurt' = {} => Sound
    BY DEF Inv
<1>4. Sound => Sound' /\ LogStep
    BY OwnerActs
<1> QED
    BY <1>1, <1>2, <1>3, <1>4 DEF Inv

\* One that leaves the lines of the file alone.
LEMMA QuietInv ==
    ASSUME Inv, NEW s \in Stores, Active(s), NEW r \in Runs, Writes(r),
           store' = [store EXCEPT ![s] = r], UNCHANGED <<file, gen, prefix, command, acked, hurt>>,
           synced' = synced \/ (synced' = Len(file) /\ (Sound => Terminated(file))),
           Sound /\ r.pc \notin {"new", "closed", "dead"} => Fits(r)
    PROVE  Inv' /\ (hurt' = {} => LogStep)
<1>1. /\ file \in Seq(Lines) /\ Lined(file) /\ gen \in 1 .. MaxGen /\ acked \in Seq(Values)
      /\ Len(file) \in Nat /\ synced \in 0 .. Len(file) /\ Len(acked) \in Nat
    BY DEF Inv, TypeOK
<1>2. Log' = Log
    BY LogIs
<1>3. synced' \in 0 .. Len(file) /\ Lined(file')
    BY <1>1
<1>4. Sound => /\ IsPrefix(acked, Log)
               /\ Len(acked) <= synced /\ (Terminated(file) \/ synced < Len(file))
    BY DEF Sound, OnDisk
<1>5. Sound => OnDisk'
    BY <1>1, <1>4 DEF OnDisk
<1>6. LogStep
    BY <1>2 DEF LogStep
<1>7. Fits(r) => Fits(r)'
    BY <1>2 DEF Fits
<1> QED
    <2>1. hurt \subseteq hurt' /\ hurt' \subseteq Harms
        BY DEF Inv, TypeOK
    <2> QED
        BY <1>1, <1>2, <1>3, <1>4, <1>5, <1>6, <1>7, <2>1, OwnerInv

\* The fields of the store before a step.
LEMMA RunTyped ==
    ASSUME Inv, NEW s \in Stores
    PROVE  store \in [Stores -> Runs] /\ store[s] \in Runs /\ Writes(store[s])
           /\ (Sound /\ Active(s) => Fits(store[s]))
BY DEF Inv, TypeOK, Writing, Sound, OwnerFits

\* A store that has nothing to do with the file is of no consequence.
LEMMA UnusedRun ==
    ASSUME NEW pc \in {"new", "closed", "dead"}
    PROVE  /\ Unused(pc) \in Runs /\ Writes(Unused(pc)) /\ Unused(pc).pc = pc
<1>1. 0 \in 0 .. MaxGen
    BY BoundsAssumption
<1>2. <<>> \in Seq(Values) /\ None \in Values \cup {None}
    OBVIOUS
<1>3. Unused(pc) \in Runs
    BY <1>1, <1>2 DEF Unused, Runs
<1> QED
    BY <1>3 DEF Unused, Writes

\* #append composes its line.
LEMMA AppendBeginInv ==
    ASSUME Inv, NEW s \in Stores, AppendBegin(s)
    PROVE  Inv' /\ (hurt' = {} => LogStep)
<1>1. PICK v \in Values : store' = [store EXCEPT ![s].pc = "write", ![s].val = v]
    BY DEF AppendBegin
<1>2. /\ store \in [Stores -> Runs] /\ store[s] \in Runs /\ Writes(store[s])
      /\ Sound /\ Active(s) => Fits(store[s])
    BY RunTyped
<1>3. PICK r \in Runs : /\ store' = [store EXCEPT ![s] = r]
                        /\ r.pc = "write" /\ r.val = v /\ r.handle = store[s].handle
                        /\ r.chain = store[s].chain /\ r.failed = store[s].failed /\ r.late = store[s].late
    <2> DEFINE q == [store[s] EXCEPT !.pc = "write", !.val = v]
    <2>1. q \in Runs /\ store' = [store EXCEPT ![s] = q]
        BY <1>1, <1>2 DEF Runs
    <2>2. /\ q.pc = "write" /\ q.val = v /\ q.handle = store[s].handle
          /\ q.chain = store[s].chain /\ q.failed = store[s].failed /\ q.late = store[s].late
        BY <1>2 DEF Runs
    <2> QED BY <2>1, <2>2
<1>4. store[s].pc = "idle" /\ store[s].handle # 0 /\ ~store[s].failed /\ Active(s)
    BY DEF AppendBegin, Active
<1>5. Writes(r)
    BY <1>2, <1>3, <1>4 DEF Writes
<1>6. Sound => Fits(r)
    BY <1>2, <1>3, <1>4 DEF Fits
<1> QED
    BY <1>3, <1>4, <1>5, <1>6, QuietInv DEF AppendBegin

\* The line of an append.
LEMMA LineTyped ==
    ASSUME Inv, NEW s \in Stores, store[s].val \in Values, NEW form \in Forms
    PROVE  /\ NextLine(s, form) \in Lines /\ NextLine(s, form).prev = store[s].chain
           /\ NextLine(s, form).val = store[s].val /\ NextLine(s, form).form = form
<1>1. store[s].chain \in Seq(Values)
    BY RunTyped DEF Runs
<1> QED
    BY <1>1 DEF NextLine, Line, Lines

\* What a write that stops can leave in the file.
LEMMA RemainsRecovers ==
    ASSUME Inv, NEW s \in Stores, store[s].val \in Values, Remains(s)
    PROVE  /\ file' \in Seq(Lines) /\ Lined(file') /\ synced \in 0 .. Len(file')
           /\ Attached(s) \/ file' = file
           /\ CorruptTail(file) => CorruptTail(file')
           /\ Sound => /\ Terminated(file') \/ synced < Len(file')
                       /\ IsPrefix(acked, Log')
                       /\ \/ Log' = Log
                          \/ Log' = Append(Log, store[s].val)
                          \/ ~Terminated(file) /\ \E k \in Len(acked) .. Len(Log) : Log' = SubSeq(Log, 1, k)
<1>1. CASE UNCHANGED file
    <2>1. Log' = Log
        BY <1>1, LogIs
    <2> QED
        BY <1>1, <2>1 DEF Inv, TypeOK, Sound, OnDisk
<1>2. ASSUME NEW form \in {"part", "bare", "line"}, Reach(s, NextLine(s, form))
      PROVE  /\ file' \in Seq(Lines) /\ Lined(file') /\ synced \in 0 .. Len(file')
             /\ Attached(s) \/ file' = file
             /\ CorruptTail(file) => CorruptTail(file')
             /\ Sound => /\ Terminated(file') \/ synced < Len(file')
                         /\ IsPrefix(acked, Log')
                         /\ \/ Log' = Log
                            \/ Log' = Append(Log, store[s].val)
                            \/ ~Terminated(file) /\ \E k \in Len(acked) .. Len(Log) : Log' = SubSeq(Log, 1, k)
    <2>1. form \in Forms
        BY DEF Forms
    <2>2. PICK l \in Lines : l = NextLine(s, form) /\ l.val = store[s].val
        BY <2>1, LineTyped
    <2>3. Reach(s, l)
        BY <1>2, <2>2
    <2>4. Attached(s) \/ file' = file
        BY <2>3 DEF Reach
    <2> QED
        BY <2>2, <2>3, <2>4, ReachRecovers
<1> QED
    BY <1>1, <1>2 DEF Remains

\* The latch is set.
LEMMA FailRun ==
    ASSUME Inv, NEW s \in Stores, Fail(s)
    PROVE  \E r \in Runs : /\ store' = [store EXCEPT ![s] = r] /\ Writes(r)
                           /\ r.pc = "idle" /\ r.failed /\ r.handle = store[s].handle
                           /\ r.chain = store[s].chain /\ r.late = store[s].late
<1>1. store \in [Stores -> Runs] /\ store[s] \in Runs /\ Writes(store[s])
    BY RunTyped
<1> DEFINE q == [store[s] EXCEPT !.pc = "idle", !.failed = TRUE,
                                 !.val = IF store[s].late THEN store[s].val ELSE None]
<1>2. q \in Runs
    BY <1>1 DEF Runs
<1>3. store' = [store EXCEPT ![s] = q]
    BY <1>1 DEF Fail, Runs
<1>4. /\ q.pc = "idle" /\ q.failed /\ q.handle = store[s].handle
      /\ q.chain = store[s].chain /\ q.late = store[s].late
      /\ q.late => q.val = store[s].val
    BY <1>1 DEF Runs
<1> HIDE DEF q
<1>5. Writes(q)
    BY <1>1, <1>4 DEF Writes
<1> QED
    BY <1>2, <1>3, <1>4, <1>5

\* The store that has the lock is attached to the file unless it has no handle.
LEMMA OwnerAttached ==
    ASSUME Inv, NEW s \in Stores, Fits(store[s])
    PROVE  Attached(s) <=> store[s].handle # 0
<1>1. gen \in 1 .. MaxGen
    BY DEF Inv, TypeOK
<1> QED
    BY <1>1 DEF Fits, Attached

\* writeFully has written the line.
LEMMA WriteInv ==
    ASSUME Inv, NEW s \in Stores, Write(s)
    PROVE  Inv' /\ (hurt' = {} => LogStep)
<1>1. /\ store \in [Stores -> Runs] /\ store[s] \in Runs /\ Writes(store[s])
      /\ Sound /\ Active(s) => Fits(store[s])
    BY RunTyped
<1>2. store[s].pc = "write" /\ Active(s) /\ store[s].val \in Values /\ store[s].handle # 0
      /\ ~store[s].failed /\ ~store[s].late
    BY <1>1 DEF Write, Active, Writes
<1>3. PICK r \in Runs : /\ store' = [store EXCEPT ![s] = r]
                        /\ r.pc = "sync" /\ r.val = store[s].val /\ r.handle = store[s].handle
                        /\ r.chain = store[s].chain /\ r.failed = store[s].failed /\ r.late = store[s].late
    <2> DEFINE q == [store[s] EXCEPT !.pc = "sync"]
    <2>1. q \in Runs /\ store' = [store EXCEPT ![s] = q]
        BY <1>1 DEF Runs, Write
    <2>2. /\ q.pc = "sync" /\ q.val = store[s].val /\ q.handle = store[s].handle
          /\ q.chain = store[s].chain /\ q.failed = store[s].failed /\ q.late = store[s].late
        BY <1>1 DEF Runs
    <2> QED BY <2>1, <2>2
<1>4. Writes(r)
    BY <1>2, <1>3 DEF Writes
<1>5. PICK l \in Lines : /\ l = NextLine(s, "line") /\ l.prev = store[s].chain
                         /\ l.val = store[s].val /\ l.form = "line"
    <2>1. "line" \in Forms
        BY DEF Forms
    <2> QED BY <1>2, <2>1, LineTyped
<1>6. Reach(s, l)
    BY <1>5 DEF Write
<1>7. /\ file' \in Seq(Lines) /\ Lined(file') /\ synced \in 0 .. Len(file')
      /\ Intact(file) /\ l.form = "line" /\ l.prev = Log /\ Attached(s) =>
           Intact(file') /\ Log' = Append(Log, l.val)
      /\ Sound => IsPrefix(acked, Log')
    BY <1>6, ReachRecovers
<1>8. ASSUME Sound
      PROVE  Fits(r)' /\ IsPrefix(acked', Log') /\ OnDisk' /\ LogStep
    <2>1. Fits(store[s]) /\ Attached(s) /\ Intact(file) /\ store[s].chain = Log
        BY <1>1, <1>2, <1>8, OwnerAttached DEF Fits
    <2>2. Intact(file') /\ Log' = Append(Log, store[s].val)
        BY <1>5, <1>7, <2>1
    <2>3. LogStep
        BY <1>2, <2>2 DEF LogStep, Write
    <2>4. OnDisk'
        BY <1>8, <2>2 DEF Sound, OnDisk, Write, Intact
    <2>5. IsPrefix(store[s].chain, Append(Log, store[s].val))
        BY <1>2, <2>1, LogTyped, PrefixSelf, PrefixKept
    <2>6. Fits(r)'
        BY <1>3, <2>1, <2>2, <2>5 DEF Fits, Write
    <2> QED
        BY <1>7, <1>8, <2>3, <2>4, <2>6 DEF Write
<1>9. /\ UNCHANGED <<prefix, command>> /\ hurt \subseteq hurt' /\ hurt' \subseteq Harms
      /\ gen' \in 1 .. MaxGen /\ synced' \in 0 .. Len(file') /\ acked' \in Seq(Values)
    BY <1>7 DEF Write, Inv, TypeOK
<1> QED
    BY <1>2, <1>3, <1>4, <1>7, <1>8, <1>9, OwnerInv

\* The store gives up a write of which something may be in the file.
LEMMA GivesUpInv ==
    ASSUME Inv, NEW s \in Stores, Active(s), store[s].val \in Values, Remains(s),
           store[s].pc = "write" \/ (store[s].pc = "idle" /\ store[s].late),
           NEW r \in Runs, Writes(r), store' = [store EXCEPT ![s] = r],
           \/ r.pc = "dead"
           \/ r.pc = "idle" /\ r.handle = store[s].handle /\ r.chain = store[s].chain /\ r.failed /\ ~r.late,
           UNCHANGED <<gen, synced, prefix, command, acked>>,
           hurt \subseteq hurt', hurt' \subseteq Harms
    PROVE  Inv' /\ (hurt' = {} => LogStep)
<1>1. Writes(store[s]) /\ (Sound => Fits(store[s]))
    BY RunTyped
<1>2. /\ file' \in Seq(Lines) /\ Lined(file') /\ synced \in 0 .. Len(file')
      /\ Sound => /\ Terminated(file') \/ synced < Len(file')
                  /\ IsPrefix(acked, Log')
                  /\ \/ Log' = Log
                     \/ Log' = Append(Log, store[s].val)
                     \/ ~Terminated(file) /\ \E k \in Len(acked) .. Len(Log) : Log' = SubSeq(Log, 1, k)
    BY RemainsRecovers
<1>3. ASSUME Sound
      PROVE  /\ r.pc \notin {"new", "closed", "dead"} => Fits(r)'
             /\ IsPrefix(acked', Log') /\ OnDisk' /\ LogStep
    <2>1. Intact(file) /\ store[s].chain = Log /\ store[s].handle \in {0, gen}
        BY <1>1, <1>3 DEF Fits, Writes
    <2>2. Log' = Log \/ Log' = Append(Log, store[s].val)
        BY <1>2, <1>3, <2>1 DEF Intact
    <2>3. IsPrefix(store[s].chain, Log')
        BY <2>1, <2>2, LogTyped, PrefixSelf, PrefixKept
    <2>4. LogStep
        BY <2>2 DEF LogStep
    <2>5. OnDisk'
        BY <1>2, <1>3 DEF Sound, OnDisk
    <2>6. r.pc \notin {"new", "closed", "dead"} => Fits(r)'
        BY <2>1, <2>3 DEF Fits
    <2> QED
        BY <1>2, <1>3, <2>4, <2>5, <2>6
<1>4. gen' \in 1 .. MaxGen /\ synced' \in 0 .. Len(file') /\ acked' \in Seq(Values)
    BY <1>2 DEF Inv, TypeOK
<1> QED
    BY <1>2, <1>3, <1>4, OwnerInv

\* The write fails.
LEMMA WriteFailInv ==
    ASSUME Inv, NEW s \in Stores, WriteFail(s)
    PROVE  Inv' /\ (hurt' = {} => LogStep)
<1>1. store[s].pc = "write" /\ Active(s) /\ store[s].val \in Values /\ ~store[s].late
    BY RunTyped DEF WriteFail, Active, Writes
<1>2. PICK r \in Runs : /\ store' = [store EXCEPT ![s] = r] /\ Writes(r)
                        /\ r.pc = "idle" /\ r.failed /\ r.handle = store[s].handle
                        /\ r.chain = store[s].chain /\ r.late = store[s].late
    BY FailRun DEF WriteFail
<1>3. hurt \subseteq hurt' /\ hurt' \subseteq Harms
    BY DEF WriteFail, Inv, TypeOK
<1> QED
    BY <1>1, <1>2, <1>3, GivesUpInv DEF WriteFail

\* #flush gives the write up at its deadline.
LEMMA WriteTimeoutInv ==
    ASSUME Inv, NEW s \in Stores, WriteTimeout(s)
    PROVE  Inv' /\ (hurt' = {} => LogStep)
<1>1. /\ store \in [Stores -> Runs] /\ store[s] \in Runs /\ Writes(store[s])
      /\ Sound /\ Active(s) => Fits(store[s])
    BY RunTyped
<1>2. store[s].pc = "write" /\ Active(s) /\ store[s].val \in Values /\ store[s].handle # 0
    BY <1>1 DEF WriteTimeout, Active, Writes
<1>3. PICK r \in Runs : /\ store' = [store EXCEPT ![s] = r]
                        /\ r.pc = "idle" /\ r.val = store[s].val /\ r.handle = store[s].handle
                        /\ r.chain = store[s].chain /\ r.failed /\ r.late
    <2> DEFINE q == [store[s] EXCEPT !.pc = "idle", !.failed = TRUE, !.late = TRUE]
    <2>1. q \in Runs /\ store' = [store EXCEPT ![s] = q]
        BY <1>1 DEF Runs, WriteTimeout
    <2>2. /\ q.pc = "idle" /\ q.val = store[s].val /\ q.handle = store[s].handle
          /\ q.chain = store[s].chain /\ q.failed /\ q.late
        BY <1>1 DEF Runs
    <2> QED BY <2>1, <2>2
<1>4. Writes(r)
    BY <1>2, <1>3 DEF Writes
<1>5. Sound => Fits(r)
    BY <1>1, <1>2, <1>3 DEF Fits
<1> QED
    BY <1>2, <1>3, <1>4, <1>5, QuietInv DEF WriteTimeout

\* The file is synced, the chain goes on, append returns.
LEMMA SyncInv ==
    ASSUME Inv, NEW s \in Stores, Sync(s)
    PROVE  Inv' /\ (hurt' = {} => LogStep)
<1>1. /\ store \in [Stores -> Runs] /\ store[s] \in Runs /\ Writes(store[s])
      /\ Sound /\ Active(s) => Fits(store[s])
    BY RunTyped
<1>2. store[s].pc = "sync" /\ Active(s) /\ store[s].val \in Values /\ store[s].handle # 0
      /\ ~store[s].failed /\ ~store[s].late
    BY <1>1 DEF Sync, Active, Writes
<1> DEFINE c == Append(store[s].chain, store[s].val)
<1>3. c \in Seq(Values)
    BY <1>1, <1>2, AppendProperties DEF Runs
<1>4. PICK r \in Runs : /\ store' = [store EXCEPT ![s] = r]
                        /\ r.pc = "idle" /\ r.handle = store[s].handle
                        /\ r.chain = c /\ r.failed = store[s].failed /\ r.late = store[s].late
    <2>1. store' = [store EXCEPT ![s].pc = "idle", ![s].chain = c, ![s].val = None]
        BY DEF Sync
    <2> HIDE DEF c
    <2> DEFINE q == [store[s] EXCEPT !.pc = "idle", !.chain = c, !.val = None]
    <2>2. q \in Runs /\ store' = [store EXCEPT ![s] = q]
        BY <1>1, <1>3, <2>1 DEF Runs
    <2>3. /\ q.pc = "idle" /\ q.handle = store[s].handle
          /\ q.chain = c /\ q.failed = store[s].failed /\ q.late = store[s].late
        BY <1>1 DEF Runs
    <2> QED BY <2>2, <2>3
<1>5. Writes(r)
    BY <1>2, <1>4 DEF Writes
<1>6. /\ acked' = IF Attached(s) THEN c ELSE Append(acked, store[s].val)
      /\ synced' = IF Attached(s) THEN Len(file) ELSE synced
      /\ UNCHANGED <<file, gen, prefix, command, hurt>>
    BY DEF Sync
<1>7. /\ file \in Seq(Lines) /\ Lined(file) /\ Len(file) \in Nat /\ synced \in 0 .. Len(file)
      /\ acked \in Seq(Values) /\ gen \in 1 .. MaxGen /\ hurt \subseteq Harms
    BY DEF Inv, TypeOK
<1> HIDE DEF c
<1>8. acked' \in Seq(Values) /\ synced' \in 0 .. Len(file') /\ file' \in Seq(Lines) /\ Lined(file')
    BY <1>2, <1>3, <1>6, <1>7, AppendProperties
<1>9. ASSUME Sound
      PROVE  Fits(r)' /\ IsPrefix(acked', Log') /\ OnDisk' /\ LogStep
    <2>1. Fits(store[s]) /\ Attached(s) /\ Intact(file) /\ Log = c
        BY <1>1, <1>2, <1>9, OwnerAttached DEF Fits, c
    <2>2. acked' = c /\ synced' = Len(file) /\ Log' = Log
        BY <1>6, <2>1, LogIs
    <2>3. LogStep
        BY <2>1, <2>2 DEF LogStep
    <2>4. OnDisk'
        <3>1. Len(Log) = Len(file) /\ Terminated(file)
            BY <2>1, LogTyped DEF Intact
        <3> QED BY <1>6, <1>7, <2>1, <2>2, <3>1 DEF OnDisk
    <2>5. IsPrefix(c, c)
        BY <1>3, PrefixSelf
    <2>6. Fits(r)'
        BY <1>2, <1>4, <1>6, <2>1, <2>2, <2>5 DEF Fits
    <2> QED
        BY <2>1, <2>2, <2>3, <2>4, <2>5, <2>6
<1>10. hurt \subseteq hurt' /\ hurt' \subseteq Harms /\ gen' \in 1 .. MaxGen
    BY <1>6, <1>7
<1> QED
    BY <1>2, <1>4, <1>5, <1>6, <1>8, <1>9, <1>10, OwnerInv

\* The sync fails.
LEMMA SyncFailInv ==
    ASSUME Inv, NEW s \in Stores, SyncFail(s)
    PROVE  Inv' /\ (hurt' = {} => LogStep)
<1>1. Writes(store[s]) /\ (Sound /\ Active(s) => Fits(store[s]))
    BY RunTyped
<1>2. store[s].pc = "sync" /\ Active(s) /\ ~store[s].late
    BY <1>1 DEF SyncFail, Active, Writes
<1>3. PICK r \in Runs : /\ store' = [store EXCEPT ![s] = r] /\ Writes(r)
                        /\ r.pc = "idle" /\ r.failed /\ r.handle = store[s].handle
                        /\ r.chain = store[s].chain /\ r.late = store[s].late
    BY FailRun DEF SyncFail
<1>4. Sound => Fits(r)
    BY <1>1, <1>2, <1>3 DEF Fits
<1> QED
    BY <1>2, <1>3, <1>4, QuietInv DEF SyncFail

\* #replace closes the handle first.
LEMMA ReplaceCloseInv ==
    ASSUME Inv, NEW s \in Stores, ReplaceClose(s)
    PROVE  Inv' /\ (hurt' = {} => LogStep)
<1>1. /\ store \in [Stores -> Runs] /\ store[s] \in Runs /\ Writes(store[s])
      /\ Sound /\ Active(s) => Fits(store[s])
    BY RunTyped
<1>2. store[s].pc = "idle" /\ Active(s) /\ UNCHANGED <<file, gen, prefix, command, acked, hurt>>
    BY DEF ReplaceClose, Active
<1>3. CASE /\ ~store[s].late
           /\ store' = [store EXCEPT ![s].pc = "replace", ![s].handle = 0]
           /\ synced' = IF Attached(s) /\ ~store[s].failed THEN Len(file) ELSE synced
    <2>1. PICK r \in Runs : /\ store' = [store EXCEPT ![s] = r]
                            /\ r.pc = "replace" /\ r.handle = 0
                            /\ r.chain = store[s].chain /\ r.late = store[s].late
        <3> DEFINE q == [store[s] EXCEPT !.pc = "replace", !.handle = 0]
        <3>0. 0 \in 0 .. MaxGen
            BY BoundsAssumption
        <3>1. q \in Runs /\ store' = [store EXCEPT ![s] = q]
            BY <1>1, <1>3, <3>0 DEF Runs
        <3>2. /\ q.pc = "replace" /\ q.handle = 0
              /\ q.chain = store[s].chain /\ q.late = store[s].late
            BY <1>1 DEF Runs
        <3> QED BY <3>1, <3>2
    <2>2. Writes(r)
        BY <1>3, <2>1 DEF Writes
    <2>3. Sound => Fits(r)
        BY <1>1, <1>2, <2>1 DEF Fits
    <2>4. synced' = synced \/ (synced' = Len(file) /\ (Sound => Terminated(file)))
        <3>1. Sound /\ Attached(s) /\ ~store[s].failed => Terminated(file)
            BY <1>1, <1>2, OwnerAttached DEF Fits, Intact
        <3> QED BY <1>3, <3>1
    <2> QED
        BY <1>2, <2>1, <2>2, <2>3, <2>4, QuietInv
<1>4. CASE store[s].handle # 0 /\ Fail(s) /\ UNCHANGED synced
    <2>1. PICK r \in Runs : /\ store' = [store EXCEPT ![s] = r] /\ Writes(r)
                            /\ r.pc = "idle" /\ r.failed /\ r.handle = store[s].handle
                            /\ r.chain = store[s].chain /\ r.late = store[s].late
        BY <1>4, FailRun
    <2>2. Sound => Fits(r)
        BY <1>1, <1>2, <1>4, <2>1 DEF Fits
    <2> QED
        BY <1>2, <1>4, <2>1, <2>2, QuietInv
<1> QED
    BY <1>3, <1>4 DEF ReplaceClose

\* The replacement is renamed to the path.
LEMMA ReplaceSwapInv ==
    ASSUME Inv, NEW s \in Stores, ReplaceSwap(s)
    PROVE  Inv' /\ (hurt' = {} => LogStep)
<1>1. /\ store \in [Stores -> Runs] /\ store[s] \in Runs /\ Writes(store[s])
      /\ Sound /\ Active(s) => Fits(store[s])
    BY RunTyped
<1>2. store[s].pc = "replace" /\ Active(s) /\ store[s].handle = 0 /\ ~store[s].late /\ gen < MaxGen
    BY <1>1 DEF ReplaceSwap, Active, Writes
<1>3. PICK vs \in Batches : Swap(vs) /\ acked' = vs
    BY DEF ReplaceSwap
<1>4. vs \in Seq(Values)
    <2>1. PICK n \in 0 .. MaxLines : vs \in [1 .. n -> Values]
        BY DEF Batches
    <2>2. n \in Nat
        BY BoundsAssumption
    <2> QED BY <2>1, <2>2, IsASeq
<1>5. PICK g : g = Encode(vs) /\ g = file'
    BY <1>3 DEF Swap
<1>6. g \in Seq(Lines) /\ Lined(g) /\ Len(g) = Len(vs) /\ Intact(g) /\ Recovered(g) = vs
    BY <1>4, <1>5, EncodeRecovers
<1>7. PICK r \in Runs : /\ store' = [store EXCEPT ![s] = r]
                        /\ r.pc = "reopen" /\ r.handle = 0 /\ r.late = store[s].late
    <2> DEFINE q == [store[s] EXCEPT !.pc = "reopen"]
    <2>1. q \in Runs /\ store' = [store EXCEPT ![s] = q]
        BY <1>1 DEF Runs, ReplaceSwap
    <2>2. q.pc = "reopen" /\ q.handle = 0 /\ q.late = store[s].late
        BY <1>1, <1>2 DEF Runs
    <2> QED BY <2>1, <2>2
<1>8. Writes(r)
    BY <1>2, <1>7 DEF Writes
<1>9. /\ file' \in Seq(Lines) /\ Lined(file') /\ gen' \in 1 .. MaxGen /\ synced' \in 0 .. Len(file')
      /\ acked' \in Seq(Values) /\ UNCHANGED <<prefix, command>>
      /\ hurt \subseteq hurt' /\ hurt' \subseteq Harms
    <2>1. gen + 1 \in 1 .. MaxGen
        BY <1>2, BoundsAssumption DEF Inv, TypeOK
    <2>2. Len(vs) \in 0 .. Len(vs)
        BY <1>4
    <2> QED
        BY <1>3, <1>4, <1>5, <1>6, <2>1, <2>2 DEF Swap, ReplaceSwap, Inv, TypeOK
<1>10. ASSUME Sound
       PROVE  Fits(r)' /\ IsPrefix(acked', Log') /\ OnDisk' /\ LogStep
    <2>1. Log' = vs
        BY <1>5, <1>6, LogIs
    <2>3. LogStep
        BY <1>2, <1>3, <1>4, <2>1 DEF LogStep
    <2>4. IsPrefix(acked', Log')
        BY <1>3, <1>4, <2>1, PrefixSelf
    <2>5. OnDisk'
        BY <1>3, <1>4, <1>5, <1>6 DEF OnDisk, Swap, Intact
    <2>6. Fits(r)'
        BY <1>5, <1>6, <1>7 DEF Fits
    <2> QED
        BY <2>3, <2>4, <2>5, <2>6
<1> QED
    BY <1>2, <1>7, <1>8, <1>9, <1>10, OwnerInv

\* The replacement could not be written, or the chain goes on from it.
LEMMA ReplaceEndInv ==
    ASSUME Inv, NEW s \in Stores, ReplaceFail(s) \/ ReplaceOpen(s)
    PROVE  Inv' /\ (hurt' = {} => LogStep)
<1>1. /\ store \in [Stores -> Runs] /\ store[s] \in Runs /\ Writes(store[s])
      /\ Sound /\ Active(s) => Fits(store[s])
    BY RunTyped
<1>2. /\ store[s].pc \in {"replace", "reopen"} /\ Active(s) /\ store[s].handle = 0 /\ ~store[s].late
      /\ UNCHANGED <<file, gen, synced, prefix, command, acked, hurt>>
    BY <1>1 DEF ReplaceFail, ReplaceOpen, Active, Writes
<1>3. CASE ReplaceFail(s)
    <2>1. PICK r \in Runs : /\ store' = [store EXCEPT ![s] = r] /\ r.pc = "idle"
                            /\ r.handle = 0 /\ r.chain = store[s].chain /\ r.late = store[s].late
        <3> DEFINE q == [store[s] EXCEPT !.pc = "idle"]
        <3>1. q \in Runs /\ store' = [store EXCEPT ![s] = q]
            BY <1>1, <1>3 DEF Runs, ReplaceFail
        <3>2. q.pc = "idle" /\ q.handle = 0 /\ q.chain = store[s].chain /\ q.late = store[s].late
            BY <1>1, <1>2 DEF Runs
        <3> QED BY <3>1, <3>2
    <2>2. Writes(r)
        BY <1>2, <2>1 DEF Writes
    <2>3. Sound => Fits(r)
        BY <1>1, <1>2, <1>3, <2>1 DEF Fits, ReplaceFail
    <2> QED
        BY <1>2, <2>1, <2>2, <2>3, QuietInv
<1>4. CASE ReplaceOpen(s)
    <2>1. PICK h \in {0, gen} :
            store' = [store EXCEPT ![s].pc = "idle", ![s].handle = h, ![s].chain = Log]
        BY <1>4 DEF ReplaceOpen
    <2>2. h \in 0 .. MaxGen
        BY BoundsAssumption DEF Inv, TypeOK
    <2>3. PICK c \in Seq(Values) : c = Log
        BY LogTyped
    <2>4. PICK r \in Runs : /\ store' = [store EXCEPT ![s] = r] /\ r.pc = "idle"
                            /\ r.handle = h /\ r.chain = c /\ r.late = store[s].late
        <3> DEFINE q == [store[s] EXCEPT !.pc = "idle", !.handle = h, !.chain = c]
        <3>1. q \in Runs /\ store' = [store EXCEPT ![s] = q]
            BY <1>1, <2>1, <2>2, <2>3 DEF Runs
        <3>2. q.pc = "idle" /\ q.handle = h /\ q.chain = c /\ q.late = store[s].late
            BY <1>1 DEF Runs
        <3> QED BY <3>1, <3>2
    <2>5. Writes(r)
        BY <1>2, <2>4 DEF Writes
    <2>6. Sound => Fits(r)
        <3>1. IsPrefix(c, c)
            BY PrefixSelf
        <3>2. Sound => Intact(file)
            BY <1>1, <1>2, <1>4 DEF Fits, ReplaceOpen
        <3> QED BY <1>2, <2>3, <2>4, <3>1, <3>2 DEF Fits
    <2> QED
        BY <1>2, <2>4, <2>5, <2>6, QuietInv
<1> QED
    BY <1>3, <1>4

\* close, after which the lock is given up.
LEMMA CloseInv ==
    ASSUME Inv, NEW s \in Stores, Close(s)
    PROVE  Inv' /\ (hurt' = {} => LogStep)
<1>1. /\ store \in [Stores -> Runs] /\ store[s] \in Runs /\ Writes(store[s])
      /\ Sound /\ Active(s) => Fits(store[s])
    BY RunTyped
<1>2. store[s].pc = "idle" /\ Active(s) /\ UNCHANGED <<file, gen, prefix, command, acked, hurt>>
    BY DEF Close, Active
<1>3. PICK r \in Runs : store' = [store EXCEPT ![s] = r] /\ Writes(r) /\ r.pc = "closed"
    <2>1. CASE store[s].late
        <3> DEFINE q == [store[s] EXCEPT !.pc = "closed"]
        <3>1. q \in Runs /\ store' = [store EXCEPT ![s] = q]
            BY <1>1, <2>1 DEF Runs, Close
        <3>2. /\ q.pc = "closed" /\ q.handle = store[s].handle /\ q.val = store[s].val
              /\ q.late = store[s].late /\ q.failed = store[s].failed
            BY <1>1 DEF Runs
        <3> HIDE DEF q
        <3>3. Writes(q)
            BY <1>1, <3>2 DEF Writes
        <3> QED BY <3>1, <3>2, <3>3
    <2>2. CASE ~store[s].late
        <3>1. store' = [store EXCEPT ![s] = Unused("closed")]
            BY <2>2 DEF Close
        <3> QED BY <3>1, UnusedRun
    <2> QED BY <2>1, <2>2
<1>4. synced' = synced \/ (synced' = Len(file) /\ (Sound => Terminated(file)))
    <2>1. Sound /\ Attached(s) /\ ~store[s].failed => Terminated(file)
        BY <1>1, <1>2, OwnerAttached DEF Fits, Intact
    <2> QED BY <2>1 DEF Close
<1> QED
    BY <1>2, <1>3, <1>4, QuietInv

\* A store that has no lock ends; nothing else happens.
LEMMA BystanderInv ==
    ASSUME Inv, NEW s \in Stores, ~Active(s), NEW r \in Runs, Writes(r), r.pc \in {"new", "closed", "dead"},
           store' = [store EXCEPT ![s] = r], UNCHANGED <<file, gen, synced, command, acked>>,
           prefix' \in Seq(Values) \cup {None},
           hurt \subseteq hurt', hurt' \subseteq Harms
    PROVE  Inv' /\ (hurt' = {} => LogStep)
<1>1. /\ store' \in [Stores -> Runs] /\ store'[s] = r
      /\ (\A t \in Stores \ {s} : store'[t] = store[t]) /\ Writing'
    BY StoreChanges
<1>2. Log' = Log
    BY LogIs
<1>3. TypeOK' /\ Lined(file')
    BY <1>1 DEF Inv, TypeOK
<1>4. \A t \in Stores : (Active(t)' <=> Active(t)) /\ (Active(t) => store'[t] = store[t])
    BY <1>1 DEF Active
<1>5. Sound => Sound'
    <2>1. ASSUME Sound, NEW t \in Stores, Active(t)' PROVE Fits(store[t])'
        <3>1. Fits(store[t]) /\ store'[t] = store[t]
            BY <1>4, <2>1 DEF Sound, OwnerFits
        <3> QED BY <1>2, <3>1 DEF Fits
    <2>2. Sound => OwnerFits'
        BY <2>1 DEF OwnerFits
    <2>3. Sound => OneActive' /\ Commanded'
        BY <1>2, <1>4 DEF Sound, OneActive, Commanded, LockFree
    <2>4. Sound => IsPrefix(acked', Log') /\ OnDisk'
        BY <1>2 DEF Sound, OnDisk
    <2> QED BY <2>2, <2>3, <2>4 DEF Sound
<1>6. LogStep
    BY <1>2 DEF LogStep
<1> QED
    BY <1>1, <1>3, <1>5, <1>6 DEF Inv

\* A step after which nobody has the lock.
LEMMA FreeInv ==
    ASSUME TypeOK', Lined(file'), Writing', hurt' = {} => LockFree',
           hurt' = {} => IsPrefix(acked', Log') /\ OnDisk' /\ Commanded' /\ LogStep
    PROVE  Inv' /\ (hurt' = {} => LogStep)
<1>1. LockFree' => OneActive' /\ OwnerFits'
    BY DEF LockFree, OneActive, OwnerFits
<1> QED
    BY <1>1 DEF Inv, Sound

\* The process of a store dies.
LEMMA CrashInv ==
    ASSUME Inv, NEW s \in Stores, Crash(s)
    PROVE  Inv' /\ (hurt' = {} => LogStep)
<1>1. PICK r \in Runs : store' = [store EXCEPT ![s] = r] /\ Writes(r) /\ r.pc = "dead"
    BY UnusedRun DEF Crash
<1>2. hurt \subseteq hurt' /\ hurt' \subseteq Harms /\ prefix \in Seq(Values) \cup {None}
    BY DEF Crash, Inv, TypeOK
<1>3. CASE store[s].pc = "write"
    <2>1. Active(s) /\ store[s].val \in Values
        BY <1>3, RunTyped DEF Active, Writes
    <2> QED
        BY <1>1, <1>2, <1>3, <2>1, GivesUpInv DEF Crash
<1>4. CASE store[s].pc # "write" /\ Active(s)
    BY <1>1, <1>4, QuietInv DEF Crash
<1>5. CASE ~Active(s)
    <2>1. store[s].pc # "write"
        BY <1>5 DEF Active
    <2> QED
        BY <1>1, <1>2, <1>5, <2>1, BystanderInv DEF Crash
<1> QED
    BY <1>3, <1>4, <1>5

\* A write that was given up ends.
LEMMA LateWriteInv ==
    ASSUME Inv, NEW s \in Stores, LateWrite(s)
    PROVE  Inv' /\ (hurt' = {} => LogStep)
<1>1. /\ store \in [Stores -> Runs] /\ store[s] \in Runs /\ Writes(store[s])
      /\ Sound /\ Active(s) => Fits(store[s])
    BY RunTyped
<1>2. store[s].late /\ store[s].pc \in {"idle", "closed"} /\ store[s].val \in Values /\ store[s].failed
    BY <1>1 DEF LateWrite, Writes
<1>3. hurt \subseteq hurt' /\ hurt' \subseteq Harms /\ prefix \in Seq(Values) \cup {None}
    BY DEF LateWrite, Inv, TypeOK, Harms
<1>4. CASE store[s].pc = "idle"
    <2>1. PICK r \in Runs : /\ store' = [store EXCEPT ![s] = r]
                            /\ r.pc = "idle" /\ r.handle = store[s].handle
                            /\ r.chain = store[s].chain /\ r.failed /\ ~r.late
        <3> DEFINE q == [store[s] EXCEPT !.late = FALSE, !.val = None]
        <3>1. q \in Runs
            BY <1>1 DEF Runs
        <3>2. store' = [store EXCEPT ![s] = q]
            BY <1>1, <1>4 DEF LateWrite
        <3>3. /\ q.pc = "idle" /\ q.handle = store[s].handle
              /\ q.chain = store[s].chain /\ q.failed /\ ~q.late
            BY <1>1, <1>2, <1>4 DEF Runs
        <3> QED BY <3>1, <3>2, <3>3
    <2>2. Writes(r)
        BY <2>1 DEF Writes
    <2>3. Active(s)
        BY <1>4 DEF Active
    <2> QED
        BY <1>2, <1>3, <1>4, <2>1, <2>2, <2>3, GivesUpInv DEF LateWrite
<1>5. CASE store[s].pc = "closed"
    <2>0. ~Active(s)
        BY <1>5 DEF Active
    <2>1. PICK r \in Runs : store' = [store EXCEPT ![s] = r] /\ Writes(r) /\ r.pc = "closed"
        <3>1. store' = [store EXCEPT ![s] = Unused("closed")]
            BY <1>5 DEF LateWrite
        <3> QED BY <3>1, UnusedRun
    <2>2. /\ file' \in Seq(Lines) /\ Lined(file') /\ synced \in 0 .. Len(file')
          /\ Attached(s) \/ file' = file
          /\ CorruptTail(file) => CorruptTail(file')
          /\ Sound => /\ Terminated(file') \/ synced < Len(file')
                      /\ IsPrefix(acked, Log')
                      /\ \/ Log' = Log
                         \/ Log' = Append(Log, store[s].val)
                         \/ ~Terminated(file) /\ \E k \in Len(acked) .. Len(Log) : Log' = SubSeq(Log, 1, k)
        BY <1>2, RemainsRecovers DEF LateWrite
    <2>3. CASE ~Attached(s)
        BY <1>3, <2>0, <2>1, <2>2, <2>3, BystanderInv DEF LateWrite
    <2>4. CASE Attached(s)
        <3>1. store' \in [Stores -> Runs] /\ Writing' /\ store'[s] = r /\ \A t \in Stores \ {s} : store'[t] = store[t]
            BY <2>1, StoreChanges
        <3>2. TypeOK'
            BY <1>3, <2>2, <3>1 DEF LateWrite, Inv, TypeOK
        <3>3. hurt' = {} => command.name # "compact" /\ \A t \in Stores \ {s} : ~Active(t)
            BY <2>4 DEF LateWrite
        <3>4. hurt' = {} => LockFree'
            BY <2>1, <3>1, <3>3 DEF LockFree, Active
        <3>5. hurt' = {} => Sound
            BY <1>3 DEF Inv
        <3>6. hurt' = {} => OnDisk' /\ IsPrefix(acked', Log')
            BY <2>2, <3>5 DEF LateWrite, OnDisk, Sound
        <3>8. hurt' = {} => Commanded'
            BY <2>2, <3>3, <3>4, <3>5 DEF LateWrite, Commanded, Sound
        <3>7. hurt' = {} => LogStep
            BY <1>2, <2>2, <3>5 DEF LogStep, LateWrite
        <3> QED
            BY <2>2, <3>1, <3>2, <3>4, <3>6, <3>7, <3>8, FreeInv
    <2> QED BY <2>3, <2>4
<1> QED
    BY <1>2, <1>4, <1>5

\* A last record gets its newline before anything is appended.
LEMMA NewlineInv ==
    ASSUME Inv, NEW s \in Stores, Newline(s)
    PROVE  Inv' /\ (hurt' = {} => LogStep)
<1>1. /\ store \in [Stores -> Runs] /\ store[s] \in Runs /\ Writes(store[s])
      /\ Sound /\ Active(s) => Fits(store[s])
    BY RunTyped
<1>2. /\ store[s].pc = "newline" /\ Active(s) /\ store[s].handle # 0 /\ ~store[s].failed /\ ~store[s].late
      /\ UNCHANGED <<gen, prefix, command, acked, hurt>>
    BY <1>1 DEF Newline, Active, Writes
<1>3. /\ file \in Seq(Lines) /\ Lined(file) /\ Len(file) \in Nat /\ synced \in 0 .. Len(file) /\ gen \in 1 .. MaxGen
      /\ acked \in Seq(Values) /\ Len(acked) \in Nat /\ hurt \subseteq Harms
    BY DEF Inv, TypeOK
<1>4. PICK g : g = Ended(file)
    OBVIOUS
<1>5. /\ g \in Seq(Lines) /\ Lined(g) /\ Len(g) = Len(file)
      /\ Verified(g) = Verified(file) /\ Recovered(g) = Recovered(file)
      /\ ~CorruptTail(file) \/ Terminated(file) => Terminated(g)
    BY <1>3, <1>4, EndedRecovers
<1>6. file' \in {file, g} /\ Log' = Log
    <2>1. file' \in {file, g}
        BY <1>4 DEF Newline
    <2> QED BY <1>5, <2>1, LogIs
<1>7. file' \in Seq(Lines) /\ Lined(file') /\ Len(file') = Len(file)
    BY <1>3, <1>5, <1>6
<1>8. Sound => /\ IsPrefix(acked, Log) /\ Len(acked) <= synced /\ ~CorruptTail(file)
               /\ store[s].chain = Log /\ Attached(s)
    BY <1>1, <1>2, OwnerAttached DEF Sound, OnDisk, Fits
<1>9. LogStep
    BY <1>2, <1>6 DEF LogStep
<1>10. CASE /\ file' = IF Attached(s) THEN Ended(file) ELSE file
            /\ synced' = IF Attached(s) THEN Len(file) ELSE synced
            /\ store' = [store EXCEPT ![s].pc = "idle"]
    <2>1. PICK r \in Runs : /\ store' = [store EXCEPT ![s] = r]
                            /\ r.pc = "idle" /\ r.handle = store[s].handle
                            /\ r.chain = store[s].chain /\ r.late = store[s].late
        <3> DEFINE q == [store[s] EXCEPT !.pc = "idle"]
        <3>1. q \in Runs /\ store' = [store EXCEPT ![s] = q]
            BY <1>1, <1>10 DEF Runs
        <3>2. /\ q.pc = "idle" /\ q.handle = store[s].handle
              /\ q.chain = store[s].chain /\ q.late = store[s].late
            BY <1>1 DEF Runs
        <3> QED BY <3>1, <3>2
    <2>2. Writes(r)
        BY <1>2, <2>1 DEF Writes
    <2>3. synced' \in 0 .. Len(file')
        BY <1>3, <1>7, <1>10
    <2>4. ASSUME Sound PROVE Fits(r)' /\ IsPrefix(acked', Log') /\ OnDisk'
        <3>1. file' = g /\ synced' = Len(file)
            BY <1>4, <1>8, <1>10, <2>4
        <3>2. Intact(file')
            BY <1>5, <1>8, <2>4, <3>1 DEF Intact, CorruptTail
        <3>3. IsPrefix(Log, Log)
            BY LogTyped, PrefixSelf
        <3>4. Fits(r)'
            BY <1>1, <1>2, <1>6, <1>8, <2>1, <2>4, <3>2, <3>3 DEF Fits
        <3>5. OnDisk'
            BY <1>2, <1>3, <1>8, <2>4, <3>1, <3>2 DEF OnDisk, Intact
        <3> QED BY <1>2, <1>6, <1>8, <2>4, <3>4, <3>5
    <2> QED
        BY <1>2, <1>3, <1>7, <1>9, <2>1, <2>2, <2>3, <2>4, OwnerInv
<1>11. CASE store' = [store EXCEPT ![s] = Unused("closed")] /\ UNCHANGED synced
    <2>1. PICK r \in Runs : store' = [store EXCEPT ![s] = r] /\ Writes(r) /\ r.pc = "closed"
        BY <1>11, UnusedRun
    <2>2. ASSUME Sound PROVE IsPrefix(acked', Log') /\ OnDisk'
        <3>1. Terminated(file') \/ synced < Len(file')
            BY <1>5, <1>6, <1>8, <2>2 DEF Sound, OnDisk
        <3> QED
            BY <1>2, <1>6, <1>8, <1>11, <2>2, <3>1 DEF OnDisk
    <2> QED
        BY <1>2, <1>3, <1>7, <1>9, <1>11, <2>1, <2>2, OwnerInv
<1> QED
    BY <1>10, <1>11 DEF Newline

\* A store is opened on a journal that can be read whole, others are refused.
LEMMA OpenInv ==
    ASSUME Inv, NEW s \in Stores, Open(s)
    PROVE  Inv' /\ (hurt' = {} => LogStep)
<1>1. store \in [Stores -> Runs] /\ store[s] \in Runs /\ Writes(store[s])
    BY RunTyped
<1>2. store[s].pc = "new" /\ ~Active(s) /\ LockFree /\ ~store[s].late /\ ~store[s].failed
    BY <1>1 DEF Open, Active, Writes
<1>3. /\ hurt \subseteq hurt' /\ hurt' \subseteq Harms /\ (hurt' = {} => command.name # "compact")
      /\ UNCHANGED <<file, gen, synced, command, acked>>
    BY DEF Open, Inv, TypeOK, Harms
<1>4. PICK c \in Seq(Values) : c = Log
    BY LogTyped
<1>5. CASE prefix' = Log /\ store' = [store EXCEPT ![s] = Unused("closed")]
    <2>1. PICK r \in Runs : store' = [store EXCEPT ![s] = r] /\ Writes(r) /\ r.pc = "closed"
        BY <1>5, UnusedRun
    <2> QED
        BY <1>2, <1>3, <1>4, <1>5, <2>1, BystanderInv
<1>6. CASE /\ ~CorruptTail(file)
           /\ store' = [store EXCEPT
                          ![s].pc = IF Terminated(file) THEN "idle" ELSE "newline",
                          ![s].handle = gen, ![s].chain = Log]
           /\ UNCHANGED prefix
    <2>0. gen \in 1 .. MaxGen
        BY DEF Inv, TypeOK
    <2>1. PICK r \in Runs : /\ store' = [store EXCEPT ![s] = r]
                            /\ r.pc = IF Terminated(file) THEN "idle" ELSE "newline"
                            /\ r.handle = gen /\ r.chain = c /\ ~r.failed /\ ~r.late
        <3> DEFINE q == [store[s] EXCEPT !.pc = IF Terminated(file) THEN "idle" ELSE "newline",
                                         !.handle = gen, !.chain = c]
        <3>1. gen \in 0 .. MaxGen
            BY <2>0
        <3>2. q \in Runs
            BY <1>1, <3>1 DEF Runs
        <3>3. store' = [store EXCEPT ![s] = q]
            BY <1>1, <1>4, <1>6 DEF Runs
        <3>4. /\ q.pc = IF Terminated(file) THEN "idle" ELSE "newline"
              /\ q.handle = gen /\ q.chain = c /\ ~q.failed /\ ~q.late
            BY <1>1, <1>2 DEF Runs
        <3> QED BY <3>2, <3>3, <3>4
    <2>2. Writes(r)
        BY <2>0, <2>1 DEF Writes
    <2>3. /\ store' \in [Stores -> Runs] /\ Writing' /\ store'[s] = r
          /\ \A t \in Stores \ {s} : store'[t] = store[t]
        BY <2>1, <2>2, StoreChanges
    <2>4. TypeOK' /\ Lined(file')
        BY <1>3, <1>6, <2>3 DEF Inv, TypeOK
    <2>5. Log' = Log /\ LogStep
        BY <1>3, LogIs DEF LogStep
    <2>6. \A t \in Stores : Active(t)' => t = s
        BY <1>2, <2>3 DEF LockFree, Active
    <2>7. Fits(r)'
        <3>1. IsPrefix(c, c)
            BY PrefixSelf
        <3> QED
            BY <1>3, <1>4, <1>6, <2>1, <2>5, <3>1 DEF Fits, Intact
    <2>8. OwnerFits'
        <3>1. ASSUME NEW t \in Stores, Active(t)' PROVE Fits(store[t])'
            BY <2>3, <2>6, <2>7, <3>1 DEF Fits
        <3> QED BY <3>1 DEF OwnerFits
    <2>9. hurt' = {} => Sound'
        <3>1. hurt' = {} => Sound
            BY <1>3 DEF Inv
        <3>2. OneActive'
            BY <2>6 DEF OneActive
        <3>3. hurt' = {} => Commanded'
            <4>1. command.name \in {"none", "compact", "repair", "away", "overtaken"}
                BY DEF Inv, TypeOK, Commands
            <4>2. hurt' = {} => command.name = "none"
                BY <1>3, <1>6, <3>1, <4>1 DEF Sound, Commanded
            <4> QED BY <1>3, <4>2 DEF Commanded
        <3>4. hurt' = {} => OnDisk' /\ IsPrefix(acked', Log')
            BY <1>3, <2>5, <3>1 DEF Sound, OnDisk
        <3> QED BY <2>8, <3>2, <3>3, <3>4 DEF Sound
    <2> QED
        BY <2>3, <2>4, <2>5, <2>9 DEF Inv
<1> QED
    BY <1>5, <1>6 DEF Open

\* No command is under way.
LEMMA NoCommandIs == NoCommand \in Commands /\ NoCommand.name = "none"
BY DEF NoCommand, Command, Commands

\* Power fails.
LEMMA PowerLossInv ==
    ASSUME Inv, PowerLoss
    PROVE  Inv' /\ (hurt' = {} => LogStep)
<1>1. /\ file \in Seq(Lines) /\ Lined(file) /\ Len(file) \in Nat /\ synced \in 0 .. Len(file)
      /\ acked \in Seq(Values) /\ Len(acked) \in Nat
    BY DEF Inv, TypeOK
<1>2. PICK k \in synced .. Len(file) :
        \/ file' = SubSeq(file, 1, k)
        \/ /\ k < Len(file) /\ file[k + 1].form = "line"
           /\ \E form \in {"part", "bare"} : file' = [SubSeq(file, 1, k + 1) EXCEPT ![k + 1].form = form]
    BY DEF PowerLoss
<1>3. /\ file' \in Seq(Lines) /\ Lined(file') /\ Len(file') >= synced
      /\ (Terminated(file) \/ synced < Len(file)) => (Terminated(file') \/ synced < Len(file'))
      /\ \E m \in 0 .. Verified(file) : /\ Recovered(file') = SubSeq(Recovered(file), 1, m)
                                        /\ m >= synced \/ m = Verified(file)
    BY <1>1, <1>2, LossRecovers
<1>4. /\ store' = [s \in Stores |-> IF store[s].pc = "new" THEN store[s] ELSE Unused("dead")]
      /\ command' = NoCommand /\ UNCHANGED <<gen, synced, prefix, acked, hurt>>
    BY DEF PowerLoss
<1>5. /\ store' \in [Stores -> Runs] /\ Writing' /\ LockFree'
    <2>1. ASSUME NEW s \in Stores
          PROVE  store'[s] \in Runs /\ Writes(store'[s]) /\ store'[s].pc \in {"new", "dead"}
        BY <1>4, RunTyped, UnusedRun
    <2> QED
        BY <1>4, <2>1 DEF Writing, Writes, LockFree, Active
<1>6. TypeOK'
    <2>1. synced \in 0 .. Len(file')
        BY <1>1, <1>3
    <2> QED
        BY <1>3, <1>4, <1>5, <2>1, NoCommandIs DEF Inv, TypeOK
<1>7. Commanded'
    BY <1>4, NoCommandIs DEF Commanded
<1>8. ASSUME Sound
      PROVE  IsPrefix(acked', Log') /\ OnDisk' /\ LogStep
    <2>1. PICK m \in 0 .. Len(Log) : Log' = SubSeq(Log, 1, m) /\ (m >= synced \/ m = Len(Log))
        BY <1>3, LogIs, LogTyped
    <2>2. Log \in Seq(Values) /\ IsPrefix(acked, Log) /\ Len(acked) <= synced
        BY <1>8, LogTyped DEF Sound, OnDisk
    <2>3. Len(acked) <= Len(Log) /\ \A n \in Len(acked) .. Len(Log) : IsPrefix(acked, SubSeq(Log, 1, n))
        BY <1>1, <2>2, PrefixKept
    <2>4. m \in Len(acked) .. Len(Log)
        BY <1>1, <2>1, <2>2, <2>3
    <2>5. LogStep
        BY <1>4, <2>1, <2>4 DEF LogStep
    <2>6. OnDisk'
        BY <1>3, <1>4, <1>8, <2>2 DEF Sound, OnDisk
    <2> QED
        BY <1>4, <2>1, <2>3, <2>4, <2>5, <2>6
<1>9. hurt' = {} => Sound
    BY <1>4 DEF Inv
<1> QED
    BY <1>3, <1>5, <1>6, <1>7, <1>8, <1>9, FreeInv

\* Another file is put at the path while no store is open.
LEMMA SwapInv ==
    ASSUME Inv, NEW vs \in Seq(Values), Swap(vs), gen < MaxGen, UNCHANGED <<store, prefix>>,
           acked' \in Seq(Values), command' = NoCommand,
           hurt \subseteq hurt', hurt' \subseteq Harms,
           hurt' = {} => /\ LockFree
                         /\ \/ acked' = vs /\ vs \in D!Thinned(Log)
                            \/ acked' = acked /\ vs = Log
    PROVE  Inv' /\ (hurt' = {} => LogStep)
<1>1. PICK g : g = Encode(vs) /\ g = file'
    BY DEF Swap
<1>2. g \in Seq(Lines) /\ Lined(g) /\ Len(g) = Len(vs) /\ Intact(g) /\ Recovered(g) = vs /\ Len(vs) \in Nat
    <2>1. Len(vs) \in Nat
        OBVIOUS
    <2> QED BY <1>1, <2>1, EncodeRecovers
<1>3. Log' = vs
    BY <1>1, <1>2, LogIs
<1>4. TypeOK'
    <2>1. gen' \in 1 .. MaxGen
        BY BoundsAssumption DEF Inv, TypeOK, Swap
    <2>2. synced' \in 0 .. Len(file')
        BY <1>1, <1>2 DEF Swap
    <2> QED
        BY <1>1, <1>2, <2>1, <2>2, NoCommandIs DEF Inv, TypeOK
<1>5. Writing' /\ (LockFree => LockFree')
    BY DEF Inv, Writing, Writes, LockFree, Active
<1>6. ASSUME hurt' = {}
      PROVE  IsPrefix(acked', Log') /\ OnDisk' /\ Commanded' /\ LogStep
    <2>1. Sound
        BY <1>6 DEF Inv
    <2>2. Commanded'
        BY NoCommandIs DEF Commanded
    <2>3. Terminated(file') /\ synced' = Len(vs)
        BY <1>1, <1>2 DEF Intact, Swap
    <2>4. CASE acked' = vs /\ vs \in D!Thinned(Log)
        <3>1. IsPrefix(acked', Log')
            BY <1>3, <2>4, PrefixSelf
        <3>2. OnDisk'
            BY <1>2, <2>3, <2>4 DEF OnDisk
        <3>3. LogStep
            BY <1>3, <2>4 DEF LogStep
        <3> QED BY <2>2, <3>1, <3>2, <3>3
    <2>5. CASE acked' = acked /\ vs = Log
        <3>1. IsPrefix(acked', Log')
            BY <1>3, <2>1, <2>5 DEF Sound
        <3>2. Len(acked) <= Len(vs)
            BY <1>3, <2>5, <3>1, PrefixKept
        <3>3. OnDisk'
            BY <2>3, <2>5, <3>2 DEF OnDisk
        <3>4. LogStep
            BY <1>3, <2>5 DEF LogStep
        <3> QED BY <2>2, <3>1, <3>3, <3>4
    <2> QED BY <1>6, <2>4, <2>5
<1> QED
    BY <1>1, <1>2, <1>4, <1>5, <1>6, FreeInv

\* The command of the operator goes on, and leaves the journal where it is.
LEMMA CommandInv ==
    ASSUME Inv, UNCHANGED <<file, gen, synced, store, prefix, acked, hurt>>, command' \in Commands,
           Sound => Commanded'
    PROVE  Inv' /\ (hurt' = {} => LogStep)
<1>1. Log' = Log
    BY LogIs
<1>2. LogStep
    BY <1>1 DEF LogStep
<1>3. TypeOK' /\ Lined(file') /\ Writing'
    BY DEF Inv, TypeOK, Writing
<1>4. ASSUME Sound PROVE Sound'
    <2>1. OnDisk' /\ IsPrefix(acked', Log')
        BY <1>1, <1>4 DEF Sound, OnDisk
    <2>2. OneActive'
        BY <1>4 DEF Sound, OneActive, Active
    <2>3. Commanded'
        BY <1>4
    <2>4. OwnerFits'
        <3>1. ASSUME NEW s \in Stores, Active(s)' PROVE Fits(store[s])'
            <4>1. Active(s) /\ Fits(store[s])
                BY <1>4, <3>1 DEF Sound, OwnerFits, Active
            <4> QED BY <1>1, <4>1 DEF Fits
        <3> QED BY <3>1 DEF OwnerFits
    <2> QED BY <2>1, <2>2, <2>3, <2>4 DEF Sound
<1> QED
    BY <1>2, <1>3, <1>4 DEF Inv

\* A command under way.
LEMMA CommandIs ==
    ASSUME NEW name \in {"none", "compact", "repair", "away", "overtaken"}, NEW read \in Seq(Values)
    PROVE  Command(name, read) \in Commands /\ Command(name, read).name = name
           /\ Command(name, read).read = read
BY DEF Command, Commands

\* repair decides to restore the journal, and renames it away.
LEMMA RepairBeginInv ==
    ASSUME Inv, RepairRead \/ RepairAway
    PROVE  Inv' /\ (hurt' = {} => LogStep)
<1>1. command \in Commands /\ prefix \in Seq(Values) \cup {None}
    BY DEF Inv, TypeOK
<1>2. CASE RepairRead
    <2>1. /\ UNCHANGED <<file, gen, synced, store, prefix, acked, hurt>> /\ LockFree /\ CorruptTail(file)
          /\ prefix \in Seq(Values) /\ command' = Command("repair", prefix)
        BY <1>1, <1>2 DEF RepairRead
    <2>2. command' \in Commands /\ command'.name = "repair"
        BY <2>1, CommandIs
    <2>3. Commanded'
        BY <2>1, <2>2 DEF Commanded, LockFree, Active
    <2> QED
        BY <2>1, <2>2, <2>3, CommandInv
<1>3. CASE RepairAway
    <2>1. /\ UNCHANGED <<file, gen, synced, store, prefix, acked, hurt>> /\ command.name = "repair"
          /\ command.read \in Seq(Values) /\ command' = Command("away", command.read)
        BY <1>1, <1>3 DEF RepairAway, Commands
    <2>2. command' \in Commands /\ command'.name = "away"
        BY <2>1, CommandIs
    <2>3. Sound => Commanded'
        BY <2>1, <2>2 DEF Sound, Commanded, LockFree, Active
    <2> QED
        BY <2>1, <2>2, <2>3, CommandInv
<1> QED
    BY <1>2, <1>3

\* A command ends and has changed nothing.
LEMMA GiveUpInv ==
    ASSUME Inv, RepairBack \/ GiveUp
    PROVE  Inv' /\ (hurt' = {} => LogStep)
<1>1. UNCHANGED <<file, gen, synced, store, prefix, acked, hurt>> /\ command' = NoCommand
    BY DEF RepairBack, GiveUp
<1>2. command' \in Commands /\ Commanded'
    BY <1>1, NoCommandIs DEF Commanded
<1> QED
    BY <1>1, <1>2, CommandInv

\* repair puts the prefix in place.
LEMMA RepairInInv ==
    ASSUME Inv, RepairIn
    PROVE  Inv' /\ (hurt' = {} => LogStep)
<1>1. PICK vs \in Seq(Values) : vs = command.read
    BY DEF Inv, TypeOK, Commands
<1>2. /\ hurt \subseteq hurt' /\ hurt' \subseteq Harms /\ (hurt' = {} => vs = Log)
      /\ acked' = acked /\ acked \in Seq(Values) /\ command' = NoCommand /\ command.name # "none"
      /\ Swap(vs) /\ gen < MaxGen /\ UNCHANGED <<store, prefix>>
    BY <1>1 DEF RepairIn, Inv, TypeOK, Harms
<1>3. hurt' = {} => LockFree
    BY <1>2 DEF Inv, Sound, Commanded
<1> QED
    BY <1>1, <1>2, <1>3, SwapInv

\* Nothing is at the path any more, or an empty file.
LEMMA MissingInv ==
    ASSUME Inv, RepairLost \/ \E s \in Stores : OpenMissing(s)
    PROVE  Inv' /\ (hurt' = {} => LogStep)
<1>1. /\ file' = <<>> /\ synced' = 0 /\ gen' = gen + 1 /\ gen < MaxGen /\ gen \in 1 .. MaxGen
      /\ hurt' = hurt \cup {"gap"} /\ hurt \subseteq Harms /\ UNCHANGED <<prefix, acked>>
      /\ command \in Commands
    BY DEF RepairLost, OpenMissing, Inv, TypeOK
<1>2. file' \in Seq(Lines) /\ synced' \in 0 .. Len(file') /\ gen' \in 1 .. MaxGen
    <2>1. <<>> \in Seq(Lines) /\ Len(<<>>) = 0
        OBVIOUS
    <2> QED BY <1>1, <2>1, BoundsAssumption
<1>3. Lined(file') /\ hurt' # {} /\ hurt' \subseteq Harms
    BY <1>1 DEF Lined, Harms
<1>4. store' \in [Stores -> Runs] /\ Writing'
    <2>1. CASE RepairLost
        BY <2>1 DEF RepairLost, Inv, TypeOK, Writing
    <2>2. ASSUME NEW s \in Stores, OpenMissing(s) PROVE store' \in [Stores -> Runs] /\ Writing'
        <3>1. store \in [Stores -> Runs] /\ store[s] \in Runs /\ Writes(store[s])
            BY RunTyped
        <3>2. gen + 1 \in 0 .. MaxGen /\ gen + 1 # 0 /\ <<>> \in Seq(Values)
            BY <1>1, <1>2
        <3> DEFINE q == [store[s] EXCEPT !.pc = "idle", !.handle = gen + 1, !.chain = <<>>]
        <3>3. q \in Runs
            BY <3>1, <3>2 DEF Runs
        <3>4. store' = [store EXCEPT ![s] = q]
            BY <2>2, <3>1 DEF OpenMissing, Runs
        <3>5. /\ q.pc = "idle" /\ q.handle = gen + 1 /\ q.val = store[s].val
              /\ q.late = store[s].late /\ q.failed = store[s].failed
            BY <3>1 DEF Runs
        <3>6. store[s].pc = "new"
            BY <2>2 DEF OpenMissing
        <3> HIDE DEF q
        <3>7. Writes(q)
            BY <3>1, <3>2, <3>5, <3>6 DEF Writes
        <3> QED
            BY <3>3, <3>4, <3>7, StoreChanges
    <2> QED BY <2>1, <2>2
<1>5. command' \in Commands
    <2>1. command.read \in Seq(Values)
        BY <1>1 DEF Commands
    <2>2. Command("overtaken", command.read) \in Commands
        BY <2>1, CommandIs
    <2> QED BY <2>2, NoCommandIs DEF RepairLost, OpenMissing
<1>6. TypeOK'
    <2>1. prefix \in Seq(Values) \cup {None} /\ acked \in Seq(Values)
        BY DEF Inv, TypeOK
    <2> QED BY <1>1, <1>2, <1>3, <1>4, <1>5, <2>1 DEF TypeOK
<1> QED
    BY <1>3, <1>4, <1>6 DEF Inv

\* compact reads the journal.
LEMMA CompactReadInv ==
    ASSUME Inv, CompactRead
    PROVE  Inv' /\ (hurt' = {} => LogStep)
<1>1. /\ UNCHANGED <<file, gen, synced, store, prefix, acked, hurt>>
      /\ LockFree /\ ~CorruptTail(file) /\ command' = Command("compact", Log)
    BY DEF CompactRead
<1>2. Log' = Log /\ Log \in Seq(Values)
    BY <1>1, LogIs, LogTyped
<1>3. command' \in Commands /\ command'.name = "compact" /\ command'.read = Log
    BY <1>1, <1>2, CommandIs
<1>4. Commanded'
    BY <1>1, <1>2, <1>3 DEF Commanded, LockFree, Active
<1> QED
    BY <1>1, <1>3, <1>4, CommandInv

\* It renames what it keeps to the path.
LEMMA CompactSwapInv ==
    ASSUME Inv, CompactSwap
    PROVE  Inv' /\ (hurt' = {} => LogStep)
<1>1. PICK c \in Seq(Values) : c = command.read
    BY DEF CompactSwap, Inv, TypeOK, Commands
<1>2. PICK b \in 1 .. Len(c) :
        \E older \in D!Thinned(SubSeq(c, 1, b - 1)) :
          LET vs == older \o SubSeq(c, b, Len(c))
          IN  Swap(vs) /\ acked' = vs \o SubSeq(acked, Len(c) + 1, Len(acked))
    BY <1>1 DEF CompactSwap
<1>3. PICK older \in D!Thinned(SubSeq(c, 1, b - 1)) :
          LET vs == older \o SubSeq(c, b, Len(c))
          IN  Swap(vs) /\ acked' = vs \o SubSeq(acked, Len(c) + 1, Len(acked))
    BY <1>2
<1>4. PICK vs : vs = older \o SubSeq(c, b, Len(c))
    OBVIOUS
<1>5. Swap(vs) /\ acked' = vs \o SubSeq(acked, Len(c) + 1, Len(acked))
    BY <1>3, <1>4
<1>6. vs \in D!Thinned(c) /\ vs \in Seq(Values)
    <2>1. vs \in D!Thinned(c)
        BY <1>4, ThinnedRest
    <2> QED BY <2>1, ThinnedTyped
<1>7. acked \in Seq(Values) /\ Len(acked) \in Nat /\ Len(c) \in Nat
    BY DEF Inv, TypeOK
<1>8. acked' \in Seq(Values)
    <2>1. SubSeq(acked, Len(c) + 1, Len(acked)) \in Seq(Values)
        BY <1>7
    <2> QED BY <1>5, <1>6, <2>1, ConcatProperties
<1>9. /\ UNCHANGED <<store, prefix, hurt>> /\ command' = NoCommand /\ command.name = "compact" /\ gen < MaxGen
      /\ hurt \subseteq Harms
    BY DEF CompactSwap, Inv, TypeOK
<1>10. ASSUME hurt = {}
       PROVE  LockFree /\ acked' = vs /\ vs \in D!Thinned(Log)
    <2>1. LockFree /\ Log = c /\ IsPrefix(acked, c)
        BY <1>1, <1>9, <1>10 DEF Inv, Sound, Commanded
    <2>2. Len(acked) <= Len(c)
        BY <1>7, <2>1, PrefixKept
    <2>3. SubSeq(acked, Len(c) + 1, Len(acked)) = <<>>
        BY <1>7, <2>2
    <2>4. acked' = vs
        BY <1>5, <1>6, <2>3, ConcatEmptySeq
    <2> QED
        BY <1>6, <2>1, <2>4
<1> QED
    BY <1>5, <1>6, <1>8, <1>9, <1>10, SwapInv

----------------------------------------------------------------------------
(* Every step. *)

\* A new journal is an empty file, and every store is unused.
LEMMA InitInv == Init => Inv
<1> SUFFICES ASSUME Init PROVE Inv
    OBVIOUS
<1>1. <<>> \in Seq(Lines) /\ <<>> \in Seq(Values) /\ Len(<<>>) = 0
    OBVIOUS
<1>2. Unused("new") \in Runs /\ Writes(Unused("new")) /\ Unused("new").pc = "new"
    BY UnusedRun
<1>3. file = <<>> /\ gen = 1 /\ synced = 0 /\ prefix = None /\ command = NoCommand /\ acked = <<>> /\ hurt = {}
    BY DEF Init
<1>4. store \in [Stores -> Runs] /\ \A s \in Stores : store[s] = Unused("new")
    BY <1>2 DEF Init
<1>5. gen \in 1 .. MaxGen /\ synced \in 0 .. Len(file)
    BY <1>1, <1>3, BoundsAssumption
<1>6. TypeOK
    BY <1>1, <1>3, <1>4, <1>5, NoCommandIs DEF TypeOK
<1>7. Lined(file)
    BY <1>1, <1>3 DEF Lined
<1>8. Writing /\ LockFree
    BY <1>2, <1>4 DEF Writing, LockFree, Active
<1>9. Log = <<>>
    <2>1. Recovered(file) \in Seq(Values) /\ Len(Recovered(file)) = Verified(file) /\ Verified(file) \in 0 .. Len(file)
        BY <1>1, <1>3, RecoveredTyped
    <2>2. Len(Recovered(file)) = 0
        BY <1>1, <1>3, <2>1
    <2> QED BY <2>1, <2>2, EmptySeq, LogIs
<1>10. IsPrefix(acked, Log)
    BY <1>1, <1>3, <1>9, PrefixSelf
<1>11. OnDisk /\ Commanded
    BY <1>1, <1>3, NoCommandIs DEF OnDisk, Commanded, Terminated
<1>12. OneActive /\ OwnerFits
    BY <1>8 DEF LockFree, OneActive, OwnerFits
<1> QED
    BY <1>6, <1>7, <1>8, <1>10, <1>11, <1>12 DEF Inv, Sound

\* A step that changes nothing.
LEMMA StutterInv ==
    ASSUME Inv, UNCHANGED vars
    PROVE  Inv' /\ (hurt' = {} => LogStep)
<1>1. UNCHANGED <<file, gen, synced, store, prefix, command, acked, hurt>>
    BY DEF vars
<1>2. command' \in Commands
    BY <1>1 DEF Inv, TypeOK
<1>3. Sound => Commanded'
    BY <1>1, LogIs DEF Sound, Commanded, LockFree, Active
<1> QED
    BY <1>1, <1>2, <1>3, CommandInv

\* Every step keeps the invariant and is, as long as nothing hurts the journal,
\* one of what a durable log may do.
LEMMA NextInv ==
    ASSUME Inv, [Next]_vars
    PROVE  Inv' /\ (hurt' = {} => LogStep)
<1>1. CASE UNCHANGED vars
    BY <1>1, StutterInv
<1>2. ASSUME NEW s \in Stores,
             Open(s) \/ Newline(s) \/ AppendBegin(s) \/ Write(s) \/ WriteFail(s) \/ WriteTimeout(s)
      PROVE  Inv' /\ (hurt' = {} => LogStep)
    BY <1>2, OpenInv, NewlineInv, AppendBeginInv, WriteInv, WriteFailInv, WriteTimeoutInv
<1>3. ASSUME NEW s \in Stores, LateWrite(s) \/ Sync(s) \/ SyncFail(s) \/ Close(s) \/ Crash(s)
      PROVE  Inv' /\ (hurt' = {} => LogStep)
    BY <1>3, LateWriteInv, SyncInv, SyncFailInv, CloseInv, CrashInv
<1>4. ASSUME NEW s \in Stores, ReplaceClose(s) \/ ReplaceSwap(s) \/ ReplaceFail(s) \/ ReplaceOpen(s)
      PROVE  Inv' /\ (hurt' = {} => LogStep)
    BY <1>4, ReplaceCloseInv, ReplaceSwapInv, ReplaceEndInv
<1>5. CASE PowerLoss
    BY <1>5, PowerLossInv
<1>6. CASE RepairRead \/ RepairAway \/ RepairIn
    BY <1>6, RepairBeginInv, RepairInInv
<1>7. CASE CompactRead \/ CompactSwap
    BY <1>7, CompactReadInv, CompactSwapInv
<1>8. CASE RepairBack \/ GiveUp
    BY <1>8, GiveUpInv
<1>9. CASE RepairLost \/ \E s \in Stores : OpenMissing(s)
    BY <1>9, MissingInv
<1> QED
    BY <1>1, <1>2, <1>3, <1>4, <1>5, <1>6, <1>7, <1>8, <1>9 DEF Next

\* What has hurt the journal is not undone by any step.
LEMMA HurtGrows == Next => hurt \subseteq hurt'
<1>1. ASSUME NEW s \in Stores,
             \/ Open(s) \/ Newline(s) \/ AppendBegin(s) \/ Write(s) \/ WriteFail(s) \/ WriteTimeout(s)
             \/ LateWrite(s) \/ Sync(s) \/ SyncFail(s)
      PROVE  hurt \subseteq hurt'
    BY <1>1 DEF Open, Newline, AppendBegin, Write, WriteFail, WriteTimeout, LateWrite, Sync, SyncFail
<1>2. ASSUME NEW s \in Stores,
             \/ ReplaceClose(s) \/ ReplaceSwap(s) \/ ReplaceFail(s) \/ ReplaceOpen(s)
             \/ Close(s) \/ Crash(s)
      PROVE  hurt \subseteq hurt'
    BY <1>2 DEF ReplaceClose, ReplaceSwap, ReplaceFail, ReplaceOpen, Close, Crash
<1>3. ASSUME PowerLoss \/ RepairRead \/ RepairAway \/ RepairIn \/ RepairBack \/ RepairLost
      PROVE  hurt \subseteq hurt'
    BY <1>3 DEF PowerLoss, RepairRead, RepairAway, RepairIn, RepairBack, RepairLost
<1>4. ASSUME CompactRead \/ CompactSwap \/ GiveUp \/ \E s \in Stores : OpenMissing(s)
      PROVE  hurt \subseteq hurt'
    BY <1>4 DEF CompactRead, CompactSwap, GiveUp, OpenMissing
<1> QED
    BY <1>1, <1>2, <1>3, <1>4 DEF Next

----------------------------------------------------------------------------
(* The theorems. *)

\* The inductive invariant holds in every reachable state: of the lines at the
\* path, of what every store of store.js has under way, and, as long as nothing
\* has hurt the journal, of how they fit what was acknowledged.
THEOREM JournalInvariant == Spec => []Inv
<1>1. Inv /\ [Next]_vars => Inv'
    BY NextInv
<1> QED
    BY <1>1, InitInv, PTL DEF Spec

\* The variables keep their types, through torn writes, power failures,
\* replacements, repair and compaction.
THEOREM JournalTypeCorrect == Spec => []TypeOK
<1>1. Inv => TypeOK
    BY DEF Inv
<1> QED
    BY <1>1, JournalInvariant, PTL

\* For journals of any length and any number of openings, as long as none of Harms
\* has happened: a record whose append (store.js #append) has returned is recovered
\* by recoverJournal at any later time, but between the renames of a repair,
\* whatever process died, write was torn or power failed in between.
THEOREM AckedAreRecovered == Spec => []AckedRecovered
<1>1. Inv => AckedRecovered
    BY DEF Inv, Sound, AckedRecovered
<1> QED
    BY <1>1, JournalInvariant, PTL

\* As long as none of Harms has happened, a store that appends goes on from exactly
\* the records that recoverJournal would find, its handle is of the file at the
\* path, and no repair has moved that file away.
THEOREM ChainIsTheLog == Spec => []ChainIsLog
<1>1. ASSUME Inv, hurt = {}, NEW s \in Stores,
             store[s].pc \in {"idle", "write"}, store[s].handle # 0, ~store[s].failed
      PROVE  ~Away /\ Attached(s) /\ store[s].chain = Log
    <2>1. Active(s)
        BY <1>1 DEF Active
    <2>2. Fits(store[s])
        BY <1>1, <2>1 DEF Inv, Sound, OwnerFits
    <2>3. ~Away
        BY <1>1, <2>1 DEF Inv, Sound, Commanded, LockFree, Away
    <2> QED
        BY <1>1, <2>2, <2>3 DEF Fits, Attached
<1>2. Inv => ChainIsLog
    BY <1>1 DEF ChainIsLog
<1> QED
    BY <1>2, JournalInvariant, PTL

\* The empty journal is the empty log.
LEMMA InitIsLog == Init => D!Init
<1> SUFFICES ASSUME Init PROVE D!Init
    OBVIOUS
<1>1. Inv
    BY InitInv
<1>2. file = <<>> /\ acked = <<>> /\ hurt = {}
    BY DEF Init
<1>3. Log \in Seq(Values) /\ Len(Log) = 0
    <2>1. Recovered(file) \in Seq(Values) /\ Len(Recovered(file)) = Verified(file) /\ Verified(file) \in 0 .. Len(file)
        BY <1>1, RecoveredTyped DEF Inv, TypeOK
    <2> QED BY <1>2, <2>1, LogIs
<1>4. ~\E s \in Stores : store[s].pc = "replace"
    BY DEF Init, Unused
<1> QED
    BY <1>2, <1>3, <1>4, EmptySeq DEF D!Init

\* Every step of store.js, of a crash or of the operator is a step of the durable
\* log, or leaves it alone.
LEMMA StepIsLog ==
    ASSUME Inv, [Next]_vars
    PROVE  [D!Next]_(D!vars)
<1>1. hurt \subseteq hurt'
    BY HurtGrows DEF vars
<1>2. CASE hurt' # {}
    BY <1>2 DEF D!Next, D!Break
<1>3. CASE hurt' = {}
    <2>1. D!Keep
        BY <1>1, <1>3 DEF D!Keep
    <2>2. LogStep
        BY <1>3, NextInv
    <2>3. CASE UNCHANGED <<Log, acked>>
        BY <2>1, <2>3 DEF D!Next, D!Ask
    <2>4. CASE UNCHANGED acked /\ \E v \in Values : Log' = Append(Log, v)
        BY <2>1, <2>4 DEF D!Next, D!Write
    <2>5. CASE UNCHANGED acked /\ \E k \in Len(acked) .. Len(Log) : Log' = SubSeq(Log, 1, k)
        BY <2>1, <2>5 DEF D!Next, D!Lose
    <2>6. CASE UNCHANGED Log /\ acked' = Log
        BY <2>1, <2>6 DEF D!Next, D!Acknowledge
    <2>7. CASE Log' \in D!Thinned(Log) /\ acked' = Log'
        BY <2>1, <2>7 DEF D!Next, D!Thin
    <2>8. CASE (\E s \in Stores : store[s].pc = "replace") /\ Log' \in Seq(Values) /\ acked' = Log'
        BY <2>1, <2>8 DEF D!Next, D!Replace
    <2> QED
        BY <2>2, <2>3, <2>4, <2>5, <2>6, <2>7, <2>8 DEF LogStep
<1> QED
    BY <1>2, <1>3

\* As long as none of Harms has happened the journal implements the durable log it
\* is specified by: torn and lost writes, crashes, power failures, replacement,
\* repair and compaction are writes, losses of what was not acknowledged,
\* acknowledgements, replacements the owner asked for and thinnings.
THEOREM JournalImplementsLog == Spec => Implements
<1>1. Inv /\ [Next]_vars => [D!Next]_(D!vars)
    BY StepIsLog
<1> QED
    BY <1>1, InitIsLog, JournalInvariant, PTL DEF Spec, Implements, D!Spec
=============================================================================
