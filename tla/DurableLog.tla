----------------------------- MODULE DurableLog -----------------------------
(***************************************************************************)
(* What a journal promises to the code that appends to it, whatever the    *)
(* file system and the death of processes do: a record whose append has    *)
(* returned is there at every later opening; only the replacement of the   *)
(* journal that its owner asks for and the thinning by an operator remove  *)
(* it, and only the former brings records that were not appended.          *)
(* JournalStore implements this.                                           *)
(***************************************************************************)
EXTENDS Sequences, Naturals

CONSTANT Values

VARIABLES
    log,        \* the records an opening would find now
    acked,      \* the records whose append has returned
    replacing,  \* the owner has asked for its journal to be replaced
    sound       \* the promise stands

vars == <<log, acked, replacing, sound>>

Init ==
    /\ log = <<>> /\ acked = <<>> /\ replacing = FALSE /\ sound = TRUE

\* The owner asks, or does not want it any more.
Ask == UNCHANGED <<log, acked>>

\* A record reaches the journal before its append returns, or without that.
Write ==
    /\ \E v \in Values : log' = Append(log, v)
    /\ UNCHANGED acked

Acknowledge ==
    /\ acked' = log
    /\ UNCHANGED log

\* A crash takes records away that nobody was told are there.
Lose ==
    /\ \E k \in Len(acked) .. Len(log) : log' = SubSeq(log, 1, k)
    /\ UNCHANGED acked

\* What is left of vs when some of its members are dropped.
Thinned(vs) ==
    UNION { { [i \in 1 .. n |-> vs[at[i]]] :
                at \in { at \in [1 .. n -> 1 .. Len(vs)] :
                          \A i, j \in 1 .. n : i < j => at[i] < at[j] } } :
            n \in 0 .. Len(vs) }

\* The operator keeps some of the records.
Thin ==
    /\ log' \in Thinned(log)
    /\ acked' = log'

\* The owner has the records it asked for.
Replace ==
    /\ replacing
    /\ log' \in Seq(Values)
    /\ acked' = log'

\* While the promise stands; once it is broken nothing is promised.
Keep == sound /\ sound' /\ replacing' \in BOOLEAN
Break == ~sound'

Next == (Keep /\ (Ask \/ Write \/ Acknowledge \/ Lose \/ Thin \/ Replace)) \/ Break

Spec == Init /\ [][Next]_vars
=============================================================================
