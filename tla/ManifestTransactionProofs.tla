--------------------- MODULE ManifestTransactionProofs ---------------------
(***************************************************************************)
(* Proofs about ManifestTransaction, for all sets of operations and        *)
(* documents, every window of receipts and any number of edits and crashes.*)
(***************************************************************************)
EXTENDS ManifestTransaction, TLAPS

\* An operation has one receipt, and only one is prepared.
Rows ==
    \A i, j \in DOMAIN receipts :
      \/ receipts[i].op = receipts[j].op
      \/ receipts[i].state = "prepared" /\ receipts[j].state = "prepared"
      => i = j

\* Where the owner of the lease is says which receipts there are: what others left
\* prepared is settled before it makes a receipt of its own.
Phases ==
    /\ pc = "idle" <=> lease = None
    /\ pc \in {"dispatch", "reserve", "read", "compare", "prepare"} => Prepared = {}
    /\ pc \in {"reserve", "read", "compare", "prepare"} => \A o \in Ops : o = lease => Receipt(o) = {}
    /\ pc \in {"publish", "unlink", "sync", "finish"} => Prepared = {lease}
    /\ catching => /\ pc \in {"reconcile", "settle", "dispatch"}
                   /\ pc = "dispatch" => \A o \in Ops : o = lease => Receipt(o) # {}
                   /\ pc # "dispatch" => Prepared = {lease}

\* The operation was published, or there was nothing to do.
Done(o) == applied[o] = 1 \/ want[o].before = want[o].after

\* Nothing is published before its turn, and what is past it is done.
Progress ==
    /\ pc = "publish" => applied[lease] = 0
    /\ pc \in {"prepare", "publish"} => raced \/ target = want[lease].before
    /\ pc = "prepare" => lease \in foreign \/ target = want[lease].before
    /\ pc \in {"unlink", "sync", "finish"} \/ sure => Done(lease)
    /\ sure => catching

\* An operation without a receipt was not published and nobody believes it was.
Unknown ==
    \A o \in Ops : Receipt(o) = {} => applied[o] = 0 /\ told[o] # "saved" /\ o \notin disowned

\* The file tells what became of a prepared operation, unless it was edited.
Telling ==
    \A o \in Prepared \ foreign :
      target = IF applied[o] = 0 THEN want[o].before ELSE want[o].after

Once == \A o \in Ops : applied[o] \in {0, 1}

Inv == TypeOK /\ Rows /\ Phases /\ Progress /\ Unknown /\ Telling /\ Once /\ AnswersHonest

----------------------------------------------------------------------------
(* What the changes of the receipts do. *)

\* The rows of the table.
Row == [op : Ops, state : States]

\* A row is its two fields.
LEMMA RowIs ==
    ASSUME NEW x \in Row, NEW o, NEW s
    PROVE  x = [op |-> o, state |-> s] <=> x.op = o /\ x.state = s
BY DEF Row

\* Every member of a sequence of rows is a row.
LEMMA RowsTyped ==
    ASSUME NEW rs \in Seq(Row)
    PROVE  /\ Len(rs) \in Nat /\ DOMAIN rs = 1 .. Len(rs)
           /\ \A i \in DOMAIN rs : rs[i] \in Row /\ rs[i].op \in Ops /\ rs[i].state \in States
<1>1. Len(rs) \in Nat /\ DOMAIN rs = 1 .. Len(rs) /\ \A i \in DOMAIN rs : rs[i] \in Row
    OBVIOUS
<1>2. \A x \in Row : x.op \in Ops /\ x.state \in States
    BY DEF Row
<1> QED
    BY <1>1, <1>2

\* The receipts are rows.
LEMMA ReceiptsTyped ==
    ASSUME TypeOK
    PROVE  receipts \in Seq(Row)
BY DEF TypeOK, Row

\* A prepared operation is one whose receipt says so.
LEMMA PreparedReceipt ==
    ASSUME TypeOK, NEW o \in Ops
    PROVE  o \in Prepared <=> "prepared" \in Receipt(o)
<1>1. \A i \in DOMAIN receipts :
        receipts[i] = [op |-> o, state |-> "prepared"]
          <=> receipts[i].op = o /\ receipts[i].state = "prepared"
    BY ReceiptsTyped, RowsTyped, RowIs
<1> QED
    BY <1>1 DEF Prepared, Receipt

\* An operation has at most one receipt.
LEMMA OneReceipt ==
    ASSUME Rows, NEW o \in Ops, NEW s \in Receipt(o)
    PROVE  Receipt(o) = {s}
BY DEF Rows, Receipt

\* A prepared operation is prepared and nothing else, and it alone.
LEMMA OnePrepared ==
    ASSUME TypeOK, Rows, NEW o \in Prepared
    PROVE  Prepared = {o} /\ Receipt(o) = {"prepared"}
<1>1. o \in Ops /\ Receipt(o) = {"prepared"}
    BY PreparedReceipt, OneReceipt DEF Prepared
<1>2. \A q \in Prepared : q = o
    <2>1. PICK i \in DOMAIN receipts : receipts[i] = [op |-> o, state |-> "prepared"]
        BY DEF Prepared
    <2>2. TAKE q \in Prepared
    <2>3. PICK j \in DOMAIN receipts : receipts[j] = [op |-> q, state |-> "prepared"]
        BY DEF Prepared
    <2>4. i = j
        BY <2>1, <2>3 DEF Rows
    <2> QED
        BY <2>1, <2>3, <2>4
<1> QED
    BY <1>1, <1>2

\* Without a prepared operation no receipt is prepared.
LEMMA NonePrepared ==
    ASSUME TypeOK, Prepared = {}, NEW i \in DOMAIN receipts
    PROVE  receipts[i].state # "prepared"
<1>1. receipts[i] \in Row /\ receipts[i].op \in Ops
    BY ReceiptsTyped, RowsTyped
<1>2. SUFFICES ASSUME receipts[i].state = "prepared" PROVE FALSE
    OBVIOUS
<1>3. receipts[i] = [op |-> receipts[i].op, state |-> "prepared"]
    BY <1>1, <1>2, RowIs
<1> QED
    BY <1>1, <1>3 DEF Prepared

\* The receipt of an operation is settled.
LEMMA StateChanges ==
    ASSUME TypeOK, Rows, NEW o \in Prepared, NEW s \in {"saved", "unpublished"},
           receipts' = WithState(o, s)
    PROVE  /\ Rows' /\ Prepared' = {} /\ Receipt(o)' = {s}
           /\ \A q \in Ops \ {o} : Receipt(q)' = Receipt(q)
           /\ receipts' \in Seq(Row) /\ Len(receipts') = Len(receipts)
<1>1. o \in Ops
    BY DEF Prepared
<1>2. /\ DOMAIN receipts' = DOMAIN receipts
      /\ \A i \in DOMAIN receipts :
           /\ receipts[i].op = o => receipts'[i] = [op |-> o, state |-> s]
           /\ receipts[i].op # o => receipts'[i] = receipts[i]
    BY DEF WithState
<1>3. receipts' \in Seq(Row) /\ Len(receipts') = Len(receipts)
    <2>1. [op |-> o, state |-> s] \in Row
        BY <1>1 DEF Row, States
    <2>2. \A i \in 1 .. Len(receipts) : receipts'[i] \in Row
        BY <1>2, <2>1, ReceiptsTyped, RowsTyped
    <2>3. receipts' = [i \in 1 .. Len(receipts) |-> receipts'[i]] /\ Len(receipts) \in Nat
        BY ReceiptsTyped, RowsTyped DEF WithState
    <2> QED
        BY <2>2, <2>3
<1>4. \A i \in DOMAIN receipts : receipts'[i].op = receipts[i].op
    BY <1>2
<1>5. PICK k \in DOMAIN receipts : receipts[k] = [op |-> o, state |-> "prepared"]
    BY DEF Prepared
<1>6. \A i \in DOMAIN receipts : receipts'[i].state # "prepared"
    <2>1. ASSUME NEW i \in DOMAIN receipts, receipts'[i].state = "prepared"
          PROVE  FALSE
        <3>1. receipts[i].op # o /\ receipts[i].state = "prepared"
            BY <1>2, <2>1
        <3>2. i = k
            BY <1>5, <3>1 DEF Rows
        <3> QED
            BY <1>5, <3>1, <3>2
    <2> QED
        BY <2>1
<1>7. Rows'
    BY <1>2, <1>4, <1>6 DEF Rows
<1>8. Prepared' = {}
    BY <1>2, <1>6 DEF Prepared
<1>9. Receipt(o)' = {s}
    BY <1>1, <1>2, <1>4, <1>5 DEF Receipt
<1>10. ASSUME NEW q \in Ops \ {o}
       PROVE  Receipt(q)' = Receipt(q)
    BY <1>2, <1>4 DEF Receipt
<1> QED
    BY <1>3, <1>7, <1>8, <1>9, <1>10

\* A receipt is inserted.
LEMMA Inserted ==
    ASSUME TypeOK, Rows, Prepared = {}, NEW o \in Ops, Receipt(o) = {},
           receipts' = Append(receipts, [op |-> o, state |-> "prepared"])
    PROVE  /\ Rows' /\ Prepared' = {o} /\ Receipt(o)' = {"prepared"}
           /\ \A q \in Ops \ {o} : Receipt(q)' = Receipt(q)
           /\ receipts' \in Seq(Row) /\ Len(receipts') = Len(receipts) + 1
<1> DEFINE row == [op |-> o, state |-> "prepared"]
           n == Len(receipts)
<1>1. /\ receipts \in Seq(Row) /\ n \in Nat
      /\ row \in Row /\ row.op = o /\ row.state = "prepared"
    BY ReceiptsTyped, RowsTyped DEF Row, States
<1>2. /\ DOMAIN receipts = 1 .. n /\ DOMAIN receipts' = 1 .. n + 1
      /\ \A i \in 1 .. n : receipts'[i] = receipts[i]
      /\ receipts'[n + 1] = row
      /\ receipts' \in Seq(Row) /\ Len(receipts') = n + 1
    BY <1>1
<1>3. \A i \in 1 .. n : receipts[i].op # o /\ receipts[i].state # "prepared"
    <2>1. \A i \in 1 .. n : receipts[i].op # o
        BY <1>2 DEF Receipt
    <2> QED
        BY <1>2, <2>1, NonePrepared
<1> HIDE DEF row, n
<1>4. \A i \in 1 .. n + 1 : i \in 1 .. n \/ i = n + 1
    BY <1>1
<1>5. Rows'
    BY <1>1, <1>2, <1>3, <1>4 DEF Rows
<1>6. Receipt(o)' = {"prepared"}
    BY <1>1, <1>2, <1>3, <1>4 DEF Receipt
<1>7. ASSUME NEW q \in Ops \ {o}
      PROVE  Receipt(q)' = Receipt(q)
    BY <1>1, <1>2, <1>4 DEF Receipt
<1>8. Prepared' = {o}
    <2>1. ASSUME NEW q \in Prepared'
          PROVE  q = o
        <3>1. PICK i \in 1 .. n + 1 : receipts'[i] = [op |-> q, state |-> "prepared"]
            BY <1>2, <2>1 DEF Prepared
        <3>2. receipts'[i].op = q /\ receipts'[i].state = "prepared"
            BY <1>2, <3>1, RowsTyped, RowIs
        <3> QED
            BY <1>1, <1>2, <1>3, <1>4, <3>1, <3>2
    <2>2. n + 1 \in 1 .. n + 1
        BY <1>1
    <2>3. o \in Prepared'
        BY <1>2, <2>2 DEF Prepared, row
    <2> QED
        BY <2>1, <2>3
<1> QED
    BY <1>2, <1>5, <1>6, <1>7, <1>8 DEF n

\* The oldest receipt is removed.
LEMMA Evicted ==
    ASSUME TypeOK, Rows, Prepared = {}, Len(receipts) # 0, receipts' = Tail(receipts),
           NEW o, o = Head(receipts).op
    PROVE  /\ Rows' /\ Prepared' = {} /\ o \in Ops
           /\ Receipt(o) # {} /\ Receipt(o)' = {}
           /\ \A q \in Ops \ {o} : Receipt(q)' = Receipt(q)
           /\ receipts' \in Seq(Row) /\ Len(receipts') < Len(receipts)
<1> DEFINE n == Len(receipts)
<1>1. receipts \in Seq(Row) /\ n \in Nat \ {0}
    BY ReceiptsTyped, RowsTyped
<1>2. /\ DOMAIN receipts = 1 .. n /\ DOMAIN receipts' = 1 .. n - 1
      /\ \A i \in 1 .. n - 1 : receipts'[i] = receipts[i + 1]
      /\ receipts' \in Seq(Row) /\ Len(receipts') = n - 1
      /\ Head(receipts) = receipts[1]
    BY <1>1
<1>3. \A i \in 1 .. n : receipts[i] \in Row /\ receipts[i].op \in Ops
    BY <1>1, <1>2, RowsTyped
<1>4. o = receipts[1].op /\ o \in Ops /\ 1 \in 1 .. n /\ \A i \in 1 .. n - 1 : i + 1 \in 1 .. n
    BY <1>1, <1>2, <1>3
<1>5. \A i \in 1 .. n : receipts[i].state # "prepared"
    BY <1>2, NonePrepared
<1>6. \A i \in 1 .. n - 1 : receipts'[i].op # o
    BY <1>1, <1>2, <1>4 DEF Rows
<1>7. Rows'
    <2>1. ASSUME NEW i \in 1 .. n - 1, NEW j \in 1 .. n - 1, receipts'[i].op = receipts'[j].op
          PROVE  i = j
        <3>1. i + 1 = j + 1
            BY <1>2, <1>4, <2>1 DEF Rows
        <3> QED
            BY <1>1, <3>1
    <2>2. \A i \in 1 .. n - 1 : receipts'[i].state # "prepared"
        BY <1>2, <1>4, <1>5
    <2> QED
        BY <1>2, <2>1, <2>2 DEF Rows
<1>8. Prepared' = {}
    <2>1. \A i \in 1 .. n - 1 : receipts'[i].state # "prepared"
        BY <1>2, <1>4, <1>5
    <2> QED
        BY <1>2, <2>1 DEF Prepared
<1>9. Receipt(o) # {} /\ Receipt(o)' = {}
    <2>1. Receipt(o) # {}
        BY <1>2, <1>4 DEF Receipt
    <2>2. Receipt(o)' = {}
        BY <1>2, <1>6 DEF Receipt
    <2> QED
        BY <2>1, <2>2
<1>10. ASSUME NEW q \in Ops \ {o}
       PROVE  Receipt(q)' = Receipt(q)
    <2>1. \A i \in 1 .. n : receipts[i].op = q => i - 1 \in 1 .. n - 1 /\ receipts'[i - 1] = receipts[i]
        <3>1. TAKE i \in 1 .. n
        <3>2. HAVE receipts[i].op = q
        <3>3. i # 1
            BY <1>4, <3>2
        <3>4. i - 1 \in 1 .. n - 1 /\ (i - 1) + 1 = i
            BY <1>1, <3>3
        <3> QED
            BY <1>2, <3>4
    <2>2. ASSUME NEW s \in Receipt(q)
          PROVE  s \in Receipt(q)'
        <3>1. PICK i \in 1 .. n : receipts[i].op = q /\ receipts[i].state = s
            BY <1>2 DEF Receipt
        <3>2. i - 1 \in 1 .. n - 1 /\ receipts'[i - 1] = receipts[i]
            BY <2>1, <3>1
        <3> QED
            BY <1>2, <3>1, <3>2 DEF Receipt
    <2>3. \A s : s \in Receipt(q)' => s \in Receipt(q)
        BY <1>2, <1>4 DEF Receipt
    <2> QED
        BY <2>2, <2>3
<1> QED
    BY <1>1, <1>2, <1>4, <1>7, <1>8, <1>9, <1>10

\* Nothing is changed.
LEMMA Kept ==
    ASSUME UNCHANGED receipts
    PROVE  /\ Prepared' = Prepared /\ \A q \in Ops : Receipt(q)' = Receipt(q)
           /\ Rows => Rows'
BY DEF Prepared, Receipt, Rows

----------------------------------------------------------------------------
(* Every action keeps the invariant. *)

USE NameAssumption, BoundAssumption

\* Who is at work has the lease.
LEMMA Owner ==
    ASSUME Inv, pc # "idle"
    PROVE  lease \in Ops
BY DEF Inv, TypeOK, Phases

\* An answer that is right ends a lease in good order.
LEMMA AnswerInv ==
    ASSUME Inv, NEW o \in Ops, o = lease, NEW s \in {"none", "unknown"} \cup States, Answer(s),
           linked' \in BOOLEAN,
           UNCHANGED <<want, target, receipts, applied, foreign, raced, edits, crashes>>,
           s = "saved" /\ o \notin foreign => Done(o),
           s = "unpublished" /\ Published => o \in foreign,
           Receipt(o) = {} => s # "saved"
    PROVE  Inv'
<1> USE DEF Inv, Answer
<1>a. Receipt(o) = {} => ~Published
    BY DEF Unknown, Published
<1>b. /\ disowned' \subseteq disowned \cup {o} /\ disowned \subseteq disowned'
      /\ o \in disowned' => o \in disowned \/ (s = "unpublished" /\ Published)
    OBVIOUS
<1>0. Prepared' = Prepared /\ (\A q \in Ops : Receipt(q)' = Receipt(q)) /\ Rows'
    BY Kept
<1>1. told' = [told EXCEPT ![o] = s] /\ told \in [Ops -> {"none", "unknown"} \cup States]
    BY DEF TypeOK
<1>2. told'[o] = s /\ \A q \in Ops \ {o} : told'[q] = told[q]
    BY <1>1
<1>3. TypeOK'
    <2>1. told' \in [Ops -> {"none", "unknown"} \cup States]
        BY <1>1
    <2>2. /\ lease' \in Ops \cup {None} /\ asks' \in BOOLEAN /\ catching' \in BOOLEAN
          /\ sure' \in BOOLEAN /\ disowned' \subseteq Ops
        BY <1>b DEF TypeOK
    <2> QED
        BY <2>1, <2>2 DEF TypeOK
<1>4. Phases'
    BY DEF Phases
<1>5. Progress'
    BY DEF Progress
<1>6. Unknown'
    BY <1>0, <1>2, <1>a, <1>b DEF Unknown
<1>7. Telling'
    BY <1>0 DEF Telling
<1>8. Once'
    BY DEF Once
<1>9. AnswersHonest'
    BY <1>0, <1>2, <1>b DEF AnswersHonest, Done
<1> QED
    BY <1>0, <1>3, <1>4, <1>5, <1>6, <1>7, <1>8, <1>9

\* A lease begins: nothing is known of its operation.
LEMMA AcquireInv ==
    ASSUME Inv, NEW o \in Ops, NEW reads \in BOOLEAN, Acquire(o, reads)
    PROVE  Inv'
<1> USE DEF Inv, Acquire, files, history
<1>0. Prepared' = Prepared /\ (\A q \in Ops : Receipt(q)' = Receipt(q)) /\ Rows'
    BY Kept
<1>1. TypeOK'
    BY DEF TypeOK
<1>2. Phases'
    BY <1>0 DEF Phases, TypeOK
<1>3. Progress'
    BY DEF Progress, Phases
<1>4. Unknown'
    BY <1>0 DEF Unknown, TypeOK
<1>5. Telling'
    BY <1>0 DEF Telling
<1>6. Once'
    BY DEF Once
<1>7. AnswersHonest'
    BY <1>0 DEF AnswersHonest, TypeOK
<1> QED
    BY <1>0, <1>1, <1>2, <1>3, <1>4, <1>5, <1>6, <1>7

\* A lease that is not had changes nothing but what a caller was told.
LEMMA AcquireFailInv ==
    ASSUME Inv, NEW o \in Ops, AcquireFail(o)
    PROVE  Inv'
<1> USE DEF Inv, AcquireFail, files, history
<1>0. Prepared' = Prepared /\ (\A q \in Ops : Receipt(q)' = Receipt(q)) /\ Rows'
    BY Kept
<1>1. PICK s \in {"none", "unpublished"} : told' = [told EXCEPT ![o] = s]
    OBVIOUS
<1>2. told'[o] # "saved" /\ \A q \in Ops \ {o} : told'[q] = told[q]
    BY <1>1 DEF TypeOK
<1>3. TypeOK'
    <2>1. told' \in [Ops -> {"none", "unknown"} \cup States]
        BY <1>1 DEF TypeOK, States
    <2> QED
        BY <2>1 DEF TypeOK
<1>4. Phases'
    BY <1>0 DEF Phases
<1>5. Progress'
    BY DEF Progress, Done
<1>6. Unknown'
    BY <1>0, <1>2 DEF Unknown
<1>7. Telling'
    BY <1>0 DEF Telling
<1>8. Once'
    BY DEF Once
<1>9. AnswersHonest'
    BY <1>0, <1>2 DEF AnswersHonest
<1> QED
    BY <1>0, <1>3, <1>4, <1>5, <1>6, <1>7, <1>8, <1>9

\* What a caller is told when reconciling throws is right.
LEMMA FaultInv ==
    ASSUME Inv, pc \in {"reconcile", "settle"}, Fault \/ Ambiguous,
           UNCHANGED <<want, target, receipts, applied, foreign, raced, edits, crashes>>
    PROVE  Inv'
<1>1. PICK o \in Ops : o = lease
    BY Owner
<1>2. PICK s \in {"none", "unpublished", "unknown"} : Answer(Learned(s)) /\ Cleanup
    BY DEF Fault, Ambiguous
<1>3. Learned(s) \in {"none", "unknown"} \cup States
    BY DEF Learned, States
<1>4. linked' \in BOOLEAN
    BY <1>2 DEF Cleanup, Inv, TypeOK
<1>5. Learned(s) = "saved" => Done(o)
    BY <1>1 DEF Learned, Inv, Progress
<1>6. Learned(s) = "unpublished" => ~Published
    BY DEF Learned, Published
<1>7. Receipt(o) = {} => Learned(s) # "saved"
    <2>1. catching => Prepared = {o}
        BY <1>1 DEF Inv, Phases
    <2>2. catching => Receipt(o) = {"prepared"}
        BY <2>1, OnePrepared DEF Inv
    <2> QED
        BY <2>2 DEF Learned
<1> QED
    BY <1>1, <1>2, <1>3, <1>4, <1>5, <1>6, <1>7, AnswerInv

\* An attempt that ends outside the catch before its publication is not disowned.
LEMMA RefusedInv ==
    ASSUME Inv, pc \in {"dispatch", "reserve", "read", "compare", "prepare"}, ~catching, Refused,
           UNCHANGED <<want, target, linked, receipts, applied, foreign, raced, edits, crashes>>
    PROVE  Inv'
<1>1. PICK o \in Ops : o = lease
    BY Owner
<1>2. PICK s \in {"none", "unpublished"} : Answer(s)
    BY DEF Refused
<1>3. s \in {"none", "unknown"} \cup States /\ ~Published /\ linked' \in BOOLEAN
    BY DEF States, Published, Inv, TypeOK
<1> QED
    BY <1>1, <1>2, <1>3, AnswerInv

\* The second link of a crashed owner is removed, or reconciling throws.
LEMMA RecoverLinkInv ==
    ASSUME Inv, RecoverLink
    PROVE  Inv'
<1>1. CASE Fault \/ Ambiguous
    BY <1>1, FaultInv DEF RecoverLink, history
<1>2. CASE /\ \/ Prepared = {} /\ pc' = "dispatch"
              \/ Prepared # {} /\ pc' = "settle"
           /\ UNCHANGED <<lease, asks, catching, sure, told, disowned, receipts>> /\ linked' \in {linked, FALSE}
    <2> USE <1>2 DEF Inv, RecoverLink, history
    <2>0. Prepared' = Prepared /\ (\A q \in Ops : Receipt(q)' = Receipt(q)) /\ Rows'
        BY Kept
    <2>1. TypeOK'
        BY DEF TypeOK
    <2>2. Phases'
        BY <2>0 DEF Phases
    <2>3. Progress'
        BY DEF Progress, Done
    <2>4. Unknown'
        BY <2>0 DEF Unknown
    <2>5. Telling'
        BY <2>0 DEF Telling
    <2>6. Once'
        BY DEF Once
    <2>7. AnswersHonest'
        BY <2>0 DEF AnswersHonest
    <2> QED
        BY <2>0, <2>1, <2>2, <2>3, <2>4, <2>5, <2>6, <2>7
<1> QED
    BY <1>1, <1>2 DEF RecoverLink, Step, OwnLink

\* The prepared receipt is settled by what the file tells.
LEMMA SettleReceiptInv ==
    ASSUME Inv, SettleReceipt
    PROVE  Inv'
<1>1. CASE (Fault \/ Ambiguous) /\ UNCHANGED receipts
    BY <1>1, FaultInv DEF SettleReceipt, history
<1>2. ASSUME NEW o \in Prepared, target \in {want[o].before, want[o].after},
             receipts' = WithState(o, IF target = want[o].after THEN "saved" ELSE "unpublished"),
             Step("dispatch"), UNCHANGED linked
      PROVE  Inv'
    <2> DEFINE s == IF target = want[o].after THEN "saved" ELSE "unpublished"
    <2> USE <1>2 DEF Inv, SettleReceipt, history, Step
    <2>1. o \in Ops /\ Prepared = {o} /\ Receipt(o) = {"prepared"}
        BY OnePrepared DEF Prepared
    <2>2. s \in {"saved", "unpublished"} /\ receipts' = WithState(o, s)
        OBVIOUS
    <2>3. s = "saved" /\ o \notin foreign => Done(o)
        BY <2>1 DEF Telling, Done, Once
    <2>4. s = "unpublished" /\ o \notin foreign => applied[o] = 0
        BY <2>1 DEF Telling, Once
    <2> HIDE DEF s
    <2>5. /\ Rows' /\ Prepared' = {} /\ Receipt(o)' = {s}
          /\ \A q \in Ops \ {o} : Receipt(q)' = Receipt(q)
          /\ receipts' \in Seq(Row) /\ Len(receipts') = Len(receipts)
        BY <2>2, StateChanges
    <2>6. TypeOK'
        BY <2>5 DEF TypeOK, Row
    <2>7. Phases'
        BY <2>1, <2>5 DEF Phases
    <2>8. Progress'
        BY DEF Progress, Done
    <2>9. Unknown'
        BY <2>5 DEF Unknown
    <2>10. Telling'
        BY <2>5 DEF Telling
    <2>11. Once'
        BY DEF Once
    <2>12. AnswersHonest'
        BY <2>1, <2>2, <2>3, <2>4, <2>5 DEF AnswersHonest, Done
    <2> QED
        BY <2>5, <2>6, <2>7, <2>8, <2>9, <2>10, <2>11, <2>12
<1> QED
    BY <1>1, <1>2 DEF SettleReceipt

\* A step that only moves on keeps everything but where it is.
LEMMA StepInv ==
    ASSUME Inv, NEW to, Step(to), linked' \in BOOLEAN,
           UNCHANGED <<want, target, receipts, applied, foreign, raced, edits, crashes>>
    PROVE  /\ Prepared' = Prepared /\ (\A q \in Ops : Receipt(q)' = Receipt(q))
           /\ Rows' /\ Unknown' /\ Telling' /\ Once' /\ AnswersHonest'
<1> USE DEF Inv, Step
<1>1. Prepared' = Prepared /\ (\A q \in Ops : Receipt(q)' = Receipt(q)) /\ Rows'
    BY Kept
<1>2. Unknown'
    BY <1>1 DEF Unknown
<1>3. Telling'
    BY <1>1 DEF Telling
<1>4. Once'
    BY DEF Once
<1>5. AnswersHonest'
    BY <1>1 DEF AnswersHonest
<1> QED
    BY <1>1, <1>2, <1>3, <1>4, <1>5

\* A receipt that is there is the answer.
LEMMA DispatchInv ==
    ASSUME Inv, Dispatch
    PROVE  Inv'
<1> USE DEF Dispatch, files, history
<1>0. PICK o \in Ops : o = lease
    BY Owner
<1>a. linked' \in BOOLEAN
    BY DEF Inv, TypeOK
<1>1. ASSUME NEW s \in Receipt(o), Answer(s)
      PROVE  Inv'
    <2>1. s \in {"none", "unknown"} \cup States
        BY ReceiptsTyped, RowsTyped DEF Inv, Receipt
    <2>2. o \notin foreign => /\ s = "saved" => Done(o)
                              /\ s = "unpublished" => applied[o] = 0
        BY DEF Inv, AnswersHonest, Done
    <2>3. s = "unpublished" /\ Published => o \in foreign
        BY <1>0, <2>2 DEF Published
    <2> QED
        BY <1>0, <1>1, <1>a, <2>1, <2>2, <2>3, AnswerInv
<1>2. CASE Answer("none")
    BY <1>0, <1>2, <1>a, AnswerInv
<1>4. CASE ~catching /\ Refused
    BY <1>4, RefusedInv
<1>3. CASE Receipt(o) = {} /\ Step("reserve")
    <2> USE <1>0, <1>3
    <2>1. /\ Prepared' = Prepared /\ (\A q \in Ops : Receipt(q)' = Receipt(q))
          /\ Rows' /\ Unknown' /\ Telling' /\ Once' /\ AnswersHonest'
        BY <1>a, StepInv
    <2>2. TypeOK'
        BY DEF Inv, TypeOK, Step
    <2>3. Phases'
        BY <2>1 DEF Inv, Phases, Step
    <2>4. Progress'
        BY DEF Inv, Progress, Done, Step
    <2> QED
        BY <2>1, <2>2, <2>3, <2>4 DEF Inv
<1> QED
    BY <1>0, <1>1, <1>2, <1>3, <1>4

\* The oldest receipt makes room.
LEMMA ReserveInv ==
    ASSUME Inv, Reserve
    PROVE  Inv'
<1>0. PICK o \in Ops : o = lease
    BY Owner DEF Reserve
<1>a. linked' \in BOOLEAN /\ Prepared = {} /\ Receipt(o) = {}
    BY <1>0 DEF Reserve, Inv, TypeOK, Phases
<1>1. CASE Refused /\ UNCHANGED <<receipts, applied, foreign>>
    BY <1>1, RefusedInv DEF Reserve, Inv, Phases
<1>2. CASE Step("read") /\ UNCHANGED <<receipts, applied, foreign>>
    <2> USE <1>0, <1>2 DEF Reserve
    <2>1. /\ Prepared' = Prepared /\ (\A q \in Ops : Receipt(q)' = Receipt(q))
          /\ Rows' /\ Unknown' /\ Telling' /\ Once' /\ AnswersHonest'
        BY <1>a, StepInv
    <2>2. TypeOK'
        BY DEF Inv, TypeOK, Step
    <2>3. Phases'
        BY <2>1 DEF Inv, Phases, Step
    <2>4. Progress'
        BY DEF Inv, Progress, Done, Step
    <2> QED
        BY <2>1, <2>2, <2>3, <2>4 DEF Inv
<1>3. ASSUME NEW h, h = Head(receipts).op, Len(receipts) = Window, receipts' = Tail(receipts),
             applied' = [applied EXCEPT ![h] = 0], foreign' = foreign \ {h},
             told' = [told EXCEPT ![h] = "none"], disowned' = disowned \ {h}, pc' = "read",
             UNCHANGED <<lease, asks, catching, sure>>
      PROVE  Inv'
    <2> USE <1>0, <1>3 DEF Reserve, Inv
    <2>1. /\ Rows' /\ Prepared' = {} /\ h \in Ops /\ Receipt(h) # {} /\ Receipt(h)' = {}
          /\ \A q \in Ops \ {h} : Receipt(q)' = Receipt(q)
          /\ receipts' \in Seq(Row) /\ Len(receipts') < Len(receipts)
        BY <1>a, Evicted
    <2>2. /\ applied'[h] = 0 /\ told'[h] = "none"
          /\ \A q \in Ops \ {h} : applied'[q] = applied[q] /\ told'[q] = told[q]
        BY <2>1 DEF TypeOK
    <2>3. h # o
        BY <1>a, <2>1
    <2>4. TypeOK'
        <3>1. /\ receipts' \in Seq([op : Ops, state : States]) /\ Len(receipts') <= Window
            BY <2>1, RowsTyped DEF Row
        <3>2. /\ told' \in [Ops -> {"none", "unknown"} \cup States]
              /\ applied' \in [Ops -> Nat] /\ foreign' \subseteq Ops /\ disowned' \subseteq Ops
            BY <2>1 DEF TypeOK
        <3> QED
            BY <3>1, <3>2 DEF TypeOK
    <2>5. Phases'
        BY <1>a, <2>1, <2>2, <2>3 DEF Phases
    <2>6. Progress'
        BY <2>2, <2>3 DEF Progress, Done, Phases
    <2>7. Unknown'
        BY <2>1, <2>2 DEF Unknown
    <2>8. Telling'
        BY <2>1 DEF Telling
    <2>9. Once'
        BY <2>2 DEF Once
    <2>10. AnswersHonest'
        BY <2>1, <2>2 DEF AnswersHonest
    <2> QED
        BY <2>1, <2>4, <2>5, <2>6, <2>7, <2>8, <2>9, <2>10
<1> QED
    BY <1>1, <1>2, <1>3 DEF Reserve

\* The file is compared and the new document staged.
LEMMA StageInv ==
    ASSUME Inv, Stage
    PROVE  Inv'
<1> USE DEF Stage, files, history
<1>0. PICK o \in Ops : o = lease
    BY Owner
<1>a. linked' \in BOOLEAN /\ Receipt(o) = {} /\ applied[o] = 0
    BY <1>0 DEF Inv, TypeOK, Phases, Unknown
<1>1. CASE Refused
    BY <1>1, RefusedInv DEF Inv, Phases
<1>2. CASE Step("compare")
    <2> USE <1>0, <1>2
    <2>1. /\ Prepared' = Prepared /\ (\A q \in Ops : Receipt(q)' = Receipt(q))
          /\ Rows' /\ Unknown' /\ Telling' /\ Once' /\ AnswersHonest'
        BY <1>a, StepInv
    <2>2. TypeOK'
        BY DEF Inv, TypeOK, Step
    <2>3. Phases'
        BY <2>1 DEF Inv, Phases, Step
    <2>4. Progress'
        BY DEF Inv, Progress, Done, Step
    <2> QED
        BY <2>1, <2>2, <2>3, <2>4 DEF Inv
<1> QED
    BY <1>1, <1>2

\* The file is compared once more.
LEMMA CompareInv ==
    ASSUME Inv, Compare
    PROVE  Inv'
<1>0. PICK o \in Ops : o = lease
    BY Owner DEF Compare
<1>1. CASE Refused /\ UNCHANGED <<raced, foreign>>
    BY <1>1, RefusedInv DEF Compare, Inv, Phases, files
<1>2. CASE Expected /\ raced' = FALSE /\ foreign' = foreign \ {lease} /\ Step("prepare")
    <2> USE <1>0, <1>2 DEF Compare, Inv, Step, files
    <2>0. Prepared' = Prepared /\ (\A q \in Ops : Receipt(q)' = Receipt(q)) /\ Rows'
        BY Kept
    <2>1. Receipt(o) = {} /\ Prepared = {}
        BY DEF Phases
    <2>2. TypeOK'
        BY DEF TypeOK
    <2>3. Phases'
        BY <2>0 DEF Phases
    <2>4. Progress'
        BY DEF Progress, Expected, Done
    <2>5. Unknown'
        BY <2>0 DEF Unknown
    <2>6. Telling'
        BY <2>0, <2>1 DEF Telling
    <2>7. Once'
        BY DEF Once
    <2>8. AnswersHonest'
        BY <2>0, <2>1 DEF AnswersHonest, Unknown
    <2> QED
        BY <2>0, <2>2, <2>3, <2>4, <2>5, <2>6, <2>7, <2>8
<1> QED
    BY <1>1, <1>2 DEF Compare

\* The receipt is inserted.
LEMMA PrepareInv ==
    ASSUME Inv, Prepare
    PROVE  Inv'
<1>0. PICK o \in Ops : o = lease
    BY Owner DEF Prepare
<1>a. linked' \in BOOLEAN /\ Receipt(o) = {} /\ Prepared = {} /\ applied[o] = 0
    BY <1>0 DEF Prepare, Inv, TypeOK, Phases, Unknown
<1>1. CASE Refused /\ UNCHANGED receipts
    BY <1>1, RefusedInv DEF Prepare, Inv, Phases, history
<1>2. CASE /\ Len(receipts) < Window
           /\ receipts' = Append(receipts, [op |-> lease, state |-> "prepared"])
           /\ Step("publish")
    <2> USE <1>0, <1>2 DEF Prepare, Inv, Step, history
    <2>1. /\ Rows' /\ Prepared' = {o} /\ Receipt(o)' = {"prepared"}
          /\ \A q \in Ops \ {o} : Receipt(q)' = Receipt(q)
          /\ receipts' \in Seq(Row) /\ Len(receipts') = Len(receipts) + 1
        BY <1>a, Inserted
    <2>2. TypeOK'
        <3>1. receipts' \in Seq([op : Ops, state : States]) /\ Len(receipts') <= Window
            BY <2>1, ReceiptsTyped, RowsTyped DEF Row
        <3> QED
            BY <3>1 DEF TypeOK
    <2>3. Phases'
        BY <2>1 DEF Phases
    <2>4. Progress'
        BY <1>a DEF Progress, Done
    <2>5. Unknown'
        BY <2>1 DEF Unknown
    <2>6. Telling'
        BY <1>a, <2>1 DEF Telling, Progress
    <2>7. Once'
        BY DEF Once
    <2>8. AnswersHonest'
        BY <1>a, <2>1 DEF AnswersHonest, Unknown
    <2> QED
        BY <2>1, <2>2, <2>3, <2>4, <2>5, <2>6, <2>7, <2>8
<1> QED
    BY <1>1, <1>2 DEF Prepare

\* The catch of commit begins with what is known.
LEMMA CatchInv ==
    ASSUME Inv, NEW known \in BOOLEAN, Catch(known), pc \in {"publish", "unlink", "sync", "finish"},
           known => pc # "publish",
           UNCHANGED <<want, target, linked, receipts, applied, foreign, raced, edits, crashes>>
    PROVE  Inv'
<1> USE DEF Inv, Catch
<1>1. Prepared' = Prepared /\ (\A q \in Ops : Receipt(q)' = Receipt(q)) /\ Rows'
    BY Kept
<1>2. TypeOK'
    BY DEF TypeOK
<1>3. Phases'
    BY <1>1 DEF Phases
<1>4. Progress'
    BY DEF Progress, Done
<1>5. Unknown'
    BY <1>1 DEF Unknown
<1>6. Telling'
    BY <1>1 DEF Telling
<1>7. Once'
    BY DEF Once
<1>8. AnswersHonest'
    BY <1>1 DEF AnswersHonest
<1> QED
    BY <1>1, <1>2, <1>3, <1>4, <1>5, <1>6, <1>7, <1>8

\* A publication puts the revision of a prepared operation in place, once.
LEMMA PutInv ==
    ASSUME Inv, pc = "publish", NEW o \in Ops, o = lease, Put(want[o].after),
           NEW to \in {"unlink", "sync"}, Step(to), linked' \in BOOLEAN,
           UNCHANGED <<want, receipts, foreign, raced, edits, crashes>>
    PROVE  Inv'
<1> USE DEF Inv, Put, Step
<1>0. Prepared' = Prepared /\ (\A q \in Ops : Receipt(q)' = Receipt(q)) /\ Rows'
    BY Kept
<1>1. Prepared = {o} /\ Receipt(o) = {"prepared"} /\ applied[o] = 0
    <2>1. Prepared = {o}
        BY DEF Phases
    <2>2. Receipt(o) = {"prepared"}
        BY <2>1, OnePrepared
    <2> QED
        BY <2>1, <2>2 DEF Phases, Progress
<1>2. applied'[o] = 1 /\ \A q \in Ops \ {o} : applied'[q] = applied[q]
    BY <1>1 DEF TypeOK
<1>3. TypeOK'
    <2>1. target' \in Revisions
        BY DEF TypeOK
    <2>2. applied' \in [Ops -> Nat]
        BY <1>1 DEF TypeOK
    <2> QED
        BY <2>1, <2>2 DEF TypeOK
<1>4. Phases'
    BY <1>0, <1>1 DEF Phases
<1>5. Progress'
    BY <1>2 DEF Progress, Done, Phases
<1>6. Unknown'
    BY <1>0, <1>1, <1>2 DEF Unknown
<1>7. Telling'
    BY <1>0, <1>1, <1>2 DEF Telling
<1>8. Once'
    BY <1>2 DEF Once
<1>9. AnswersHonest'
    BY <1>0, <1>1, <1>2 DEF AnswersHonest
<1> QED
    BY <1>0, <1>3, <1>4, <1>5, <1>6, <1>7, <1>8, <1>9

\* publishManifest and removeManifest.
LEMMA PublishInv ==
    ASSUME Inv, Publish
    PROVE  Inv'
<1>0. PICK o \in Ops : o = lease
    BY Owner DEF Publish
<1>a. pc = "publish" /\ UNCHANGED <<want, receipts, foreign, raced, edits, crashes>> /\ linked \in BOOLEAN
    BY DEF Publish, Inv, TypeOK
<1>1. CASE Catch(FALSE) /\ UNCHANGED <<target, linked, applied>>
    BY <1>1, <1>a, CatchInv
<1>2. CASE Put(want[o].after) /\ linked' = TRUE /\ Step("unlink")
    BY <1>0, <1>2, <1>a, PutInv
<1>3. CASE Put(want[o].after) /\ linked' = FALSE /\ Step("sync")
    BY <1>0, <1>3, <1>a, PutInv
<1>4. CASE /\ want[o].before = Absent /\ want[o].after = Absent
           /\ Step("finish") /\ UNCHANGED <<target, linked, applied>>
    <2> USE <1>0, <1>4, <1>a
    <2>1. /\ Prepared' = Prepared /\ (\A q \in Ops : Receipt(q)' = Receipt(q))
          /\ Rows' /\ Unknown' /\ Telling' /\ Once' /\ AnswersHonest'
        BY StepInv
    <2>2. TypeOK'
        BY DEF Inv, TypeOK, Step
    <2>3. Phases'
        BY <2>1 DEF Inv, Phases, Step
    <2>4. Progress'
        BY DEF Inv, Progress, Done, Step
    <2> QED
        BY <2>1, <2>2, <2>3, <2>4 DEF Inv
<1> QED
    BY <1>0, <1>1, <1>2, <1>3, <1>4 DEF Publish

\* The staged link is removed, and the directory synced.
LEMMA UnlinkInv ==
    ASSUME Inv, Unlink \/ SyncDirectory
    PROVE  Inv'
<1>0. /\ pc \in {"unlink", "sync"} /\ linked' \in BOOLEAN
      /\ UNCHANGED <<want, target, receipts, applied, foreign, raced, edits, crashes>>
    BY DEF Unlink, SyncDirectory, files, history, Inv, TypeOK
<1>1. CASE Catch(TRUE) /\ UNCHANGED linked
    BY <1>0, <1>1, CatchInv
<1>2. CASE Step("sync") \/ Step("finish")
    <2>1. /\ Prepared' = Prepared /\ (\A q \in Ops : Receipt(q)' = Receipt(q))
          /\ Rows' /\ Unknown' /\ Telling' /\ Once' /\ AnswersHonest'
        BY <1>0, <1>2, StepInv
    <2>2. TypeOK'
        BY <1>0, <1>2 DEF Inv, TypeOK, Step
    <2>3. Phases'
        BY <1>0, <1>2, <2>1 DEF Inv, Phases, Step
    <2>4. Progress'
        BY <1>0, <1>2 DEF Inv, Progress, Done, Step
    <2> QED
        BY <2>1, <2>2, <2>3, <2>4 DEF Inv
<1> QED
    BY <1>1, <1>2 DEF Unlink, SyncDirectory, files

\* finishManifestReceipt: the receipt of a publication says saved.
LEMMA FinishInv ==
    ASSUME Inv, Finish
    PROVE  Inv'
<1>0. PICK o \in Ops : o = lease
    BY Owner DEF Finish
<1>1. CASE Catch(TRUE) /\ UNCHANGED receipts
    BY <1>1, CatchInv DEF Finish, history
<1>2. CASE receipts' = WithState(lease, "saved") /\ Answer("saved")
    <2> USE <1>0, <1>2 DEF Inv, Finish, Answer, history
    <2>1. Prepared = {o} /\ Done(o)
        BY DEF Phases, Progress
    <2>2. /\ Rows' /\ Prepared' = {} /\ Receipt(o)' = {"saved"}
          /\ \A q \in Ops \ {o} : Receipt(q)' = Receipt(q)
          /\ receipts' \in Seq(Row) /\ Len(receipts') = Len(receipts)
        BY <2>1, StateChanges
    <2>3. /\ told' = [told EXCEPT ![o] = "saved"] /\ told \in [Ops -> {"none", "unknown"} \cup States]
        BY DEF TypeOK
    <2>4. told'[o] = "saved" /\ \A q \in Ops \ {o} : told'[q] = told[q]
        BY <2>3
    <2>5. TypeOK'
        BY <2>2, <2>3 DEF TypeOK, Row, States
    <2>6. Phases'
        BY <2>2 DEF Phases
    <2>7. Progress'
        BY DEF Progress
    <2>8. Unknown'
        BY <2>2, <2>4 DEF Unknown
    <2>9. Telling'
        BY <2>2 DEF Telling
    <2>10. Once'
        BY DEF Once
    <2>11. AnswersHonest'
        BY <2>1, <2>2, <2>4 DEF AnswersHonest, Done
    <2> QED
        BY <2>2, <2>5, <2>6, <2>7, <2>8, <2>9, <2>10, <2>11
<1> QED
    BY <1>1, <1>2 DEF Finish

\* An edit by another program, of which a prepared operation learns nothing.
LEMMA EditInv ==
    ASSUME Inv, Edit
    PROVE  Inv'
<1> USE DEF Inv, Edit
<1>0. Prepared' = Prepared /\ (\A q \in Ops : Receipt(q)' = Receipt(q)) /\ Rows'
    BY Kept
<1>1. TypeOK'
    <2>1. foreign' \subseteq Ops
        BY Owner DEF TypeOK, Prepared
    <2>2. edits' \in 0 .. MaxEdits
        <3>1. edits \in 0 .. MaxEdits
            BY DEF TypeOK
        <3> QED
            BY <3>1, BoundAssumption
    <2>3. linked' \in BOOLEAN
        <3>1. linked \in BOOLEAN
            BY DEF TypeOK
        <3>2. (linked /\ target' # Absent) \in BOOLEAN
            OBVIOUS
        <3> QED
            BY <3>1, <3>2
    <2> QED
        BY <2>1, <2>2, <2>3 DEF TypeOK
<1>2. Phases'
    BY <1>0 DEF Phases
<1>3. Progress'
    BY DEF Progress, Done
<1>4. Unknown'
    BY <1>0 DEF Unknown
<1>5. Telling'
    BY <1>0 DEF Telling
<1>6. Once'
    BY DEF Once
<1>7. AnswersHonest'
    BY <1>0 DEF AnswersHonest
<1> QED
    BY <1>0, <1>1, <1>2, <1>3, <1>4, <1>5, <1>6, <1>7

\* The owner of the lease dies.
LEMMA CrashInv ==
    ASSUME Inv, Crash
    PROVE  Inv'
<1> USE DEF Inv, Crash, files
<1>0. Prepared' = Prepared /\ (\A q \in Ops : Receipt(q)' = Receipt(q)) /\ Rows'
    BY Kept
<1>1. TypeOK'
    <2>1. crashes' \in 0 .. MaxCrashes
        <3>1. crashes \in 0 .. MaxCrashes
            BY DEF TypeOK
        <3> QED
            BY <3>1, BoundAssumption
    <2> QED
        BY <2>1 DEF TypeOK
<1>2. Phases'
    BY DEF Phases
<1>3. Progress'
    BY DEF Progress
<1>4. Unknown'
    BY <1>0 DEF Unknown
<1>5. Telling'
    BY <1>0 DEF Telling
<1>6. Once'
    BY DEF Once
<1>7. AnswersHonest'
    BY <1>0 DEF AnswersHonest
<1> QED
    BY <1>0, <1>1, <1>2, <1>3, <1>4, <1>5, <1>6, <1>7

----------------------------------------------------------------------------
(* The theorems. *)

\* At first there are no receipts and nothing was told.
LEMMA InitInv == Init => Inv
<1> SUFFICES ASSUME Init PROVE Inv
    OBVIOUS
<1> USE DEF Init
<1>1. Prepared = {} /\ \A o \in Ops : Receipt(o) = {}
    BY DEF Prepared, Receipt
<1>2. TypeOK
    <2>1. Len(receipts) <= Window /\ edits \in 0 .. MaxEdits /\ crashes \in 0 .. MaxCrashes
        BY BoundAssumption
    <2>2. told \in [Ops -> {"none", "unknown"} \cup States] /\ applied \in [Ops -> Nat]
        OBVIOUS
    <2>3. receipts \in Seq([op : Ops, state : States])
        OBVIOUS
    <2>4. /\ linked \in BOOLEAN /\ asks \in BOOLEAN /\ catching \in BOOLEAN
          /\ sure \in BOOLEAN /\ raced \in BOOLEAN /\ foreign \subseteq Ops /\ disowned \subseteq Ops
        OBVIOUS
    <2> QED
        BY <2>1, <2>2, <2>3, <2>4 DEF TypeOK
<1>3. Rows /\ Phases /\ Progress
    BY <1>1 DEF Rows, Phases, Progress
<1>4. Unknown /\ Telling /\ Once
    BY <1>1 DEF Unknown, Telling, Once
<1>5. AnswersHonest
    BY <1>1 DEF AnswersHonest
<1> QED
    BY <1>2, <1>3, <1>4, <1>5 DEF Inv

\* Every step keeps the invariant.
LEMMA NextInv ==
    ASSUME Inv, [Next]_vars
    PROVE  Inv'
<1>1. CASE Next
    BY <1>1, AcquireInv, AcquireFailInv, RecoverLinkInv, SettleReceiptInv, DispatchInv, ReserveInv, StageInv,
       CompareInv, PrepareInv, PublishInv, UnlinkInv, FinishInv, EditInv, CrashInv DEF Next
<1>2. CASE UNCHANGED vars
    <2> USE <1>2 DEF Inv, vars
    <2>0. Prepared' = Prepared /\ (\A q \in Ops : Receipt(q)' = Receipt(q)) /\ Rows'
        BY Kept
    <2>1. TypeOK' BY DEF TypeOK
    <2>2. Phases' BY <2>0 DEF Phases
    <2>3. Progress' BY DEF Progress, Done
    <2>4. Unknown' BY <2>0 DEF Unknown
    <2>5. Telling' BY <2>0 DEF Telling
    <2>6. Once' BY DEF Once
    <2>7. AnswersHonest' BY <2>0 DEF AnswersHonest
    <2> QED
        BY <2>0, <2>1, <2>2, <2>3, <2>4, <2>5, <2>6, <2>7
<1> QED
    BY <1>1, <1>2

\* Receipts, the file and what callers were told fit each other, whatever call
\* fails and wherever a process dies.
THEOREM ManifestInvariant == Spec => []Inv
<1> QED
    BY InitInv, NextInv, PTL DEF Spec

\* TypeOK: among others, the receipts never outgrow their window
\* (reserveManifestReceipt).
THEOREM ManifestTypeCorrect == Spec => []TypeOK
<1>1. Inv => TypeOK
    BY DEF Inv
<1> QED
    BY <1>1, ManifestInvariant, PTL

\* AnswersHonest: a receipt says what happened to its operation; a caller told saved
\* has its revision in place, and one told unpublished was told so by an attempt that
\* put nothing in place (commit, reconcileManifestReceipts, withManifestLock).
THEOREM AnswersAreHonest == Spec => []AnswersHonest
<1>1. Inv => AnswersHonest
    BY DEF Inv
<1> QED
    BY <1>1, ManifestInvariant, PTL

\* PublishesExpected: a publication replaces the revision its caller expected, and
\* happens once however often the operation is repeated (transactOwned, commit).
THEOREM PublicationsAreExpected == Spec => PublishesExpected
<1> DEFINE A == \A o \in Ops :
                  applied'[o] > applied[o] =>
                    /\ applied[o] = 0
                    /\ target = want[o].before \/ (raced /\ want[o].before # Absent)
<1>1. ASSUME Inv, [Next]_vars
      PROVE  [A]_vars
    <2>1. ASSUME NEW o \in Ops, applied'[o] > applied[o]
          PROVE  /\ applied[o] = 0
                 /\ target = want[o].before \/ (raced /\ want[o].before # Absent)
        <3>1. applied \in [Ops -> Nat] /\ applied[o] \in Nat
            BY <1>1 DEF Inv, TypeOK
        <3>2. applied' # applied
            BY <2>1, <3>1
        <3>3. CASE Publish
            <4>1. pc = "publish" /\ applied' = [applied EXCEPT ![lease] = @ + 1]
                BY <3>2, <3>3 DEF Publish, Put
            <4>2. o = lease
                BY <2>1, <3>1, <4>1
            <4>3. applied[o] = 0 /\ (raced \/ target = want[o].before)
                BY <1>1, <4>1, <4>2 DEF Inv, Progress
            <4>4. want[o].before = Absent => target = Absent
                BY <3>2, <3>3, <4>2 DEF Publish
            <4> QED
                BY <4>3, <4>4
        <3>4. CASE Reserve
            <4>1. PICK h : applied' = [applied EXCEPT ![h] = 0]
                BY <3>2, <3>4 DEF Reserve
            <4>2. applied'[o] \in {applied[o], 0}
                BY <3>1, <4>1
            <4> QED
                BY <2>1, <3>1, <4>2
        <3> QED
            BY <1>1, <3>2, <3>3, <3>4
               DEF Next, vars, Acquire, AcquireFail, RecoverLink, SettleReceipt, Dispatch, Stage,
                   Compare, Prepare, Unlink,
                   SyncDirectory, Finish, Edit, Crash, history
    <2> QED
        BY <2>1
<1> QED
    BY <1>1, ManifestInvariant, PTL DEF Spec, PublishesExpected
=============================================================================
