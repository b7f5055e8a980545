------------------------- MODULE ManifestTransaction -------------------------
(***************************************************************************)
(* Transactions on one manifest file (src/src/persistence/                 *)
(* manifest-transaction.js, manifest-receipts.js, manifest-files.js).      *)
(* Processes take a lease, settle what a crashed owner left prepared,      *)
(* record a receipt, publish, and finish the receipt.  A caller that got   *)
(* no answer repeats its operation or asks for its receipt.  Programs that *)
(* know nothing of leases edit the file.                                   *)
(*                                                                         *)
(* Every system call may fail, and the process may die between any two.    *)
(* A file is its revision, the digest of its bytes.  The lease is the lock *)
(* of SQLite, which dies with its process; receipts are durable when       *)
(* written, and a rename, a link and a removal at once.                    *)
(***************************************************************************)
EXTENDS Naturals, Sequences

CONSTANTS
    Ops,       \* operation identities
    Docs,      \* revisions of documents
    Absent,    \* the revision of a missing file
    None,      \* no operation
    Window,    \* receipts kept: 128 in the code
    MaxEdits,  \* bound: edits by other programs
    MaxCrashes \* bound: crashes

ASSUME NameAssumption == Absent \notin Docs /\ None \notin Ops
ASSUME BoundAssumption == Window \in Nat \ {0} /\ MaxEdits \in Nat /\ MaxCrashes \in Nat

Revisions == Docs \cup {Absent}

VARIABLES
    want,      \* expected and produced revision of each operation
    target,    \* revision at the path
    linked,    \* the staged file is still a second link of the target
    receipts,  \* rows of receipts.sqlite in the order of their insertion
    lease,     \* the operation that holds the lease
    asks,      \* it only reads its receipt
    pc,        \* where it is
    catching,  \* it is in the catch of commit
    sure,      \* the publication is known to have happened
    told,      \* history: what the caller was told last
    disowned,  \* history: operations that were published by an attempt whose caller
               \* was told unpublished
    applied,   \* history: publications since the receipt was inserted
    foreign,   \* history: operations whose file was edited after their last comparison,
               \* until their receipt was settled
    raced,     \* history: the file was edited since the last comparison
    edits, crashes

vars == <<want, target, linked, receipts, lease, asks, pc, catching, sure,
          told, disowned, applied, foreign, raced, edits, crashes>>

Init ==
    /\ want \in [Ops -> [before : Revisions, after : Revisions]]
    /\ target \in Revisions /\ linked = FALSE /\ receipts = <<>>
    /\ lease = None /\ asks = FALSE /\ pc = "idle" /\ catching = FALSE /\ sure = FALSE
    /\ told = [o \in Ops |-> "none"] /\ disowned = {} /\ applied = [o \in Ops |-> 0]
    /\ foreign = {} /\ raced = FALSE /\ edits = 0 /\ crashes = 0

Prepared == {o \in Ops : \E i \in DOMAIN receipts : receipts[i] = [op |-> o, state |-> "prepared"]}
Receipt(o) == {receipts[i].state : i \in {j \in DOMAIN receipts : receipts[j].op = o}}
WithState(o, s) ==
    [i \in DOMAIN receipts |-> IF receipts[i].op = o THEN [op |-> o, state |-> s] ELSE receipts[i]]

files == <<want, target, linked, receipts>>
history == <<applied, foreign, raced, edits, crashes>>

\* This attempt has published its operation.
Published == applied[lease] > 0 /\ (catching \/ pc \in {"unlink", "sync", "finish"})

\* The lease ends and the caller is told what became of its operation: the
\* persistence of an outcome or of an error, "none" for an error without one.
Answer(s) ==
    /\ told' = [told EXCEPT ![lease] = s]
    /\ disowned' = disowned \cup IF s = "unpublished" /\ Published THEN {lease} ELSE {}
    /\ lease' = None /\ asks' = FALSE /\ pc' = "idle" /\ catching' = FALSE /\ sure' = FALSE

Step(to) == pc' = to /\ UNCHANGED <<lease, asks, catching, sure, told, disowned>>

\* withManifestLock, for transactManifest or readManifestOperation.
Acquire(o, reads) ==
    /\ lease = None
    /\ lease' = o /\ asks' = reads /\ pc' = "reconcile"
    /\ told' = [told EXCEPT ![o] = "none"]
    /\ UNCHANGED <<catching, sure, disowned>> /\ UNCHANGED files /\ UNCHANGED history

\* The lease is not had: another one is held past the deadline, too many wait, the
\* path is not admitted (manifestFailure says unpublished where nothing else is
\* given), or the signal fires.  The operation may be saved, or be under way.
AcquireFail(o) ==
    /\ \E s \in {"none", "unpublished"} : told' = [told EXCEPT ![o] = s]
    /\ UNCHANGED <<lease, asks, pc, catching, sure, disowned>> /\ UNCHANGED files /\ UNCHANGED history

----------------------------------------------------------------------------
(* reconcileManifestReceipts, when a lease begins and in the catch of commit. *)

\* Mutant: the catch passes on what the failure says.
LearnedAsIs(s) == s

\* What the caller learns of its operation when reconciling fails with s: in the
\* catch of commit what is known of the publication, and else s.
Learned(s) == IF ~catching THEN s ELSE IF sure THEN "saved" ELSE "unknown"

\* cleanupArtifact: an attempt that ends in its catch removes its staged file, unless
\* that fails too.
Cleanup == linked' \in IF catching THEN {linked, FALSE} ELSE {linked}

\* A file system error, or manifest_target_unsafe and the like.
Fault == \E s \in {"none", "unpublished"} : Answer(Learned(s)) /\ Cleanup

\* manifest_receipt_ambiguous.
Ambiguous == Answer(Learned("unknown")) /\ Cleanup

\* The staged link is that of the prepared row.
OwnLink == \E o \in Prepared : want[o].before = Absent /\ target = want[o].after

\* recoverPreparedLink removes the second link if it is that of the prepared row.
RecoverLink ==
    /\ pc = "reconcile"
    /\ \/ Prepared = {} /\ Step("dispatch") /\ UNCHANGED linked
       \/ Prepared # {} /\ ~linked /\ Step("settle") /\ UNCHANGED linked
       \/ linked /\ OwnLink /\ linked' = FALSE /\ Step("settle")
       \/ Prepared # {} /\ linked /\ ~OwnLink /\ Ambiguous
       \/ Fault
    /\ UNCHANGED <<want, target, receipts>> /\ UNCHANGED history

\* The revision in place tells what became of the prepared row.
SettleReceipt ==
    /\ pc = "settle"
    /\ \/ \E o \in Prepared :
            /\ target \in {want[o].before, want[o].after} /\ ~linked
            /\ receipts' = WithState(o, IF target = want[o].after THEN "saved" ELSE "unpublished")
            /\ Step("dispatch") /\ UNCHANGED linked
       \/ /\ \E o \in Prepared : target \notin {want[o].before, want[o].after}
          /\ Ambiguous /\ UNCHANGED receipts
       \/ Fault /\ UNCHANGED receipts
    /\ UNCHANGED <<want, target>> /\ UNCHANGED history

\* What ends an attempt outside the catch: an error of the transaction, or of the
\* file system, the database or the caller's signal.
Refused == \E s \in {"none", "unpublished"} : Answer(s)

\* A receipt that is there is the answer, the only way on from a catch, unless it
\* is that of another request with the same identity.
Dispatch ==
    /\ pc = "dispatch"
    /\ \/ \E s \in Receipt(lease) : Answer(s)
       \/ ~catching /\ Refused
       \/ Receipt(lease) = {} /\ asks /\ Answer("none")
       \/ Receipt(lease) = {} /\ ~asks /\ Step("reserve")
    /\ UNCHANGED files /\ UNCHANGED history

----------------------------------------------------------------------------
(* transactOwned and commit. *)

\* reserveManifestReceipt: the oldest receipt makes room; its operation is
\* forgotten.
Reserve ==
    /\ pc = "reserve"
    /\ \/ /\ Len(receipts) < Window
          /\ Step("read") /\ UNCHANGED <<receipts, applied, foreign>>
       \/ /\ Len(receipts) = Window
          /\ LET o == Head(receipts).op
             IN  /\ receipts' = Tail(receipts)
                 /\ applied' = [applied EXCEPT ![o] = 0] /\ foreign' = foreign \ {o}
                 /\ told' = [told EXCEPT ![o] = "none"] /\ disowned' = disowned \ {o}
          /\ pc' = "read" /\ UNCHANGED <<lease, asks, catching, sure>>
       \/ Refused /\ UNCHANGED <<receipts, applied, foreign>>
    /\ UNCHANGED <<want, target, linked, raced, edits, crashes>>

\* Mutant: the revision is not compared.
ExpectedAny == TRUE

\* The file has the revision that the operation expects.
Expected == target = want[lease].before /\ ~linked

\* The snapshot is compared, the new document made and staged, the old one
\* backed up; a conflict, a document that is not valid, an abort or a fault ends it.
Stage ==
    /\ pc = "read"
    /\ \/ Expected /\ Step("compare")
       \/ Refused
    /\ UNCHANGED files /\ UNCHANGED history

\* The file is compared again.
Compare ==
    /\ pc = "compare"
    /\ \/ Expected /\ raced' = FALSE /\ foreign' = foreign \ {lease} /\ Step("prepare")
       \/ Refused /\ UNCHANGED <<raced, foreign>>
    /\ UNCHANGED files /\ UNCHANGED <<applied, edits, crashes>>

\* prepareManifestReceipt.
Prepare ==
    /\ pc = "prepare"
    /\ \/ /\ Len(receipts) < Window
          /\ receipts' = Append(receipts, [op |-> lease, state |-> "prepared"])
          /\ Step("publish")
       \/ Refused /\ UNCHANGED receipts
    /\ UNCHANGED <<want, target, linked>> /\ UNCHANGED history

\* The catch of commit.
Catch(known) ==
    /\ pc' = "reconcile" /\ catching' = TRUE /\ sure' = known
    /\ UNCHANGED <<lease, asks, told, disowned>>

Put(rev) == target' = rev /\ applied' = [applied EXCEPT ![lease] = @ + 1]

\* publishManifest and removeManifest: link for a file that was missing, rename for
\* one that was there, unlink for a document that is no more.
Publish ==
    /\ pc = "publish"
    /\ LET w == want[lease]
       IN  \/ /\ w.before = Absent /\ w.after = Absent
              /\ Step("finish") /\ UNCHANGED <<target, linked, applied>>
           \/ /\ w.before = Absent /\ w.after # Absent /\ target = Absent
              /\ Put(w.after) /\ linked' = TRUE /\ Step("unlink")
           \/ /\ w.before # Absent /\ w.after # Absent
              /\ Put(w.after) /\ linked' = FALSE /\ Step("sync")
           \/ /\ w.before # Absent /\ w.after = Absent /\ target # Absent
              /\ Put(Absent) /\ linked' = FALSE /\ Step("sync")
           \/ Catch(FALSE) /\ UNCHANGED <<target, linked, applied>>
    /\ UNCHANGED <<want, receipts, foreign, raced, edits, crashes>>

\* The staged link is removed.
Unlink ==
    /\ pc = "unlink"
    /\ \/ linked' = FALSE /\ Step("sync")
       \/ Catch(TRUE) /\ UNCHANGED linked
    /\ UNCHANGED <<want, target, receipts>> /\ UNCHANGED history

\* The directory is synced.
SyncDirectory ==
    /\ pc = "sync"
    /\ \/ Step("finish")
       \/ Catch(TRUE)
    /\ UNCHANGED files /\ UNCHANGED history

\* finishManifestReceipt.
Finish ==
    /\ pc = "finish"
    /\ \/ receipts' = WithState(lease, "saved") /\ Answer("saved")
       \/ Catch(TRUE) /\ UNCHANGED receipts
    /\ UNCHANGED <<want, target, linked>> /\ UNCHANGED history

----------------------------------------------------------------------------
(* The environment. *)

\* Another program replaces, removes or rewrites the file.
Edit ==
    /\ edits < MaxEdits /\ edits' = edits + 1
    /\ target' \in Revisions
    /\ linked' \in {FALSE, linked /\ target' # Absent}
    /\ foreign' = foreign \cup Prepared \cup IF pc = "prepare" THEN {lease} ELSE {}
    /\ raced' = TRUE
    /\ UNCHANGED <<want, receipts, lease, asks, pc, catching, sure, told, disowned, applied, crashes>>

Crash ==
    /\ lease # None /\ crashes < MaxCrashes /\ crashes' = crashes + 1
    /\ lease' = None /\ asks' = FALSE /\ pc' = "idle" /\ catching' = FALSE /\ sure' = FALSE
    /\ UNCHANGED files /\ UNCHANGED <<told, disowned, applied, foreign, raced, edits>>

Next ==
    \/ \E o \in Ops : AcquireFail(o) \/ \E reads \in BOOLEAN : Acquire(o, reads)
    \/ RecoverLink \/ SettleReceipt \/ Dispatch
    \/ Reserve \/ Stage \/ Compare \/ Prepare \/ Publish \/ Unlink \/ SyncDirectory \/ Finish
    \/ Edit \/ Crash

Spec == Init /\ [][Next]_vars

----------------------------------------------------------------------------
(* Properties. *)

States == {"prepared", "saved", "unpublished"}
\* Types of the variables; receipts fit their window.
TypeOK ==
    /\ want \in [Ops -> [before : Revisions, after : Revisions]]
    /\ target \in Revisions /\ linked \in BOOLEAN
    /\ receipts \in Seq([op : Ops, state : States]) /\ Len(receipts) <= Window
    /\ lease \in Ops \cup {None} /\ asks \in BOOLEAN /\ catching \in BOOLEAN /\ sure \in BOOLEAN
    /\ pc \in {"idle", "reconcile", "settle", "dispatch", "reserve", "read", "compare", "prepare",
               "publish", "unlink", "sync", "finish"}
    /\ told \in [Ops -> {"none", "unknown"} \cup States] /\ disowned \subseteq Ops
    /\ applied \in [Ops -> Nat] /\ foreign \subseteq Ops /\ raced \in BOOLEAN
    /\ edits \in 0 .. MaxEdits /\ crashes \in 0 .. MaxCrashes

\* What a receipt records and what a caller is told of an operation is what
\* happened to it, whatever call failed and wherever a process died.  Saved means
\* that its revision was put in place, by this attempt or an earlier one, or was
\* there already.  A receipt that says unpublished: it was not.  A caller told
\* unpublished: its attempt has put nothing in place, which is what
\* provider/bootstrap.js goes by when it removes the secret that the document
\* would have named.  An earlier attempt may have saved the operation: a lease
\* that is not had in time says unpublished before any receipt is read.
\* Excepted are operations whose file another program edited between their last
\* comparison and the settling of their receipt.
AnswersHonest ==
    \A o \in Ops \ foreign :
      /\ "saved" \in Receipt(o) \cup {told[o]}
           => applied[o] = 1 \/ want[o].before = want[o].after
      /\ "unpublished" \in Receipt(o) => applied[o] = 0
      /\ o \notin disowned

\* A publication replaces exactly the revision its caller expected, and happens
\* once however often the operation is repeated within the window of receipts.
\* Only an edit by another program between the last comparison and the rename can
\* be overwritten, and never where a missing file was expected.
PublishesExpected ==
    [][\A o \in Ops :
         applied'[o] > applied[o] =>
           /\ applied[o] = 0
           /\ target = want[o].before \/ (raced /\ want[o].before # Absent)]_vars
=============================================================================
