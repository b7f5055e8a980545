---------------------------- MODULE JournalStore ----------------------------
(***************************************************************************)
(* The journal of a session (src/src/store.js): lines that carry a         *)
(* sequence number, the hash of the line before them and their own hash.   *)
(* A store appends to it under the lock of the session; its operations     *)
(* are serialized by a promise chain, every write and sync races a         *)
(* deadline.  A process dies at any step, power fails at any step, an      *)
(* operator repairs and compacts the file (persistence/session-data.js),   *)
(* one command at a time.                                                  *)
(*                                                                         *)
(* The hash of a line stands for all the values up to it, so it is modelled*)
(* by their sequence; its length is the sequence number.  A store stands   *)
(* for one opening of the journal.  The lock admits one at a time          *)
(* (SessionLock); a rename is durable at once.                             *)
(***************************************************************************)
EXTENDS Naturals, Sequences, SequencesExt

CONSTANTS
    Stores,    \* openings of the journal
    Values,    \* what a record may hold
    MaxLines,  \* bound: lines of the file
    MaxGen,    \* bound: files that were ever at the path
    None

ASSUME NoneAssumption == None \notin Values /\ None \notin Seq(Values)
ASSUME BoundsAssumption == MaxLines \in Nat /\ MaxGen \in Nat \ {0}

VARIABLES
    file,     \* the lines of the journal, at its path unless repair moved it away
    gen,      \* which file that is: a rename puts a new one at the path
    synced,   \* how many of its lines are on the disk
    store,    \* the stores
    prefix,   \* the verified prefix preserved last
    command,  \* the operator's command under way and the records it has read
    acked,    \* history: values whose append returned and were not dropped
    hurt      \* history: what has happened that the journal cannot stand

vars == <<file, gen, synced, store, prefix, command, acked, hurt>>

\* A line as it was written: whole, without its newline, in part, or run
\* together with another one.
Line(p, v, form) == [prev |-> p, val |-> v, form |-> form]
ValuesOf(f, k) == [i \in 1 .. k |-> f[i].val]

\* A store without anything to do with the file.
Unused(pc) == [pc |-> pc, handle |-> 0, chain |-> <<>>, failed |-> FALSE,
               val |-> None, late |-> FALSE]

\* The operator's command: what it is at, and what it has read.
Command(name, read) == [name |-> name, read |-> read]
NoCommand == Command("none", <<>>)
\* Between the two renames of a repair nothing is at the path.
Away == command.name = "away"

Init ==
    /\ file = <<>> /\ gen = 1 /\ synced = 0
    /\ store = [s \in Stores |-> Unused("new")]
    /\ prefix = None /\ command = NoCommand
    /\ acked = <<>> /\ hurt = {}

\* recoverJournal accepts line i: it parses and continues the chain.
Chained(f, i) ==
    /\ f[i].form \in {"line", "bare"}
    /\ f[i].prev = ValuesOf(f, i - 1)

\* recoverJournal stops at the first line it cannot accept.
Verified(f) ==
    CHOOSE k \in 0 .. Len(f) :
      /\ \A i \in 1 .. k : Chained(f, i)
      /\ k = Len(f) \/ ~Chained(f, k + 1)
CorruptTail(f) == Verified(f) < Len(f)
Log == ValuesOf(file, Verified(file))

\* What the journal promises, as long as nothing has hurt it.
D == INSTANCE DurableLog WITH log <- Log, sound <- (hurt = {}),
                              replacing <- \E s \in Stores : store[s].pc = "replace"

Terminated(f) == f = <<>> \/ f[Len(f)].form \in {"line", "bad"}
\* The bytes of a line are appended to a file.
Put(f, l) == IF Terminated(f) THEN Append(f, l)
             ELSE [f EXCEPT ![Len(f)].form = "bad"]
\* encodeRecords: the chain starts anew.
Encode(vs) == [i \in 1 .. Len(vs) |-> Line(SubSeq(vs, 1, i - 1), vs[i], "line")]

\* The store has the lock of the session.
Active(s) == store[s].pc \notin {"new", "closed", "dead"}
LockFree == \A s \in Stores : ~Active(s)
\* The handle of the store is that of the file at the path.
Attached(s) == store[s].handle = gen

----------------------------------------------------------------------------
(* Opening. *)

\* A corrupt tail is refused, and its verified prefix preserved.
Open(s) ==
    /\ store[s].pc = "new" /\ LockFree /\ ~Away
    /\ \/ /\ CorruptTail(file)
          /\ prefix' = Log
          /\ store' = [store EXCEPT ![s] = Unused("closed")]
       \/ /\ ~CorruptTail(file)
          /\ store' = [store EXCEPT
                         ![s].pc = IF Terminated(file) THEN "idle" ELSE "newline",
                         ![s].handle = gen, ![s].chain = Log]
          /\ UNCHANGED prefix
    /\ hurt' = hurt \cup IF command.name = "compact" THEN {"race"} ELSE {}
    /\ UNCHANGED <<file, gen, synced, command, acked>>

\* A journal that is not there is opened as an empty one.
OpenMissing(s) ==
    /\ store[s].pc = "new" /\ LockFree /\ Away /\ gen < MaxGen
    /\ file' = <<>> /\ synced' = 0 /\ gen' = gen + 1
    /\ store' = [store EXCEPT ![s].pc = "idle", ![s].handle = gen + 1, ![s].chain = <<>>]
    /\ command' = Command("overtaken", command.read)
    /\ hurt' = hurt \cup {"gap"}
    /\ UNCHANGED <<prefix, acked>>

\* Mutant: the last record stays without its newline.
NewlineSkipped(s) ==
    /\ store[s].pc = "newline"
    /\ store' = [store EXCEPT ![s].pc = "idle"]
    /\ UNCHANGED <<file, gen, synced, prefix, command, acked, hurt>>

Ended(f) == [f EXCEPT ![Len(f)].form = IF @ = "bare" THEN "line" ELSE @]

\* A last record without its newline gets it before anything is appended; the
\* write, its sync or their deadline may fail, and then so does open.
Newline(s) ==
    /\ store[s].pc = "newline"
    /\ \/ /\ file' = IF Attached(s) THEN Ended(file) ELSE file
          /\ synced' = IF Attached(s) THEN Len(file) ELSE synced
          /\ store' = [store EXCEPT ![s].pc = "idle"]
       \/ /\ file' \in {file, IF Attached(s) THEN Ended(file) ELSE file}
          /\ store' = [store EXCEPT ![s] = Unused("closed")]
          /\ UNCHANGED synced
    /\ UNCHANGED <<gen, prefix, command, acked, hurt>>

----------------------------------------------------------------------------
(* Appending. *)

\* #append composes its line; without a handle or after a failed flush it throws.
AppendBegin(s) ==
    /\ store[s].pc = "idle" /\ store[s].handle # 0 /\ ~store[s].failed
    /\ Len(store[s].chain) < MaxLines /\ Len(file) < MaxLines
    /\ \E v \in Values : store' = [store EXCEPT ![s].pc = "write", ![s].val = v]
    /\ UNCHANGED <<file, gen, synced, prefix, command, acked, hurt>>

NextLine(s, form) == Line(store[s].chain, store[s].val, form)
\* Bytes written through the handle; a file that was renamed away takes them.
Reach(s, l) == file' = IF Attached(s) THEN Put(file, l) ELSE file

\* writeFully has written the line.
Write(s) ==
    /\ store[s].pc = "write"
    /\ Reach(s, NextLine(s, "line"))
    /\ store' = [store EXCEPT ![s].pc = "sync"]
    /\ UNCHANGED <<gen, synced, prefix, command, acked, hurt>>

\* Part of the line, or all of it, reached the file before the write stopped.
Remains(s) ==
    \/ UNCHANGED file
    \/ \E form \in {"part", "bare", "line"} : Reach(s, NextLine(s, form))

Fail(s) == store' = [store EXCEPT ![s].pc = "idle", ![s].failed = TRUE,
                                  ![s].val = IF store[s].late THEN @ ELSE None]

\* The write fails.
WriteFail(s) ==
    /\ store[s].pc = "write"
    /\ Remains(s) /\ Fail(s)
    /\ UNCHANGED <<gen, synced, prefix, command, acked, hurt>>

\* #flush gives the write up at its deadline, and the write goes on.
WriteTimeout(s) ==
    /\ store[s].pc = "write"
    /\ store' = [store EXCEPT ![s].pc = "idle", ![s].failed = TRUE, ![s].late = TRUE]
    /\ UNCHANGED <<file, gen, synced, prefix, command, acked, hurt>>

\* The write that was given up ends, if its process still lives.
LateWrite(s) ==
    /\ store[s].late /\ Len(file) < MaxLines
    /\ Remains(s)
    /\ store' = [store EXCEPT ![s] = IF @.pc = "closed" THEN Unused("closed")
                                     ELSE [@ EXCEPT !.late = FALSE, !.val = None]]
    /\ hurt' = hurt \cup IF Attached(s) /\ (command.name = "compact" \/ \E t \in Stores \ {s} : Active(t))
                         THEN {"late"} ELSE {}
    /\ UNCHANGED <<gen, synced, prefix, command, acked>>

\* Mutant: append returns when the line is written.
SyncSkipped(s) ==
    /\ store[s].pc = "sync"
    /\ LET c == Append(store[s].chain, store[s].val)
       IN  /\ store' = [store EXCEPT ![s].pc = "idle", ![s].chain = c, ![s].val = None]
           /\ acked' = IF Attached(s) THEN c ELSE Append(acked, store[s].val)
    /\ UNCHANGED <<file, gen, synced, prefix, command, hurt>>

\* The file is synced, the chain goes on, append returns.
Sync(s) ==
    /\ store[s].pc = "sync"
    /\ LET c == Append(store[s].chain, store[s].val)
       IN  /\ store' = [store EXCEPT ![s].pc = "idle", ![s].chain = c, ![s].val = None]
           /\ acked' = IF Attached(s) THEN c ELSE Append(acked, store[s].val)
    /\ synced' = IF Attached(s) THEN Len(file) ELSE synced
    /\ UNCHANGED <<file, gen, prefix, command, hurt>>

\* The sync fails, or its deadline passes.
SyncFail(s) ==
    /\ store[s].pc = "sync"
    /\ Fail(s)
    /\ UNCHANGED <<file, gen, synced, prefix, command, acked, hurt>>

----------------------------------------------------------------------------
(* Replacing and closing. *)

\* #replace closes the handle first, which waits for a write under way; if that
\* fails it stops there.
ReplaceClose(s) ==
    /\ store[s].pc = "idle"
    /\ \/ /\ ~store[s].late
          /\ store' = [store EXCEPT ![s].pc = "replace", ![s].handle = 0]
          /\ synced' = IF Attached(s) /\ ~store[s].failed THEN Len(file) ELSE synced
       \/ store[s].handle # 0 /\ Fail(s) /\ UNCHANGED synced
    /\ UNCHANGED <<file, gen, prefix, command, acked, hurt>>

\* Mutant: the replacement is renamed before it is synced.
SwapUnsynced(vs) ==
    /\ file' = Encode(vs) /\ gen' = gen + 1 /\ UNCHANGED synced

\* A replacement with values vs is written, synced and renamed to the path.
Swap(vs) ==
    /\ file' = Encode(vs) /\ synced' = Len(vs) /\ gen' = gen + 1

\* What the caller may hand over: records kept, reordered, rewritten or new.
Batches == UNION {[1 .. n -> Values] : n \in 0 .. MaxLines}

\* The caller decides which records the journal has from now on.
ReplaceSwap(s) ==
    /\ store[s].pc = "replace" /\ gen < MaxGen
    /\ \E vs \in Batches : Swap(vs) /\ acked' = vs
    /\ store' = [store EXCEPT ![s].pc = "reopen"]
    /\ UNCHANGED <<prefix, command, hurt>>

\* The replacement could not be written: the store has no handle any more.
ReplaceFail(s) ==
    /\ store[s].pc = "replace"
    /\ store' = [store EXCEPT ![s].pc = "idle"]
    /\ UNCHANGED <<file, gen, synced, prefix, command, acked, hurt>>

\* Mutant: the chain of the store goes on from the old file.
ReplaceOpenKeeps(s) ==
    /\ store[s].pc = "reopen"
    /\ store' = [store EXCEPT ![s].pc = "idle", ![s].handle = gen]
    /\ UNCHANGED <<file, gen, synced, prefix, command, acked, hurt>>

\* The chain goes on from what the new file holds; it may not open.
ReplaceOpen(s) ==
    /\ store[s].pc = "reopen"
    /\ \E h \in {0, gen} :
         store' = [store EXCEPT ![s].pc = "idle", ![s].handle = h, ![s].chain = Log]
    /\ UNCHANGED <<file, gen, synced, prefix, command, acked, hurt>>

\* close syncs, unless a flush has failed, and closes; whether it succeeds or
\* not the engine then gives the lock up.
Close(s) ==
    /\ store[s].pc = "idle"
    /\ \/ /\ synced' = IF Attached(s) /\ ~store[s].failed THEN Len(file) ELSE synced
       \/ UNCHANGED synced
    /\ store' = [store EXCEPT ![s] = IF store[s].late THEN [@ EXCEPT !.pc = "closed"]
                                     ELSE Unused("closed")]
    /\ UNCHANGED <<file, gen, prefix, command, acked, hurt>>

----------------------------------------------------------------------------
(* The environment. *)

\* The process of a store dies, with a write under way or without.
Crash(s) ==
    /\ store[s].pc \notin {"new", "dead"}
    /\ IF store[s].pc = "write" THEN Remains(s) ELSE UNCHANGED file
    /\ store' = [store EXCEPT ![s] = Unused("dead")]
    /\ UNCHANGED <<gen, synced, prefix, command, acked, hurt>>

\* Power fails: lines that were not synced may be gone, the last one in part.
\* Between the renames of a repair it is RepairLost that comes first.
PowerLoss ==
    /\ ~Away
    /\ \E k \in synced .. Len(file) :
         \/ file' = SubSeq(file, 1, k)
         \/ /\ k < Len(file)
            /\ file[k + 1].form = "line"
            /\ \E form \in {"part", "bare"} :
                 file' = [SubSeq(file, 1, k + 1) EXCEPT ![k + 1].form = form]
    /\ store' = [s \in Stores |-> IF store[s].pc = "new" THEN store[s] ELSE Unused("dead")]
    /\ command' = NoCommand
    /\ UNCHANGED <<gen, synced, prefix, acked, hurt>>

----------------------------------------------------------------------------
(* The operator. *)

\* repair finds no owner and a corrupt tail, and takes the prefix preserved last.
RepairRead ==
    /\ LockFree /\ command = NoCommand /\ CorruptTail(file)
    /\ prefix \notin {None, <<>>}
    /\ command' = Command("repair", prefix)
    /\ UNCHANGED <<file, gen, synced, store, prefix, acked, hurt>>

\* It renames the journal away; the lock is not looked at again.
RepairAway ==
    /\ command.name = "repair" /\ gen < MaxGen
    /\ command' = Command("away", command.read)
    /\ UNCHANGED <<file, gen, synced, store, prefix, acked, hurt>>

\* It renames a copy of the prefix to the path, whatever is there by now.
RepairIn ==
    /\ command.name \in {"away", "overtaken"} /\ gen < MaxGen
    /\ Swap(command.read)
    /\ command' = NoCommand
    /\ hurt' = hurt \cup IF command.read = Log THEN {} ELSE {"stale"}
    /\ UNCHANGED <<store, prefix, acked>>

\* That rename fails, and the journal is renamed back.
RepairBack ==
    /\ Away
    /\ command' = NoCommand
    /\ UNCHANGED <<file, gen, synced, store, prefix, acked, hurt>>

\* Its process dies between the renames, or renaming back fails too: the journal
\* is left under another name and nothing is at the path.
RepairLost ==
    /\ Away /\ gen < MaxGen
    /\ file' = <<>> /\ synced' = 0 /\ gen' = gen + 1
    /\ command' = NoCommand
    /\ hurt' = hurt \cup {"gap"}
    /\ UNCHANGED <<store, prefix, acked>>

\* A command fails, or its process dies, where it has moved nothing.
GiveUp ==
    /\ command.name \in {"compact", "repair", "overtaken"}
    /\ command' = NoCommand
    /\ UNCHANGED <<file, gen, synced, store, prefix, acked, hurt>>

\* compact finds no lock, and reads the journal.
CompactRead ==
    /\ LockFree /\ command = NoCommand /\ ~CorruptTail(file)
    /\ command' = Command("compact", Log)
    /\ UNCHANGED <<file, gen, synced, store, prefix, acked, hurt>>

\* It keeps everything from the newest snapshot on, drops some of what is older
\* and renames the rest to the path; the lock is not looked at again.
CompactSwap ==
    /\ command.name = "compact" /\ gen < MaxGen
    /\ LET read == command.read
       IN  \E b \in 1 .. Len(read) : \E older \in D!Thinned(SubSeq(read, 1, b - 1)) :
             LET vs == older \o SubSeq(read, b, Len(read))
             IN  Swap(vs) /\ acked' = vs \o SubSeq(acked, Len(read) + 1, Len(acked))
    /\ command' = NoCommand
    /\ UNCHANGED <<store, prefix, hurt>>

----------------------------------------------------------------------------
Next ==
    \/ \E s \in Stores :
         \/ Open(s) \/ OpenMissing(s) \/ Newline(s)
         \/ AppendBegin(s) \/ Write(s) \/ WriteFail(s) \/ WriteTimeout(s)
         \/ LateWrite(s) \/ Sync(s) \/ SyncFail(s)
         \/ ReplaceClose(s) \/ ReplaceSwap(s) \/ ReplaceFail(s) \/ ReplaceOpen(s)
         \/ Close(s) \/ Crash(s)
    \/ PowerLoss
    \/ RepairRead \/ RepairAway \/ RepairIn \/ RepairBack \/ RepairLost
    \/ CompactRead \/ CompactSwap \/ GiveUp

Spec == Init /\ [][Next]_vars

----------------------------------------------------------------------------
(* Properties. *)

Forms == {"line", "bare", "part", "bad"}
Lines == [prev : Seq(Values), val : Values, form : Forms]
Runs == [pc : {"new", "newline", "idle", "write", "sync", "replace", "reopen",
               "closed", "dead"},
         handle : 0 .. MaxGen, chain : Seq(Values), failed : BOOLEAN,
         val : Values \cup {None}, late : BOOLEAN]

Commands == [name : {"none", "compact", "repair", "away", "overtaken"}, read : Seq(Values)]
\* A write given up ends in a file that is in use; repair puts an older prefix
\* in place; a session opens during a compaction, or opens, or finds, no journal
\* because of the renames of a repair.
Harms == {"late", "stale", "race", "gap"}

\* Types.  No more lines are on the disk than the file has, also when another
\* file takes its place.
TypeOK ==
    /\ file \in Seq(Lines) /\ gen \in 1 .. MaxGen /\ synced \in 0 .. Len(file)
    /\ store \in [Stores -> Runs]
    /\ prefix \in Seq(Values) \cup {None} /\ command \in Commands
    /\ acked \in Seq(Values) /\ hurt \subseteq Harms

\* The journal is a durable log as long as none of Harms has happened.  Whatever
\* process dies, write is torn or given up, or power fails, a record whose append
\* has returned (store.js #append) is found by every later open, until the owner
\* replaces the journal (store.js #replace) or the operator's compaction drops it;
\* compaction only drops records, and no record appears that was neither appended
\* nor written by such a replacement.  Between the renames of a repair the log is
\* the one in the file renamed away.
Implements == D!Spec

\* As long as none of Harms has happened, the records whose append has returned
\* are the beginning of what an open recovers, also between the write and the
\* sync of a line, after a torn write, a power failure, a failed replacement or a
\* repair that was carried through or undone; not between its two renames, where
\* nothing is at the path.
AckedRecovered == hurt = {} /\ ~Away => IsPrefix(acked, Log)

\* As long as none of Harms has happened, a store that appends has the file at
\* the path open and goes on from exactly the records an open would recover: its
\* chain was not left behind by a failed append, a replacement or a line that came
\* late, and no repair or compaction, whose commands hold no lock, has replaced
\* the file under it.
ChainIsLog ==
    hurt = {} =>
      \A s \in Stores :
        store[s].pc \in {"idle", "write"} /\ store[s].handle # 0 /\ ~store[s].failed
          => ~Away /\ Attached(s) /\ store[s].chain = Log

\* docs/CONFIGURATION.md: compaction "retains non-transcript state and all
\* records at or after the newest snapshot".  With it, too, every record whose
\* append has returned since is recovered.
CompactionRetains == hurt \subseteq {"race"} /\ ~Away => IsPrefix(acked, Log)
=============================================================================
