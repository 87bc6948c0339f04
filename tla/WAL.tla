-------------------------------- MODULE WAL --------------------------------
(***************************************************************************)
(* The write-ahead log file (src/engine/wal.hpp): append / append_batch    *)
(* through write_raw, flush, and recover with its truncation, across       *)
(* process kills, power failures and I/O errors.                           *)
(*                                                                         *)
(* The file is a sequence of cells.  A cell is one record: whole (its CRC  *)
(* matches) or torn (some of its bytes).  A record is its number; what it  *)
(* holds is the engine's business.  write_mutex_ makes writes sequential,  *)
(* so at most the last cell is being written.  A flush succeeds: a failed  *)
(* fdatasync, whose result the code ignores, is not among the faults.      *)
(***************************************************************************)
EXTENDS Integers, Sequences, FiniteSets

CONSTANTS
  Faults,     \* subset of {"write", "power", "read"}: what may go wrong
  MaxRecords  \* bound: number of records appended

ASSUME WALAssumption ==
  /\ Faults \subseteq {"write", "power", "read"}
  /\ MaxRecords \in Nat

VARIABLES
  file,     \* the cells of the file
  synced,   \* how many of them are on stable storage
  mode,     \* "up", "busy" (inside write_raw) or "down"
  next,     \* number of the next record
  torn,     \* 1 if part of a record lies where this run goes on writing after it
  acked,    \* history: records whose append returned to the caller
  suspect,  \* history: records whose write failed or came after a torn one,
            \* or that lay beyond a failed read
  exposed   \* history: those that were not yet synced when power failed

logVars == <<file, synced, mode, next, torn, acked, suspect, exposed>>

LogInit ==
  /\ file = <<>> /\ synced = 0
  /\ mode = "down"
  /\ next = 1 /\ torn = 0
  /\ acked = {} /\ suspect = {} /\ exposed = {}

\* The first n cells are whole: recover() reads through them.
Readable(n) == \A i \in 1 .. n : file[i].ok = 1

\* The records among the first n that a recovery of the file as it stands would
\* replay.
KeptTo(n) == {file[i].id : i \in {m \in 1 .. n : Readable(m)}}
Kept == KeptTo(Len(file))

\* append / append_batch: write_raw takes the mutex and its first bytes go out.
WriteStart ==
  /\ mode = "up" /\ next <= MaxRecords
  /\ file' = Append(file, [id |-> next, ok |-> 0])
  /\ next' = next + 1
  /\ mode' = "busy"
  /\ UNCHANGED <<synced, torn, acked, suspect, exposed>>

\* Mutant of WriteDone: the loop goes round once more and writes the record again.
WriteDoneTwice ==
  /\ mode = "busy"
  /\ file' = Append([file EXCEPT ![Len(file)].ok = 1], [id |-> next - 1, ok |-> 1])
  /\ mode' = "up"
  /\ acked' = acked \cup {next - 1}
  /\ suspect' = IF torn = 1 THEN suspect \cup {next - 1} ELSE suspect
  /\ UNCHANGED <<synced, next, torn, exposed>>

\* The loop of write_raw has written everything and append returns.
WriteDone ==
  /\ mode = "busy"
  /\ file' = [file EXCEPT ![Len(file)].ok = 1]
  /\ mode' = "up"
  /\ acked' = acked \cup {next - 1}
  /\ suspect' = IF torn = 1 THEN suspect \cup {next - 1} ELSE suspect
  /\ UNCHANGED <<synced, next, torn, exposed>>

\* write() fails; the result of write_raw is not looked at, so append returns
\* all the same.  What was written of the record, if anything, stays.
WriteFail ==
  /\ "write" \in Faults
  /\ mode = "busy"
  /\ \/ torn' = 1 /\ UNCHANGED file
     \/ file' = SubSeq(file, 1, Len(file) - 1) /\ UNCHANGED torn
  /\ mode' = "up"
  /\ acked' = acked \cup {next - 1}
  /\ suspect' = suspect \cup {next - 1}
  /\ UNCHANGED <<synced, next, exposed>>

\* flush(): fdatasync under the mutex.
Flush ==
  /\ mode = "up"
  /\ synced' = Len(file)
  /\ exposed' = exposed \ Kept
  /\ UNCHANGED <<file, mode, next, torn, acked, suspect>>

\* The process dies; the kernel keeps what it was given, which may be all of a
\* record whose append never returned.
Kill ==
  /\ mode # "down"
  /\ mode' = "down" /\ torn' = 0
  /\ \/ UNCHANGED file
     \/ mode = "busy" /\ file' = [file EXCEPT ![Len(file)].ok = 1]
  /\ UNCHANGED <<synced, next, acked, suspect, exposed>>

\* The machine dies: what was not synced survives up to some point, where a
\* record may be cut.
PowerFail ==
  /\ "power" \in Faults
  /\ mode' = "down" /\ torn' = 0
  /\ \E k \in synced .. Len(file) :
       \/ file' = SubSeq(file, 1, k)
       \/ k < Len(file)
          /\ file' = Append(SubSeq(file, 1, k), [id |-> file[k + 1].id, ok |-> 0])
  /\ exposed' = exposed \cup (acked \ KeptTo(synced))
  /\ UNCHANGED <<synced, next, acked, suspect>>

\* Mutant of TruncateAt: no ftruncate.
TruncateNot(n) ==
  /\ UNCHANGED file
  /\ synced' = IF synced < n THEN synced ELSE n

\* The file is cut after its first n cells.
TruncateAt(n) ==
  /\ file' = SubSeq(file, 1, n)
  /\ synced' = IF synced < n THEN synced ELSE n

\* recover(): everything up to the first cell that does not check is replayed
\* and the file is cut there.
Recover ==
  /\ mode = "down"
  /\ \E n \in 0 .. Len(file) :
       /\ Readable(n)
       /\ n < Len(file) => file[n + 1].ok = 0
       /\ TruncateAt(n)
  /\ mode' = "up"
  /\ UNCHANGED <<next, torn, acked, suspect, exposed>>

\* recover() when a pread of a whole record fails: it stops and cuts there too.
RecoverReadError ==
  /\ "read" \in Faults
  /\ mode = "down"
  /\ \E n \in 0 .. Len(file) - 1 :
       /\ Readable(n + 1)
       /\ TruncateAt(n)
       /\ suspect' = suspect \cup {file[i].id : i \in n + 1 .. Len(file)}
  /\ mode' = "up"
  /\ UNCHANGED <<next, torn, acked, exposed>>

\* recover() when fstat fails: it returns, and writing goes on at the end.
RecoverStatError ==
  /\ "read" \in Faults
  /\ mode = "down"
  /\ mode' = "up"
  /\ torn' = IF Readable(Len(file)) THEN 0 ELSE 1
  /\ UNCHANGED <<file, synced, next, acked, suspect, exposed>>

LogNext ==
  \/ WriteStart \/ WriteDone \/ WriteFail
  \/ Flush \/ Kill \/ PowerFail
  \/ Recover \/ RecoverReadError \/ RecoverStatError

LogSpec == LogInit /\ [][LogNext]_logVars

-----------------------------------------------------------------------------
\* Properties

\* The file's cells, the synced length and the histories keep their types.
LogTypeOK ==
  /\ file \in Seq([id : 1 .. MaxRecords, ok : {0, 1}])
  /\ synced \in 0 .. Len(file)
  /\ mode \in {"up", "busy", "down"}
  /\ next \in 1 .. MaxRecords + 1
  /\ torn \in {0, 1}
  /\ acked \subseteq 1 .. MaxRecords
  /\ suspect \subseteq 1 .. MaxRecords
  /\ exposed \subseteq 1 .. MaxRecords

\* A record whose append returned is replayed by every later recovery, through
\* any number of kills, torn tails and restarts, unless its own write failed or
\* followed a torn one of the same run, power failed before a flush, or a read
\* failed in a recovery before it was reached.
AckedKept == acked \ (suspect \cup exposed) \subseteq Kept

\* docs/ARCHITECTURE.md:14, "Write-Ahead Log ensuring durability", for a log
\* that has lost no power: what was acknowledged is there after a restart.
AckedDurable == acked \subseteq Kept

\* The file is a DurableLog until a write or a read of it fails: the records
\* recover() would replay, in their order, lose only a suffix, never a flushed one,
\* and an append that returns has added its record.
KeptLen == Cardinality({n \in 1 .. Len(file) : Readable(n)})
Abs == INSTANCE DurableLog WITH
         Record <- 1 .. MaxRecords,
         log <- [i \in 1 .. KeptLen |-> file[i].id],
         durable <- IF synced < KeptLen THEN synced ELSE KeptLen,
         told <- acked
ImplementsDurableLog == Abs!Init /\ [][suspect' = {} => [Abs!Next]_(Abs!vars)]_logVars
=============================================================================
