-------------------------------- MODULE Wal --------------------------------
(***************************************************************************)
(* The write-ahead log (src/wal.cpp): one file of fixed size, mapped into  *)
(* memory.  Append copies a record into the mapping and returns; the       *)
(* kernel writes the pages back when it likes, and only Close calls msync. *)
(* A killed process leaves the mapping to the kernel, a loss of power      *)
(* leaves what was written back.                                           *)
(*                                                                         *)
(* The file is an array of slots, the units of write-back; a record takes  *)
(* one or more slots.  A checksum that covers the record tells it from     *)
(* anything else, so a slot holds Zero or a numbered part of a record.     *)
(***************************************************************************)
EXTENDS Integers, Sequences, Functions

CONSTANTS Capacity,      \* slots of the file
          MaxSize,       \* slots of the largest record
          MaxAppends,    \* bound: records ever appended
          Zero,          \* a slot never written
          PowerMayFail

ASSUME SizesAssumption == Capacity \in Nat /\ MaxSize \in Nat \ {0} /\ MaxAppends \in Nat

VARIABLES open,         \* open_
          mapped,       \* the mapping, as the process sees it
          disk,         \* the file on the disk
          writeOffset,  \* write_offset_
          lastSeq,      \* last_seq_
          inOrder,      \* the kernel writes slots back in the order of the file
          count,        \* history: records ever appended
          acked,        \* history: records whose Append returned Ok
          kept,         \* history: those of them no power loss took
          synced        \* history: the records when the log was last closed

vars == <<open, mapped, disk, writeOffset, lastSeq, inOrder, count, acked, kept, synced>>

Offsets == 0..Capacity - 1
Record == [id : 1..MaxAppends, seq : 1..MaxAppends, size : 1..MaxSize]
Slot == [rec : Record, part : 1..MaxSize]

ASSUME ZeroAssumption == Zero \notin Slot

-----------------------------------------------------------------------------
(* Reading *)

\* ParseRecordAt: the slots at o hold a whole record.  (A checksum field of 0
\* is taken for the end of the log; records here have another checksum.)
Parses(m, o) ==
  /\ o < Capacity
  /\ m[o] # Zero
  /\ o + m[o].rec.size <= Capacity
  /\ \A j \in 0..m[o].rec.size - 1 : m[o + j] = [rec |-> m[o].rec, part |-> j + 1]

\* Replay: the records from the start of the file up to the first that does
\* not parse.
Replay(m) == LET from[o \in 0..Capacity] ==
                   IF Parses(m, o) THEN <<m[o].rec>> \o from[o + m[o].rec.size]
                   ELSE <<>>
             IN  from[0]

\* Mutant: the last record is taken for the end.
MutFindEnd(m) == LET from[o \in 0..Capacity] ==
                       IF Parses(m, o) /\ Parses(m, o + m[o].rec.size)
                       THEN from[o + m[o].rec.size] ELSE o
                 IN  from[0]
\* FindEndAndLastSeq.
FindEnd(m) == LET from[o \in 0..Capacity] ==
                    IF Parses(m, o) THEN from[o + m[o].rec.size] ELSE o
              IN  from[0]
\* Mutant: the numbering starts over.
MutFindLastSeq(m) == 0
FindLastSeq(m) == IF Replay(m) = <<>> THEN 0 ELSE Replay(m)[Len(Replay(m))].seq

-----------------------------------------------------------------------------
(* Operations *)

Open ==
  /\ ~open
  /\ open' = TRUE
  /\ writeOffset' = FindEnd(mapped)
  /\ lastSeq' = FindLastSeq(mapped)
  /\ UNCHANGED <<inOrder, mapped, disk, count, acked, kept, synced>>

\* The mapping after memcpy copied the first n slots of r.
Copied(r, n) == [o \in Offsets |->
                   IF o \in writeOffset..writeOffset + n - 1
                   THEN [rec |-> r, part |-> o - writeOffset + 1] ELSE mapped[o]]

\* SerializeRecord.
Serialize(size) == [id |-> count + 1, seq |-> lastSeq + 1, size |-> size]

\* Mutant: one slot too many.
MutFits(size) == writeOffset + size <= Capacity + 1
Fits(size) == writeOffset + size <= Capacity

\* Append; when the record does not fit, nothing changes.
Append1(size) ==
  /\ open
  /\ count < MaxAppends
  /\ Fits(size)
  /\ LET r == Serialize(size)
     IN  /\ mapped' = Copied(r, size)
         /\ acked' = Append(acked, r)
         /\ kept' = Append(kept, r)
  /\ writeOffset' = writeOffset + size
  /\ lastSeq' = lastSeq + 1
  /\ count' = count + 1
  /\ UNCHANGED <<inOrder, open, disk, synced>>

\* The process is killed inside Append, after n slots of the record were copied:
\* with n = size the record is whole, and Append has not returned for it.
KillInAppend(size, n) ==
  /\ open
  /\ count < MaxAppends
  /\ Fits(size)
  /\ mapped' = Copied(Serialize(size), n)
  /\ count' = count + 1
  /\ open' = FALSE
  /\ UNCHANGED <<inOrder, disk, writeOffset, lastSeq, acked, kept, synced>>

\* Mutant: the slot before the write offset is left out.
MutSynced == [o \in Offsets |-> IF o < writeOffset - 1 THEN mapped[o] ELSE disk[o]]
\* Sync: msync of everything up to the write offset.
Synced == [o \in Offsets |-> IF o < writeOffset THEN mapped[o] ELSE disk[o]]

\* Close syncs and unmaps.
Close ==
  /\ open
  /\ disk' = Synced
  /\ synced' = Replay(mapped)
  /\ open' = FALSE
  /\ UNCHANGED <<inOrder, mapped, writeOffset, lastSeq, count, acked, kept>>

Kill ==
  /\ open
  /\ open' = FALSE
  /\ UNCHANGED <<inOrder, mapped, disk, writeOffset, lastSeq, count, acked, kept, synced>>

-----------------------------------------------------------------------------
(* The kernel and the power supply *)

WriteBack(o) ==
  /\ PowerMayFail
  /\ disk[o] # mapped[o]
  /\ inOrder => \A q \in Offsets : q < o => disk[q] = mapped[q]
  /\ disk' = [disk EXCEPT ![o] = mapped[o]]
  /\ UNCHANGED <<inOrder, open, mapped, writeOffset, lastSeq, count, acked, kept, synced>>

PowerLoss ==
  /\ PowerMayFail
  /\ mapped' = disk
  /\ kept' = Replay(disk)
  /\ open' = FALSE
  /\ UNCHANGED <<inOrder, disk, writeOffset, lastSeq, count, acked, synced>>

-----------------------------------------------------------------------------
Init ==
  /\ open = FALSE
  /\ mapped = [o \in Offsets |-> Zero] /\ disk = mapped
  /\ writeOffset = 0 /\ lastSeq = 0
  /\ inOrder \in BOOLEAN
  /\ count = 0 /\ acked = <<>> /\ kept = <<>> /\ synced = <<>>

Next == \/ Open \/ Close \/ Kill \/ PowerLoss
        \/ \E size \in 1..MaxSize :
             \/ Append1(size)
             \/ \E n \in 1..size : KillInAppend(size, n)
        \/ \E o \in Offsets : WriteBack(o)

Spec == Init /\ [][Next]_vars

-----------------------------------------------------------------------------
(* Properties *)

\* Every variable has its type; the write offset stays inside the file.
TypeOK ==
  /\ {open, inOrder} \subseteq BOOLEAN
  /\ \A o \in Offsets : {mapped[o], disk[o]} \subseteq Slot \cup {Zero}
  /\ writeOffset \in 0..Capacity
  /\ lastSeq \in 0..MaxAppends
  /\ count \in 0..MaxAppends
  /\ {acked, kept, synced} \subseteq Seq(Record)

\* s is a prefix of t.
StartOf(s, t) == Len(s) <= Len(t) /\ \A i \in 1..Len(s) : s[i] = t[i]

\* Every record of k is in s, once, and in the order of k.
Embedded(k, s) ==
  /\ Range(k) \subseteq Range(s)
  /\ \A i, j \in 1..Len(k) : \A a, b \in 1..Len(s) :
       s[a] = k[i] /\ s[b] = k[j] => (i < j <=> a < b)

\* A record whose Append returned Ok is replayed, whatever happens to the
\* process and the machine ("local leader append is already durable",
\* src/replication.cpp; "durably appended", frontend/src/App.tsx).
AckedIsReplayed == Embedded(acked, Replay(mapped))

\* What a power loss left and what was appended since is replayed, in order:
\* a kill, even inside Append, costs no record that Append returned for.
\* (A record whose Append was killed, or a stale one behind a hole, may come
\* back between them.)
KeptIsReplayed == Embedded(kept, Replay(mapped))

\* What the log held at its last clean Close is never lost again, even when
\* the kernel writes pages back in any order and the power fails.
SyncedIsReplayed == StartOf(synced, Replay(mapped))

\* When pages reach the disk in order, the i-th record of the log has sequence
\* number i, across restarts: the numbers by which ScanPrefix and the compaction
\* pick the newest record.
SeqIsPosition == inOrder => LET r == Replay(mapped) IN \A i \in 1..Len(r) : r[i].seq = i

\* The log keeps the promise of a durable log when pages reach the disk in
\* order: a failure cuts it to a prefix, or leaves the one record that was
\* being appended, and nothing that was lost comes back.
Promise == INSTANCE DurableLog WITH
             Entry <- Record, up <- open, entries <- Replay(mapped), stable <- Len(synced)
IsDurableLog == /\ inOrder => Promise!LogInit
                /\ [][inOrder => Promise!LogNext]_(Promise!logVars)
=============================================================================
