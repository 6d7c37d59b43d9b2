---------------------------- MODULE StorageEngine ----------------------------
(***************************************************************************)
(* One VaultKV node's storage engine (src/storage_engine.cpp), with the    *)
(* memtable, the table files of levels 0 and 1, the compaction and the     *)
(* recovery it drives.  The server serves one request at a time, so one    *)
(* call is in flight; a crash of the process may fall between any two      *)
(* steps of it.  A process crash keeps the mapped log and the files        *)
(* (module Wal models what a loss of power does to the log).               *)
(*                                                                         *)
(* A record is [seq, val]; Absent (seq 0) stands for "no entry".  The      *)
(* record with sequence number i is the i-th record of the log.  File      *)
(* names are numbers in creation order: the code's names start with the    *)
(* time of creation and are sorted when a directory is loaded.             *)
(***************************************************************************)
EXTENDS Integers, Sequences, FiniteSetsExt

CONSTANTS Keys,            \* non-empty keys, ordered
          Values,
          Tombstone,
          WalCapacity,     \* records that fit the log segment
          MemtableBudget,  \* bytes at which Set flushes
          L0Trigger,       \* level-0 tables that start a compaction (4 in the code)
          MaxFiles,        \* bound: table files ever created
          MaxStops,        \* bound: how often the process stops
          Replicated,      \* enable_replication with quorum_size > 1
          FlushApi,        \* FlushMemTable is also called from outside
          DiskMayFail      \* building a table file may fail

ASSUME KeysAssumption == Keys \subseteq Nat /\ IsFiniteSet(Keys)
ASSUME TombstoneAssumption == Tombstone \notin Values
ASSUME BoundsAssumption == /\ WalCapacity \in Nat
                           /\ MemtableBudget \in Nat
                           /\ L0Trigger \in Nat \ {0}
                           /\ MaxFiles \in Nat
                           /\ MaxStops \in Nat
ASSUME SwitchesAssumption == {Replicated, FlushApi, DiskMayFail} \subseteq BOOLEAN

VARIABLES open,      \* open_
          pc,        \* where the call in flight stands
          status,    \* Status of the last call that returned
          wal,       \* the records of the log
          refused,   \* history: log positions refused with NoQuorum
          replayed,  \* history: length of the log when this process opened it
          mem,       \* the memtable's entries
          memBytes,  \* approx_bytes_
          l0, l1,    \* names in l0_tables_ and l1_tables_
          l0Dir, l1Dir,  \* names present in the directories l0 and l1
          file,      \* contents of the table files
          nextFile,  \* the next file name
          stops

log == <<wal, refused, replayed>>
memtable == <<mem, memBytes>>
tables == <<l0, l1>>
disk == <<l0Dir, l1Dir, file, nextFile>>
vars == <<open, pc, status, log, memtable, tables, disk, stops>>

Names == 1..MaxFiles
LogRecord == [key : Keys, val : Values \cup {Tombstone}]
Record == [seq : Nat, val : Values \cup {Tombstone}]
Absent == [seq |-> 0, val |-> Tombstone]
Table == [Keys -> Record]
EmptyTable == [k \in Keys |-> Absent]
NoFile == [state |-> "none", table |-> EmptyTable]
Live(r) == r.val # Tombstone

-----------------------------------------------------------------------------
(* Reading *)

\* ReadRecordAt: a file that is gone or incomplete yields an error, which
\* every caller treats as "not in this table".
Read(n, k) == IF file[n].state = "complete" THEN file[n].table[k] ELSE Absent
Holds(n, k) == Read(n, k).seq > 0

\* Mutant: tables searched from the oldest to the newest.
MutFindOldest(S, k) == LET hits == {n \in S : Holds(n, k)}
                       IN  IF hits = {} THEN Absent ELSE Read(Min(hits), k)
\* The first hit when tables are searched from the newest to the oldest.
FindIn(S, k) == LET hits == {n \in S : Holds(n, k)}
                IN  IF hits = {} THEN Absent ELSE Read(Max(hits), k)

\* Get: memtable, then level 0, then level 1; a tombstone ends the search.
Get(k) == IF mem[k].seq > 0 THEN mem[k]
          ELSE IF FindIn(l0, k).seq > 0 THEN FindIn(l0, k)
          ELSE FindIn(l1, k)

\* The record with the highest sequence number in a non-empty set.
Latest(R) == CHOOSE r \in R : \A q \in R : q.seq <= r.seq

First(S, n) == {k \in S : Cardinality({j \in S : j < k}) < n}

\* SstableReader::ScanPrefix: at most max records, in key order.
TableScan(n, prefix, max) == First({k \in prefix : Holds(n, k)}, max)

\* ScanPrefix over the keys that have the prefix: the latest record of each
\* key among the memtable and what each table returned, live ones only.  The
\* caller gets the values; the records tell where they come from.
ScanPrefix(prefix, limit) ==
  LET lim    == IF limit = 0 THEN 100 ELSE limit
      merged == [k \in prefix |->
                   Latest({mem[k]} \cup {Read(n, k) : n \in
                      {m \in l0 \cup l1 : k \in TableScan(m, prefix, lim * 2)}})]
      out    == First({k \in prefix : Live(merged[k])}, lim)
  IN  [k \in out |-> merged[k]]

-----------------------------------------------------------------------------
(* The memtable *)

\* EstimateBytesForEntry, in units of a tombstone's size.
EntryBytes(r) == IF r.seq = 0 THEN 0 ELSE IF Live(r) THEN 2 ELSE 1

\* Mutant: the replaced entry is not subtracted.
MutBytesOnlyAdded(k, r) == memBytes + EntryBytes(r)
\* MemTable::Set and MemTable::Delete: the entry is overwritten.
MemBytesAfter(k, r) == memBytes - EntryBytes(mem[k]) + EntryBytes(r)
MemAfter(k, r) == [mem EXCEPT ![k] = r]
SizeOf(t) == 2 * Cardinality({k \in Keys : t[k].seq > 0 /\ Live(t[k])})
               + Cardinality({k \in Keys : t[k].seq > 0 /\ ~Live(t[k])})

\* ReplayWal applies every record of the log in order, so the last record of
\* a key stays.
PositionsOf(k) == {i \in 1..Len(wal) : wal[i].key = k}
RecordAt(i) == [seq |-> i, val |-> wal[i].val]
ReplayWal == [k \in Keys |-> IF PositionsOf(k) = {} THEN Absent
                             ELSE RecordAt(Max(PositionsOf(k)))]

-----------------------------------------------------------------------------
(* Writing.  The record of the write in flight is the last of the log. *)

Idle == open /\ pc = "idle"
InFlight == wal[Len(wal)]
Return(s) == pc' = "idle" /\ status' = s

\* Set and Delete up to Wal::Append.
Write(k, v) ==
  /\ Idle
  /\ Len(wal) < WalCapacity
  /\ nextFile < MaxFiles
  /\ wal' = Append(wal, [key |-> k, val |-> v])
  /\ pc' = "appended"
  /\ UNCHANGED <<open, status, refused, replayed, memtable, tables, disk, stops>>

\* Wal::Append fails when the segment is full; the log is never truncated.
AppendFull ==
  /\ Idle
  /\ Len(wal) >= WalCapacity
  /\ Return("io_error")
  /\ UNCHANGED <<open, log, memtable, tables, disk, stops>>

\* Mutant: the memtable is updated before the quorum is known.
MutNoQuorumApplied ==
  /\ pc = "appended"
  /\ Replicated
  /\ refused' = refused \cup {Len(wal)}
  /\ mem' = MemAfter(InFlight.key, RecordAt(Len(wal)))
  /\ memBytes' = MemBytesAfter(InFlight.key, RecordAt(Len(wal)))
  /\ Return("no_quorum")
  /\ UNCHANGED <<open, wal, replayed, tables, disk, stops>>
\* ReplicateToQuorum failed: the record stays in the log, the memtable is not
\* touched.
NoQuorum ==
  /\ pc = "appended"
  /\ Replicated
  /\ refused' = refused \cup {Len(wal)}
  /\ Return("no_quorum")
  /\ UNCHANGED <<open, wal, replayed, memtable, tables, disk, stops>>

\* SstableBuilder::Build creates the file first and completes it last; the
\* records it will hold are already fixed.
Create(t) ==
  /\ file' = [file EXCEPT ![nextFile] = [state |-> "partial", table |-> t]]
  /\ nextFile' = nextFile + 1
Building == nextFile - 1
Complete == file' = [file EXCEPT ![Building].state = "complete"]

\* Mutant: DrainSorted leaves the tombstones out.
MutDrainLive(t) == [k \in Keys |-> IF Live(t[k]) THEN t[k] ELSE Absent]
\* DrainSorted with the tombstones: what a flush writes.
DrainSorted(t) == t

\* FlushMemTable up to the build: the memtable is emptied first.
Drain(t) ==
  /\ Create(DrainSorted(t))
  /\ l0Dir' = l0Dir \cup {nextFile}
  /\ mem' = EmptyTable
  /\ memBytes' = 0
  /\ pc' = "flushing"
  /\ UNCHANGED <<status, l1Dir>>

\* Mutant: Delete flushes as well.
MutFlushAfterAny(v, bytes) == bytes >= MemtableBudget
\* Only Set looks at the budget.
MustFlush(v, bytes) == v # Tombstone /\ bytes >= MemtableBudget

\* The memtable part of Set and Delete.
Apply ==
  /\ pc = "appended"
  /\ LET k == InFlight.key
         r == RecordAt(Len(wal))
     IN  IF MustFlush(r.val, MemBytesAfter(k, r))
         THEN Drain(MemAfter(k, r))
         ELSE /\ mem' = MemAfter(k, r)
              /\ memBytes' = MemBytesAfter(k, r)
              /\ Return("ok")
              /\ UNCHANGED disk
  /\ UNCHANGED <<open, log, tables, stops>>

\* FlushMemTable called from outside.
FlushMemTable ==
  /\ FlushApi
  /\ Idle
  /\ nextFile < MaxFiles
  /\ mem # EmptyTable
  /\ Drain(mem)
  /\ UNCHANGED <<open, log, tables, stops>>

\* Build completes the file and InstallNewL0 opens it.
InstallNewL0 ==
  /\ pc = "flushing"
  /\ Complete
  /\ l0' = l0 \cup {Building}
  /\ pc' = "installed"
  /\ UNCHANGED <<open, status, log, memtable, l1, l0Dir, l1Dir, nextFile, stops>>

\* CompactLevel0ToLevel1: the latest record of each key in level 0, without
\* the tombstones.
CompactLevel0ToLevel1 ==
  [k \in Keys |-> LET r == Latest({Read(n, k) : n \in l0})
                  IN  IF Live(r) THEN r ELSE Absent]

\* Mutant: one table too late.
MutTooFewTables == Cardinality(l0) <= L0Trigger
TooFewTables == Cardinality(l0) < L0Trigger

\* MaybeCompact up to the build of the output.  When no record is left no
\* file is written, and opening it fails.
MaybeCompact ==
  /\ pc = "installed"
  /\ IF TooFewTables
     THEN Return("ok") /\ UNCHANGED disk
     ELSE IF CompactLevel0ToLevel1 = EmptyTable
     THEN Return("io_error") /\ UNCHANGED disk
     ELSE /\ Create(CompactLevel0ToLevel1)
          /\ l1Dir' = l1Dir \cup {nextFile}
          /\ pc' = "compacting"
          /\ UNCHANGED <<status, l0Dir>>
  /\ UNCHANGED <<open, log, memtable, tables, stops>>

\* Mutant: the compacted tables stay in l0_tables_.
MutInstallKeepsL0 ==
  /\ pc = "compacting"
  /\ Complete
  /\ l1' = l1 \cup {Building}
  /\ pc' = "unlinking"
  /\ UNCHANGED <<open, status, log, memtable, l0, l0Dir, l1Dir, nextFile, stops>>
\* The output is complete and takes the place of the level-0 tables.
InstallL1 ==
  /\ pc = "compacting"
  /\ Complete
  /\ l1' = l1 \cup {Building}
  /\ l0' = {}
  /\ pc' = "unlinking"
  /\ UNCHANGED <<open, status, log, memtable, l0Dir, l1Dir, nextFile, stops>>

\* Mutant: a removal that does not succeed is tried again for ever.
MutUnlinkRetries ==
  /\ pc = "unlinking"
  /\ IF {n \in l0Dir : file[n].state = "complete"} = {}
     THEN Return("ok") ELSE UNCHANGED <<pc, status>>
  /\ UNCHANGED <<open, log, memtable, tables, disk, stops>>
\* The files of the compacted tables are removed one by one, oldest first.
Unlink ==
  /\ pc = "unlinking"
  /\ LET rest == {n \in l0Dir : file[n].state = "complete"}
     IN  IF rest = {} THEN Return("ok") /\ UNCHANGED disk
         ELSE LET n == Min(rest)
              IN  /\ l0Dir' = l0Dir \ {n}
                  /\ file' = [file EXCEPT ![n] = NoFile]
                  /\ UNCHANGED <<pc, status, l1Dir, nextFile>>
  /\ UNCHANGED <<open, log, memtable, tables, stops>>

\* Build fails: the file stays behind as it is or could not be created at all;
\* what was drained is gone from memory.
NotCreated ==
  /\ l0Dir' = l0Dir \ {Building}
  /\ l1Dir' = l1Dir \ {Building}
  /\ file' = [file EXCEPT ![Building] = NoFile]
  /\ UNCHANGED nextFile
BuildFails ==
  /\ DiskMayFail
  /\ pc \in {"flushing", "compacting"}
  /\ Return("io_error")
  /\ UNCHANGED disk \/ NotCreated
  /\ UNCHANGED <<open, log, memtable, tables, stops>>

-----------------------------------------------------------------------------
(* Stopping and starting *)

\* What does not outlive the process.
Forget ==
  /\ open' = FALSE
  /\ pc' = "idle"
  /\ mem' = EmptyTable
  /\ memBytes' = 0
  /\ l0' = {} /\ l1' = {}
  /\ UNCHANGED <<status, log, disk>>

\* Close syncs and unmaps the log; the memtable is not flushed.
Close == Idle /\ Forget /\ stops < MaxStops /\ stops' = stops + 1

Crash == open /\ Forget /\ stops < MaxStops /\ stops' = stops + 1

\* Mutant: the reader's status is not looked at.
MutAlwaysOpenable == TRUE
\* Open: the tables found in the directories and every record of the log.
Openable == \A n \in l0Dir \cup l1Dir : file[n].state = "complete"
Open ==
  /\ ~open
  /\ Openable
  /\ open' = TRUE
  /\ l0' = l0Dir
  /\ l1' = l1Dir
  /\ mem' = ReplayWal
  /\ memBytes' = SizeOf(ReplayWal)
  /\ replayed' = Len(wal)
  /\ UNCHANGED <<pc, status, wal, refused, disk, stops>>

\* A table file that is not complete makes the start fail: with an empty file
\* the reader reports Corruption, and with the header Build writes first, whose
\* offsets are 0, it takes the magic number for the size of the index.
OpenFails ==
  /\ ~open
  /\ ~Openable
  /\ status' = "corruption"
  /\ UNCHANGED <<open, pc, log, memtable, tables, disk, stops>>

-----------------------------------------------------------------------------
Init ==
  /\ open = FALSE /\ pc = "idle" /\ status = "ok"
  /\ wal = <<>> /\ refused = {} /\ replayed = 0
  /\ mem = EmptyTable /\ memBytes = 0
  /\ l0 = {} /\ l1 = {} /\ l0Dir = {} /\ l1Dir = {}
  /\ file = [n \in Names |-> NoFile] /\ nextFile = 1
  /\ stops = 0

Set(k, v) == Write(k, v)
Delete(k) == Write(k, Tombstone)

Step == \/ Apply \/ InstallNewL0 \/ MaybeCompact \/ InstallL1 \/ Unlink

Next == \/ \E k \in Keys : Delete(k) \/ \E v \in Values : Set(k, v)
        \/ AppendFull \/ NoQuorum \/ FlushMemTable
        \/ Step \/ BuildFails
        \/ Close \/ Crash \/ Open \/ OpenFails

Spec == Init /\ [][Next]_vars

\* The server thread runs a call to its end, and a stopped node is started
\* again (restart policy of docker-compose.yml, or the gateway's restart).
FairSpec == Spec /\ WF_vars(Step) /\ WF_vars(Open)

-----------------------------------------------------------------------------
(* Properties *)

\* Every variable has its type; the tables in use are files of their directory.
TypeOK ==
  /\ open \in BOOLEAN
  /\ pc \in {"idle", "appended", "flushing", "installed", "compacting", "unlinking"}
  /\ status \in {"ok", "io_error", "no_quorum", "corruption"}
  /\ wal \in Seq(LogRecord)
  /\ refused \subseteq 1..Len(wal)
  /\ replayed \in 0..Len(wal)
  /\ mem \in Table
  /\ memBytes \in Int
  /\ l0 \subseteq l0Dir /\ l1 \subseteq l1Dir
  /\ l0Dir \subseteq Names /\ l1Dir \subseteq Names
  /\ file \in [Names -> [state : {"none", "partial", "complete"}, table : Table]]
  /\ nextFile \in 1..MaxFiles + 1
  /\ stops \in 0..MaxStops

\* The writes to k that took effect: all of the log, except those refused
\* since it was last replayed.
Applied(k) == {i \in PositionsOf(k) : i \notin refused \/ i <= replayed}
LastApplied(k, i) == i \in Applied(k) /\ \A j \in Applied(k) : j <= i

\* A key whose last effective write is a Set reads as that value: no flush,
\* compaction, crash or restart loses it or brings an older value back.
SetNeverLost ==
  Idle => \A k \in Keys : \A i \in 1..Len(wal) :
            LastApplied(k, i) /\ Live(RecordAt(i)) => Get(k) = RecordAt(i)

\* What Get returns is a write to that key that took effect; a write refused
\* with NoQuorum is not seen as long as the process lives.
ReadsAreAppliedWrites ==
  Idle => \A k \in Keys : Get(k).seq > 0 =>
            Get(k).seq \in Applied(k) /\ Get(k) = RecordAt(Get(k).seq)

\* A key whose last effective write is a Delete can only read as present
\* through level 1: the memtable and level 0 never contradict a Delete.
DeleteHoldsAboveL1 ==
  Idle => \A k \in Keys : \A i \in 1..Len(wal) :
            LastApplied(k, i) /\ ~Live(RecordAt(i)) /\ Live(Get(k)) =>
              mem[k] = Absent /\ FindIn(l0, k) = Absent

\* A deleted key is not found (tests/test_storage_engine.cpp).
DeletedStaysDeleted ==
  Idle => \A k \in Keys : \A i \in 1..Len(wal) :
            LastApplied(k, i) /\ ~Live(RecordAt(i)) => ~Live(Get(k))

\* A write refused for lack of a quorum is never read: "If quorum is lost,
\* writes are safely paused" (frontend/src/App.tsx).
RefusedNeverRead == Idle => \A k \in Keys : Get(k).seq \notin refused

\* A scan and a Get of each key agree: searching newest first (Get) finds the
\* record with the highest sequence number (ScanPrefix).
ScanMatchesGet(limit) ==
  Idle => LET live == First({k \in Keys : Live(Get(k))}, limit)
          IN  ScanPrefix(Keys, limit) = [k \in live |-> Get(k)]

\* Two times the limit covers every key: no table's scan is cut short.
FullScanMatchesGet == ScanMatchesGet(Cardinality(Keys))

\* A scan lists only keys that a Get finds, with the value it finds.
ScanShowsOnlyLive(limit) ==
  Idle => LET out == ScanPrefix(Keys, limit)
          IN  \A k \in DOMAIN out : Live(Get(k)) /\ out[k] = Get(k)

\* Tables in use are complete files of their directory: none is unlinked
\* while a reader may open it.
TablesReadable == \A n \in l0 \cup l1 : file[n].state = "complete"

\* The flush that a Set starts always leaves the compaction a live record.
CompactionHasOutput ==
  pc = "installed" => CompactLevel0ToLevel1 # EmptyTable

\* Level 0 grows past the trigger only by what interrupted compactions left.
L0Bounded == Cardinality(l0) <= L0Trigger + stops

\* The memtable's running byte count is the size of its entries.
MemBytesExact == memBytes = SizeOf(mem)

\* Every call returns.
CallsReturn == pc # "idle" ~> pc = "idle"

\* A stopped node is eventually serving again.
NodeComesBack == ~open ~> open
=============================================================================
