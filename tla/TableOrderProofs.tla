-------------------------- MODULE TableOrderProofs --------------------------
(***************************************************************************)
(* More about StorageEngine, for all values of its constants: the search   *)
(* from the newest table to the oldest meets the records of a key by       *)
(* falling sequence numbers, which makes ScanPrefix agree with Get; the    *)
(* memtable's byte count is exact; a compaction has output; and level 0    *)
(* stays bounded.                                                          *)
(***************************************************************************)
EXTENDS StorageEngineProofs

-----------------------------------------------------------------------------
(* The order of the tables *)

\* The complete files of a directory: what Open would read.
L0Files == {n \in l0Dir : file[n].state = "complete"}
L1Files == {n \in l1Dir : file[n].state = "complete"}

\* A newer file of S has no older record of a key.
Ascending(f, S) ==
  \A k \in Keys : \A n, m \in S :
    n < m /\ f[m].table[k].seq > 0 => f[n].table[k].seq <= f[m].table[k].seq
\* A key that A has at all is as new in A as in B.
Covers(f, A, B) ==
  \A k \in Keys : \A m \in B :
    (\E n \in A : f[n].table[k].seq > 0) => \E n \in A : f[m].table[k].seq <= f[n].table[k].seq
\* A key of the table t is as new there as in any file of S.
Tops(t, f, S) ==
  \A k \in Keys : t[k].seq > 0 => \A n \in S : f[n].table[k].seq <= t[k].seq

\* The tables in use are the complete files, until a compaction's input is
\* being removed.
InUse == open => l1 = L1Files /\ (pc # "unlinking" => l0 = L0Files)

\* A flush empties the memtable, and no write gets in before it returns.
Drained == pc \in {"flushing", "installed", "compacting", "unlinking"} => mem = EmptyTable

Order ==
  /\ Ascending(file, L0Files) /\ Ascending(file, L1Files) /\ Covers(file, L0Files, L1Files)
  /\ open => Tops(mem, file, L0Files \cup L1Files)
  /\ pc = "flushing" => Tops(file[Building].table, file, L0Files \cup L1Files)

Ordered == InUse /\ Drained /\ Order

\* The types of what the files hold.
LEMMA TableType ==
  ASSUME TypeOK
  PROVE  /\ L0Files \subseteq Names /\ L1Files \subseteq Names
         /\ \A n \in Names : \A k \in Keys : file[n].table[k] \in Record /\ file[n].table[k].seq \in Nat
         /\ \A k \in Keys : mem[k] \in Record /\ mem[k].seq \in Nat
<1>1. L0Files \subseteq Names /\ L1Files \subseteq Names
  BY DEF TypeOK, L0Files, L1Files
<1>2. ASSUME NEW n \in Names, NEW k \in Keys
      PROVE  file[n].table[k] \in Record /\ file[n].table[k].seq \in Nat
  <2>1. file[n].table \in Table
    BY DEF TypeOK
  <2>2. file[n].table[k] \in Record
    BY <2>1 DEF Table
  <2> QED BY <2>2 DEF Record
<1>3. ASSUME NEW k \in Keys PROVE mem[k] \in Record /\ mem[k].seq \in Nat
  <2>1. mem[k] \in Record
    BY DEF TypeOK, Table
  <2> QED BY <2>1 DEF Record
<1> QED
  BY <1>1, <1>2, <1>3

\* An empty memtable tops everything.
LEMMA EmptyTops ==
  ASSUME NEW f, NEW S
  PROVE  Tops(EmptyTable, f, S)
<1> SUFFICES ASSUME NEW k \in Keys PROVE ~(EmptyTable[k].seq > 0)
  BY DEF Tops
<1>1. EmptyTable[k] = Absent
  BY DEF EmptyTable
<1> QED
  BY <1>1, RecordSeq

\* A step that leaves the complete files alone leaves their order alone.
LEMMA SameFiles ==
  ASSUME L0Files' = L0Files, L1Files' = L1Files,
         \A n \in L0Files \cup L1Files : file'[n].table = file[n].table
  PROVE  /\ Ascending(file, L0Files) => Ascending(file, L0Files)'
         /\ Ascending(file, L1Files) => Ascending(file, L1Files)'
         /\ Covers(file, L0Files, L1Files) => Covers(file, L0Files, L1Files)'
         /\ \A t : Tops(t, file, L0Files \cup L1Files) => Tops(t, file', L0Files' \cup L1Files')
<1> DEFINE A == L0Files
           B == L1Files
<1>0. A' = A /\ B' = B /\ \A n \in A \cup B : file'[n].table = file[n].table
  OBVIOUS
<1>1. Ascending(file, A) => Ascending(file', A)
  BY <1>0 DEF Ascending
<1>2. Ascending(file, B) => Ascending(file', B)
  BY <1>0 DEF Ascending
<1>3. Covers(file, A, B) => Covers(file', A, B)
  BY <1>0 DEF Covers
<1>4. ASSUME NEW t, Tops(t, file, A \cup B) PROVE Tops(t, file', A \cup B)
  BY <1>0, <1>4 DEF Tops
<1> QED
  BY Zenon, <1>0, <1>1, <1>2, <1>3, <1>4

\* A call that returns or moves on without touching the complete files, the
\* memtable or the tables in use.
LEMMA QuietOrder ==
  ASSUME Inv, Ordered, UNCHANGED <<open, mem, l0, l1>>,
         L0Files' = L0Files, L1Files' = L1Files,
         \A n \in L0Files \cup L1Files : file'[n].table = file[n].table,
         pc # "unlinking", pc' \in {"idle", "appended", "compacting"},
         pc' = "compacting" => pc = "installed"
  PROVE  Ordered'
<1>1. InUse'
  BY DEF Ordered, InUse
<1>2. Drained'
  <2>1. EmptyTable' = EmptyTable
    BY DEF EmptyTable, Absent
  <2> QED BY <2>1 DEF Ordered, Drained
<1>3. Order'
  <2>1. Ascending(file, L0Files)' /\ Ascending(file, L1Files)' /\ Covers(file, L0Files, L1Files)'
    BY SameFiles DEF Ordered, Order
  <2>2. open' => Tops(mem', file', L0Files' \cup L1Files')
    BY Zenon, SameFiles DEF Ordered, Order
  <2> QED BY <2>1, <2>2 DEF Order
<1> QED BY <1>1, <1>2, <1>3 DEF Ordered

\* A step that changes nothing of this.
LEMMA StutterOrder ==
  ASSUME Ordered, UNCHANGED <<open, pc, memtable, tables, disk>>
  PROVE  Ordered'
<1>1. UNCHANGED <<open, pc, mem, l0, l1, l0Dir, l1Dir, file, nextFile>>
  BY DEF memtable, tables, disk
<1>2. L0Files' = L0Files /\ L1Files' = L1Files /\ Building' = Building /\ EmptyTable' = EmptyTable
  BY <1>1 DEF L0Files, L1Files, Building, EmptyTable, Absent
<1>3. InUse' /\ Drained'
  BY <1>1, <1>2 DEF Ordered, InUse, Drained
<1>4. Order'
  <2>1. Ascending(file, L0Files)' /\ Ascending(file, L1Files)' /\ Covers(file, L0Files, L1Files)'
    BY <1>1, <1>2, SameFiles DEF Ordered, Order
  <2>2. \A t : Tops(t, file, L0Files \cup L1Files) => Tops(t, file', L0Files' \cup L1Files')
    BY <1>1, <1>2, SameFiles
  <2> QED BY <1>1, <1>2, <2>1, <2>2 DEF Ordered, Order
<1> QED BY <1>3, <1>4 DEF Ordered

\* Every file holds records of the log only.
LEMMA FilesFromLog ==
  ASSUME Inv, NEW n \in Names, NEW k \in Keys
  PROVE  /\ file[n].table[k].seq \in 0..Len(wal)
         /\ file[n].table[k].seq = 0 => file[n].table[k] = Absent
         /\ file[n].table[k].seq # 0 => file[n].table[k] = RecordAt(file[n].table[k].seq)
         /\ file[n].table[k].seq # 0 => file[n].table[k].seq \in Done(k)
<1>1. FromLog(k, file[n].table[k])
  BY DEF Inv, Provenance
<1>2. Absent.seq = 0
  BY RecordSeq
<1> QED
  BY Zenon, <1>1, <1>2, StoredSeq DEF Inv, FromLog

\* A file being built is not complete, and a new one is none of the old.
LEMMA CreatedFiles ==
  ASSUME Inv, NEW t \in Table, nextFile <= MaxFiles, Create(t),
         l0Dir' \in {l0Dir, l0Dir \cup {nextFile}}, l1Dir' \in {l1Dir, l1Dir \cup {nextFile}}
  PROVE  /\ L0Files' = L0Files /\ L1Files' = L1Files
         /\ \A n \in L0Files \cup L1Files : file'[n].table = file[n].table
         /\ Building' = nextFile /\ file'[nextFile].table = t
<1>1. nextFile \in Names /\ nextFile \in Int
  BY BoundsAssumption DEF Inv, TypeOK, Names
<1>2. \A n \in l0Dir \cup l1Dir : n \in Names /\ n # nextFile
  BY DEF Inv, Shape, TypeOK, Names
<1>3. file' = [file EXCEPT ![nextFile] = [state |-> "partial", table |-> t]] /\ DOMAIN file = Names
  BY DEF Create, Inv, TypeOK
<1>4. file'[nextFile].state = "partial" /\ file'[nextFile].table = t
  BY <1>1, <1>3
<1>5. \A n \in l0Dir \cup l1Dir : file'[n] = file[n]
  BY <1>2, <1>3
<1>6. L0Files' = L0Files /\ L1Files' = L1Files
  BY Zenon, <1>4, <1>5 DEF L0Files, L1Files
<1>7. \A n \in L0Files \cup L1Files : file'[n].table = file[n].table
  BY <1>5 DEF L0Files, L1Files
<1>8. Building' = nextFile
  BY <1>1 DEF Create, Building
<1> QED BY Zenon, <1>4, <1>6, <1>7, <1>8

\* What tops the complete files is drained into a file that tops them.
LEMMA DrainOrder ==
  ASSUME Inv, Ordered, open, pc # "unlinking", NEW t \in Table, Drain(t), nextFile < MaxFiles,
         UNCHANGED <<open, tables>>, Tops(t, file, L0Files \cup L1Files)
  PROVE  Ordered'
<1>1. Create(t) /\ l0Dir' = l0Dir \cup {nextFile} /\ l1Dir' = l1Dir /\ pc' = "flushing" /\ mem' = EmptyTable
  BY DEF Drain, DrainSorted
<1>2. nextFile <= MaxFiles
  BY BoundsAssumption DEF Inv, TypeOK
<1>3. /\ L0Files' = L0Files /\ L1Files' = L1Files
      /\ \A n \in L0Files \cup L1Files : file'[n].table = file[n].table
      /\ Building' = nextFile /\ file'[nextFile].table = t
  BY Zenon, <1>1, <1>2, CreatedFiles
<1>4. EmptyTable' = EmptyTable
  BY Zenon DEF EmptyTable, Absent
<1>5. InUse' /\ Drained'
  BY Zenon, <1>1, <1>3, <1>4 DEF Ordered, InUse, Drained, tables
<1>6. Ascending(file, L0Files)' /\ Ascending(file, L1Files)' /\ Covers(file, L0Files, L1Files)'
  BY Zenon, <1>3, SameFiles DEF Ordered, Order
<1>7. Tops(t, file', L0Files' \cup L1Files')
  BY Zenon, <1>3, SameFiles
<1>8. Tops(mem', file', L0Files' \cup L1Files')
  BY Zenon, <1>1, EmptyTops
<1> QED
  BY Zenon, <1>3, <1>5, <1>6, <1>7, <1>8 DEF Ordered, Order

\* The record of a write is newer than every stored one.
LEMMA ApplyOrder ==
  ASSUME Inv, Ordered, Apply
  PROVE  Ordered'
<1> DEFINE k0 == InFlight.key
           r == RecordAt(Len(wal))
           t == MemAfter(k0, r)
           S == L0Files \cup L1Files
<1>1. pc = "appended" /\ open /\ nextFile < MaxFiles /\ UNCHANGED <<open, tables>> /\ mem \in Table
  BY DEF Apply, Inv, Shape, TypeOK
<1>2. t \in Table /\ k0 \in Keys
  BY Zenon, ApplyDone DEF LogRecord
<1>3. Tops(t, file, S)
  <2> SUFFICES ASSUME NEW k \in Keys, t[k].seq > 0, NEW n \in S
               PROVE  file[n].table[k].seq <= t[k].seq
    BY DEF Tops
  <2>0. n \in Names
    BY Zenon, TableType DEF Inv
  <2>1. file[n].table[k].seq \in 0..Len(wal) /\ Len(wal) \in Nat
    BY Zenon, <2>0, FilesFromLog, WalType DEF Inv
  <2>2. CASE k = k0
    <3>1. t[k] = r
      BY Zenon, <1>1, <1>2, <2>2 DEF MemAfter, Table
    <3>2. r.seq = Len(wal)
      BY Zenon, RecordSeq
    <3> QED BY <2>1, <3>1, <3>2
  <2>3. CASE k # k0
    <3>1. t[k] = mem[k]
      BY Zenon, <1>1, <1>2, <2>3 DEF MemAfter, Table
    <3>2. Tops(mem, file, S)
      BY <1>1 DEF Ordered, Order
    <3> HIDE DEF t, S
    <3> QED BY Zenon, <3>1, <3>2 DEF Tops
  <2> QED BY Zenon, <2>2, <2>3
<1>4. CASE MustFlush(r.val, MemBytesAfter(k0, r))
  <2>1. Drain(t)
    BY Zenon, <1>4 DEF Apply
  <2> HIDE DEF t
  <2> QED BY Zenon, <1>1, <1>2, <1>3, <2>1, DrainOrder
<1>5. CASE ~MustFlush(r.val, MemBytesAfter(k0, r))
  <2>1. mem' = t /\ pc' = "idle" /\ UNCHANGED disk
    BY <1>5 DEF Apply, Return
  <2>2. UNCHANGED <<l0Dir, l1Dir, file>> /\ L0Files' = L0Files /\ L1Files' = L1Files
    BY <2>1 DEF disk, L0Files, L1Files
  <2> HIDE DEF t
  <2>3. InUse' /\ Drained'
    BY Zenon, <1>1, <2>1, <2>2 DEF Ordered, InUse, Drained, tables
  <2>4. Ascending(file, L0Files)' /\ Ascending(file, L1Files)' /\ Covers(file, L0Files, L1Files)'
    BY Zenon, <2>2, SameFiles DEF Ordered, Order
  <2>5. Tops(mem', file', L0Files' \cup L1Files')
    BY Zenon, <1>3, <2>1, <2>2
  <2> QED BY Zenon, <2>1, <2>3, <2>4, <2>5 DEF Ordered, Order
<1> QED BY Zenon, <1>4, <1>5

\* The finished level-0 file is the newest of its directory and tops all.
LEMMA InstallNewL0Order ==
  ASSUME Inv, Ordered, InstallNewL0
  PROVE  Ordered'
<1> DEFINE b == Building
           A == L0Files
           B == L1Files
<1>1. pc = "flushing" /\ pc' = "installed" /\ open /\ b \in l0Dir /\ b \in Names /\ b \notin l1Dir
      /\ file[b].state = "partial" /\ mem' = mem /\ l0' = l0 \cup {b} /\ l1' = l1 /\ l0Dir' = l0Dir
      /\ l1Dir' = l1Dir /\ open' = open
  BY Zenon DEF InstallNewL0, Inv, Shape, TypeOK, memtable
<1>2. /\ \A n \in Names : file'[n].table = file[n].table
      /\ \A n \in Names : file'[n].state = IF n = b THEN "complete" ELSE file[n].state
  BY Zenon, <1>1, CompleteFile DEF Inv, InstallNewL0
<1>3. l0Dir \subseteq Names /\ l1Dir \subseteq Names
  BY DEF Inv, TypeOK
<1>4. L0Files' = A \cup {b} /\ L1Files' = B /\ b \notin A
  BY Zenon, <1>1, <1>2, <1>3 DEF L0Files, L1Files
<1>5. \A n \in A : n < b /\ n \in Int /\ b \in Int
  <2>1. \A n \in l0Dir : n < nextFile /\ n \in Int
    BY <1>3 DEF Inv, Shape, Names
  <2>2. b \in Int /\ b = nextFile - 1 /\ nextFile \in Int
    BY DEF Building, Inv, TypeOK
  <2>3. A \subseteq l0Dir /\ b \notin A
    BY Zenon, <1>4 DEF L0Files
  <2> HIDE DEF A, b
  <2> QED BY <2>1, <2>2, <2>3
<1>6. A \subseteq Names /\ B \subseteq Names /\ \A n \in Names : \A k \in Keys : file[n].table[k].seq \in Nat
  BY Zenon, TableType DEF Inv
<1>7. /\ Ascending(file, A) /\ Ascending(file, B) /\ Covers(file, A, B)
      /\ Tops(mem, file, A \cup B) /\ Tops(file[b].table, file, A \cup B)
  BY Zenon, <1>1 DEF Ordered, Order
<1>8. EmptyTable' = EmptyTable /\ mem = EmptyTable
  BY Zenon, <1>1 DEF EmptyTable, Absent, Ordered, Drained
<1>9. InUse' /\ Drained'
  BY Zenon, <1>1, <1>4, <1>8 DEF Ordered, InUse, Drained
<1> HIDE DEF A, B, b
<1>10. Ascending(file', A \cup {b})
  BY <1>1, <1>2, <1>5, <1>6, <1>7 DEF Ascending, Tops
<1>11. Ascending(file', B)
  BY Zenon, <1>2, <1>6, <1>7 DEF Ascending
<1>12. Covers(file', A \cup {b}, B)
  <2> SUFFICES ASSUME NEW k \in Keys, NEW m \in B, NEW n \in A \cup {b}, file'[n].table[k].seq > 0
               PROVE  \E x \in A \cup {b} : file'[m].table[k].seq <= file'[x].table[k].seq
    BY Zenon DEF Covers
  <2>1. CASE n = b
    BY Zenon, <1>1, <1>2, <1>6, <1>7, <2>1 DEF Tops
  <2>2. CASE n \in A
    BY Zenon, <1>2, <1>6, <1>7, <2>2 DEF Covers
  <2> QED BY Zenon, <2>1, <2>2
<1>13. Tops(mem', file', L0Files' \cup L1Files')
  BY Zenon, <1>1, <1>8, EmptyTops
<1>14. Order'
  BY Zenon, <1>1, <1>4, <1>10, <1>11, <1>12, <1>13 DEF Order
<1> QED BY Zenon, <1>9, <1>14 DEF Ordered

\* A record of the compaction's output is the newest of its key in level 0.
LEMMA CompactionSeq ==
  ASSUME Inv, l0 # {}, NEW k \in Keys
  PROVE  \/ CompactLevel0ToLevel1[k] = Absent
         \/ /\ \E n \in l0 : CompactLevel0ToLevel1[k] = file[n].table[k]
            /\ \A n \in l0 : file[n].table[k].seq <= CompactLevel0ToLevel1[k].seq
<1> DEFINE R == {Read(n, k) : n \in l0}
<1>1. \A n \in l0 : Read(n, k) = file[n].table[k] /\ n \in Names
  BY Zenon DEF Inv, TypeOK, Shape, TablesReadable, Read
<1>2. \A r \in R : r.seq \in 0..Len(wal)
  BY <1>1, FilesFromLog
<1>3. R # {} /\ Len(wal) \in Nat
  BY DEF Inv, TypeOK
<1>4. Latest(R) \in R /\ \A q \in R : q.seq <= Latest(R).seq
  <2> HIDE DEF R
  <2> QED BY Zenon, <1>2, <1>3, LatestOf
<1>5. CompactLevel0ToLevel1[k] = Latest(R) \/ CompactLevel0ToLevel1[k] = Absent
  BY DEF CompactLevel0ToLevel1
<1>6. PICK n \in l0 : Latest(R) = Read(n, k)
  BY Zenon, <1>4
<1>7. \A m \in l0 : Read(m, k).seq <= Latest(R).seq
  BY <1>4
<1> HIDE DEF R
<1> QED BY Zenon, <1>1, <1>5, <1>6, <1>7

\* The output of a compaction is newer than level 1 and no newer than its input.
LEMMA InstallL1Order ==
  ASSUME Inv, Ordered, InstallL1
  PROVE  Ordered'
<1> DEFINE b == Building
           A == L0Files
           B == L1Files
<1>1. pc = "compacting" /\ pc' = "unlinking" /\ open /\ b \in l1Dir /\ b \in Names /\ b \notin l0Dir
      /\ file[b].state = "partial" /\ mem' = mem /\ l1' = l1 \cup {b} /\ l0Dir' = l0Dir
      /\ l1Dir' = l1Dir /\ open' = open /\ l0 # {}
  BY Zenon DEF InstallL1, Inv, Shape, TypeOK, memtable
<1>2. /\ \A n \in Names : file'[n].table = file[n].table
      /\ \A n \in Names : file'[n].state = IF n = b THEN "complete" ELSE file[n].state
  BY Zenon, <1>1, CompleteFile DEF Inv, InstallL1
<1>3. l0Dir \subseteq Names /\ l1Dir \subseteq Names
  BY Zenon DEF Inv, TypeOK
<1>4. L0Files' = A /\ L1Files' = B \cup {b} /\ b \notin B /\ l0 = A /\ l1 = B
  BY <1>1, <1>2, <1>3 DEF L0Files, L1Files, Ordered, InUse
<1>5. \A n \in B : n < b /\ n \in Int /\ b \in Int
  <2>1. \A n \in l1Dir : n < nextFile /\ n \in Int
    BY <1>3 DEF Inv, Shape, Names
  <2>2. b \in Int /\ b = nextFile - 1 /\ nextFile \in Int
    BY DEF Building, Inv, TypeOK
  <2>3. B \subseteq l1Dir /\ b \notin B
    BY Zenon, <1>4 DEF L1Files
  <2> HIDE DEF B, b
  <2> QED BY <2>1, <2>2, <2>3
<1>6. A \subseteq Names /\ B \subseteq Names /\ \A n \in Names : \A k \in Keys : file[n].table[k].seq \in Nat
  BY TableType DEF Inv
<1>7. Ascending(file, A) /\ Ascending(file, B) /\ Covers(file, A, B)
  BY DEF Ordered, Order
<1>8. EmptyTable' = EmptyTable /\ mem = EmptyTable
  BY Zenon, <1>1 DEF EmptyTable, Absent, Ordered, Drained
<1>9. InUse' /\ Drained'
  BY Zenon, <1>1, <1>4, <1>8 DEF InUse, Drained
<1>10. ASSUME NEW k \in Keys
       PROVE  \/ file[b].table[k].seq = 0
              \/ /\ \E n \in A : file[b].table[k].seq = file[n].table[k].seq
                 /\ \A n \in A : file[n].table[k].seq <= file[b].table[k].seq
  <2>1. file[b].table = CompactLevel0ToLevel1
    BY Zenon, <1>1 DEF Inv, Shape
  <2> QED BY Zenon, <1>1, <1>4, <2>1, CompactionSeq, RecordSeq
<1> HIDE DEF A, B, b
<1>11. Ascending(file', A)
  BY Zenon, <1>2, <1>6, <1>7 DEF Ascending
<1>12. ASSUME NEW k \in Keys, NEW n \in B, file[b].table[k].seq > 0
       PROVE  file[n].table[k].seq <= file[b].table[k].seq
  <2>1. PICK x \in A : file[b].table[k].seq = file[x].table[k].seq
    BY <1>10, <1>12
  <2>2. PICK y \in A : file[n].table[k].seq <= file[y].table[k].seq
    BY Zenon, <1>7, <1>12, <2>1 DEF Covers
  <2>3. file[y].table[k].seq <= file[b].table[k].seq
    BY <1>10, <1>12
  <2>4. file[n].table[k].seq \in Nat /\ file[y].table[k].seq \in Nat /\ file[b].table[k].seq \in Nat
    BY Zenon, <1>1, <1>6
  <2> QED BY <2>2, <2>3, <2>4
<1>13. Ascending(file', B \cup {b})
  BY <1>1, <1>2, <1>5, <1>6, <1>7, <1>12 DEF Ascending
<1>14. Covers(file', A, B \cup {b})
  <2> SUFFICES ASSUME NEW k \in Keys, NEW m \in B \cup {b}, NEW n \in A, file'[n].table[k].seq > 0
               PROVE  \E x \in A : file'[m].table[k].seq <= file'[x].table[k].seq
    BY Zenon DEF Covers
  <2>1. CASE m = b
    BY <1>1, <1>2, <1>6, <1>10, <2>1
  <2>2. CASE m \in B
    BY Zenon, <1>2, <1>6, <1>7, <2>2 DEF Covers
  <2> QED BY Zenon, <2>1, <2>2
<1>15. Tops(mem', file', L0Files' \cup L1Files')
  BY Zenon, <1>1, <1>8, EmptyTops
<1>16. Order'
  BY Zenon, <1>1, <1>4, <1>11, <1>13, <1>14, <1>15 DEF Order
<1> QED BY <1>9, <1>16 DEF Ordered

\* Removing the oldest file of level 0 first never leaves an older record of
\* a key above level 1 than in it.
LEMMA UnlinkOrder ==
  ASSUME Inv, Ordered, Unlink
  PROVE  Ordered'
<1> DEFINE A == L0Files
           B == L1Files
<1>1. pc = "unlinking" /\ open /\ l0 = {} /\ UNCHANGED <<open, memtable, tables>>
      /\ UNCHANGED <<mem, l0, l1>> /\ mem = EmptyTable /\ EmptyTable' = EmptyTable
  BY Zenon DEF Unlink, Inv, Shape, memtable, tables, Ordered, Drained, EmptyTable, Absent
<1>2. Ascending(file, A) /\ Ascending(file, B) /\ Covers(file, A, B) /\ l1 = B
  BY <1>1 DEF Ordered, Order, InUse
<1>3. CASE A = {}
  <2>1. pc' = "idle" /\ UNCHANGED disk
    BY Zenon, <1>3 DEF Unlink, Return, L0Files
  <2>2. UNCHANGED <<l0Dir, l1Dir, file>> /\ L0Files' = A /\ L1Files' = B
    BY Zenon, <2>1 DEF disk, L0Files, L1Files
  <2>3. InUse' /\ Drained'
    BY Zenon, <1>1, <1>2, <1>3, <2>1, <2>2 DEF InUse, Drained
  <2>4. Tops(mem', file', L0Files' \cup L1Files')
    BY Zenon, <1>1, EmptyTops
  <2>5. Order'
    BY Zenon, <1>2, <2>1, <2>2, <2>4 DEF Order
  <2> QED BY Zenon, <2>3, <2>5 DEF Ordered
<1>4. CASE A # {}
  <2> DEFINE n0 == Min(A)
  <2>1. /\ l0Dir' = l0Dir \ {n0} /\ file' = [file EXCEPT ![n0] = NoFile]
        /\ pc' = pc /\ l1Dir' = l1Dir
    BY Zenon, <1>4 DEF Unlink, L0Files
  <2>2. A \subseteq Names /\ B \subseteq Names /\ A \cap B = {} /\ A \in SUBSET Nat
        /\ \A n \in Names : \A k \in Keys : file[n].table[k].seq \in Nat
    <3>1. A \subseteq Names /\ B \subseteq Names /\ \A n \in Names : \A k \in Keys : file[n].table[k].seq \in Nat
      BY Zenon, TableType DEF Inv
    <3>2. A \cap B = {}
      BY DEF L0Files, L1Files, Inv, Shape
    <3>3. \A n \in Names : n \in Nat
      BY BoundsAssumption DEF Names
    <3> HIDE DEF A, B
    <3> QED BY Zenon, <3>1, <3>2, <3>3
  <2>3. n0 \in A /\ \A y \in A : n0 <= y
    <3> HIDE DEF A
    <3>1. \E x \in A : \A y \in A : x <= y
      BY Zenon, <1>4, <2>2, MinExists
    <3> QED BY Zenon, <3>1 DEF Min
  <2>4. \A n \in Names : n # n0 => file'[n] = file[n]
    BY Zenon, <2>1 DEF Inv, TypeOK
  <2>5. L0Files' = A \ {n0} /\ L1Files' = B
    <3> HIDE DEF n0
    <3>1. l0Dir \subseteq Names /\ l1Dir \subseteq Names /\ l0Dir \cap l1Dir = {} /\ n0 \in l0Dir
      BY Zenon, <2>3 DEF Inv, TypeOK, Shape, L0Files
    <3> QED BY Zenon, <2>1, <2>4, <3>1 DEF L0Files, L1Files
  <2>6. \A n \in (A \ {n0}) \cup B : file'[n].table = file[n].table
    <3> HIDE DEF A, B, n0
    <3> QED BY Zenon, <2>2, <2>3, <2>4
  <2>7. InUse' /\ Drained'
    BY <1>1, <1>2, <2>1, <2>5 DEF InUse, Drained
  <2> HIDE DEF A, B, n0
  <2>8. Ascending(file', A \ {n0})
    BY <1>2, <2>6 DEF Ascending
  <2>9. Ascending(file', B)
    BY <1>2, <2>6 DEF Ascending
  <2>10. Covers(file', A \ {n0}, B)
    <3> SUFFICES ASSUME NEW k \in Keys, NEW m \in B, NEW n \in A \ {n0}, file'[n].table[k].seq > 0
                 PROVE  \E x \in A \ {n0} : file'[m].table[k].seq <= file'[x].table[k].seq
      BY Zenon DEF Covers
    <3>1. file'[n].table = file[n].table /\ file'[m].table = file[m].table
      BY Zenon, <2>6
    <3>2. PICK x \in A : file[m].table[k].seq <= file[x].table[k].seq
      BY Zenon, <1>2, <3>1 DEF Covers
    <3>3. CASE x # n0
      BY Zenon, <2>6, <3>1, <3>2, <3>3
    <3>4. CASE x = n0
      <4>1. n0 < n
        BY <2>2, <2>3
      <4>2. file[n0].table[k].seq <= file[n].table[k].seq
        BY Zenon, <1>2, <2>3, <3>1, <4>1 DEF Ascending
      <4>3. file[m].table[k].seq \in Nat /\ file[n0].table[k].seq \in Nat /\ file[n].table[k].seq \in Nat
        BY Zenon, <2>2, <2>3
      <4>4. file[m].table[k].seq <= file[n].table[k].seq
        BY <3>2, <3>4, <4>2, <4>3
      <4> QED BY Zenon, <3>1, <4>4
    <3> QED BY Zenon, <3>3, <3>4
  <2>11. Tops(mem', file', L0Files' \cup L1Files')
    BY Zenon, <1>1, EmptyTops
  <2>12. Order'
    BY Zenon, <1>1, <2>1, <2>5, <2>8, <2>9, <2>10, <2>11 DEF Order
  <2> QED BY Zenon, <2>7, <2>12 DEF Ordered
<1> QED BY Zenon, <1>3, <1>4

\* Starting a compaction, or deciding against it.
LEMMA MaybeCompactOrder ==
  ASSUME Inv, Ordered, MaybeCompact
  PROVE  Ordered'
<1>1. pc = "installed" /\ UNCHANGED <<open, mem, l0, l1>> /\ l0 # {} /\ nextFile <= MaxFiles
  BY DEF MaybeCompact, Inv, Shape, memtable, tables
<1>2. CASE pc' = "idle" /\ UNCHANGED disk
  <2>1. UNCHANGED <<l0Dir, l1Dir, file>>
    BY Zenon, <1>2 DEF disk
  <2>2. L0Files' = L0Files /\ L1Files' = L1Files
    BY Zenon, <2>1 DEF L0Files, L1Files
  <2> QED BY Zenon, <1>1, <1>2, <2>1, <2>2, QuietOrder
<1>3. CASE /\ Create(CompactLevel0ToLevel1) /\ l1Dir' = l1Dir \cup {nextFile}
           /\ pc' = "compacting" /\ l0Dir' = l0Dir
  <2>1. CompactLevel0ToLevel1 \in Table
    BY Zenon, <1>1, CompactionType
  <2>2. /\ L0Files' = L0Files /\ L1Files' = L1Files
        /\ \A n \in L0Files \cup L1Files : file'[n].table = file[n].table
    BY Zenon, <1>1, <1>3, <2>1, CreatedFiles
  <2> QED BY Zenon, <1>1, <1>3, <2>2, QuietOrder
<1> QED BY Zenon, <1>2, <1>3 DEF MaybeCompact, Return

\* The file of a failed build was never complete.
LEMMA BuildFailsOrder ==
  ASSUME Inv, Ordered, BuildFails
  PROVE  Ordered'
<1>1. pc' = "idle" /\ pc \in {"flushing", "compacting"} /\ UNCHANGED <<open, mem, l0, l1>>
  BY Zenon DEF BuildFails, Return, memtable, tables
<1>2. CASE UNCHANGED disk
  <2>1. UNCHANGED <<l0Dir, l1Dir, file>>
    BY Zenon, <1>2 DEF disk
  <2>2. L0Files' = L0Files /\ L1Files' = L1Files
    BY Zenon, <2>1 DEF L0Files, L1Files
  <2> QED BY Zenon, <1>1, <2>1, <2>2, QuietOrder
<1>3. CASE NotCreated
  <2>1. Building \in Names /\ file[Building].state = "partial"
    BY Zenon, <1>1 DEF Inv, Shape, TypeOK
  <2>2. /\ l0Dir' = l0Dir \ {Building} /\ l1Dir' = l1Dir \ {Building}
        /\ \A n \in Names : n # Building => file'[n] = file[n]
    BY Zenon, <1>3 DEF NotCreated, Inv, TypeOK
  <2>3. l0Dir \subseteq Names /\ l1Dir \subseteq Names
    BY Zenon DEF Inv, TypeOK
  <2>4. L0Files' = L0Files /\ L1Files' = L1Files
    BY Zenon, <2>1, <2>2, <2>3 DEF L0Files, L1Files
  <2>5. \A n \in L0Files \cup L1Files : file'[n].table = file[n].table
    BY Zenon, <2>1, <2>2, <2>3 DEF L0Files, L1Files
  <2> QED BY Zenon, <1>1, <2>4, <2>5, QuietOrder
<1> QED BY Zenon, <1>2, <1>3 DEF BuildFails

\* A stop leaves the files as they are.
LEMMA ForgetOrder ==
  ASSUME Inv, Ordered, Forget
  PROVE  Ordered'
<1>1. ~open' /\ pc' = "idle" /\ UNCHANGED <<l0Dir, l1Dir, file>>
  BY DEF Forget, disk
<1>2. L0Files' = L0Files /\ L1Files' = L1Files
  BY Zenon, <1>1 DEF L0Files, L1Files
<1>3. Ascending(file, L0Files)' /\ Ascending(file, L1Files)' /\ Covers(file, L0Files, L1Files)'
  BY Zenon, <1>1, <1>2, SameFiles DEF Ordered, Order
<1>4. InUse' /\ Drained'
  BY Zenon, <1>1 DEF InUse, Drained
<1>5. Order'
  BY Zenon, <1>1, <1>3 DEF Order
<1> QED BY Zenon, <1>4, <1>5 DEF Ordered

\* The replayed log is at least as new as any file.
LEMMA OpenOrder ==
  ASSUME Inv, Ordered, Open
  PROVE  Ordered'
<1>1. open' /\ pc = "idle" /\ pc' = "idle" /\ UNCHANGED <<l0Dir, l1Dir, file>> /\ mem' = ReplayWal
      /\ l0' = l0Dir /\ l1' = l1Dir /\ Openable
  BY Zenon DEF Open, disk, Inv, Shape
<1>2. L0Files' = L0Files /\ L1Files' = L1Files /\ L0Files = l0Dir /\ L1Files = l1Dir
  BY Zenon, <1>1 DEF L0Files, L1Files, Openable
<1>3. Ascending(file, L0Files)' /\ Ascending(file, L1Files)' /\ Covers(file, L0Files, L1Files)'
  BY Zenon, <1>1, <1>2, SameFiles DEF Ordered, Order
<1>4. InUse' /\ Drained'
  BY Zenon, <1>1, <1>2 DEF InUse, Drained
<1>5. ASSUME NEW k \in Keys, NEW n \in Names PROVE file[n].table[k].seq <= ReplayWal[k].seq
  <2> DEFINE P == PositionsOf(k)
             i == file[n].table[k].seq
  <2>1. i \in 0..Len(wal) /\ (i # 0 => i \in P) /\ Len(wal) \in Nat
    BY Zenon, FilesFromLog, WalType DEF Inv, Done, Applied
  <2>2. CASE P = {}
    <3>1. i = 0
      BY Zenon, <2>1, <2>2
    <3>2. ReplayWal[k] = Absent
      BY Zenon, <2>2 DEF ReplayWal
    <3> QED BY <3>1, <3>2, RecordSeq
  <2>3. CASE P # {}
    <3>1. P \in SUBSET (1..Len(wal))
      BY Zenon DEF PositionsOf
    <3>2. Max(P) \in P /\ \A y \in P : y <= Max(P)
      <4> HIDE DEF P
      <4> QED BY Zenon, <2>1, <2>3, <3>1, MaxOf
    <3>3. ReplayWal[k].seq = Max(P)
      BY <3>2, ReplayWalLast DEF Inv
    <3>4. Max(P) \in Nat
      BY <2>1, <3>1, <3>2
    <3> HIDE DEF P, i
    <3>5. i <= Max(P)
      BY <2>1, <3>2, <3>4
    <3> QED BY Zenon, <3>3, <3>5 DEF i
  <2> QED BY Zenon, <2>2, <2>3
<1>6. L0Files \cup L1Files \subseteq Names
  BY Zenon, TableType DEF Inv
<1>7. Tops(ReplayWal, file, L0Files \cup L1Files)
  BY Zenon, <1>5, <1>6 DEF Tops
<1>8. Order'
  BY Zenon, <1>1, <1>2, <1>3, <1>7 DEF Order
<1> QED BY Zenon, <1>4, <1>8 DEF Ordered

\* The empty data directory is in order.
LEMMA InitOrder == Init => Ordered
<1> SUFFICES ASSUME Init PROVE Ordered
  BY Zenon
<1>1. L0Files = {} /\ L1Files = {} /\ ~open /\ pc = "idle"
  BY Zenon DEF Init, L0Files, L1Files
<1> QED
  BY <1>1 DEF Ordered, InUse, Drained, Order, Ascending, Covers

\* Every step keeps the tables in order.
LEMMA NextOrder == Inv /\ Ordered /\ [Next]_vars => Ordered'
<1> SUFFICES ASSUME Inv, Ordered, [Next]_vars PROVE Ordered'
  OBVIOUS
<1>1. ASSUME pc # "unlinking", pc' \in {"idle", "appended"}, UNCHANGED <<open, memtable, tables, disk>>
      PROVE  Ordered'
  <2>1. UNCHANGED <<mem, l0, l1, l0Dir, l1Dir, file>>
    BY Zenon, <1>1 DEF memtable, tables, disk
  <2>2. L0Files' = L0Files /\ L1Files' = L1Files
    BY Zenon, <2>1 DEF L0Files, L1Files
  <2> QED BY Zenon, <1>1, <2>1, <2>2, QuietOrder
<1>2. ASSUME NEW k \in Keys, Delete(k) PROVE Ordered'
  BY Zenon, <1>1, <1>2 DEF Delete, Write, Idle
<1>3. ASSUME NEW k \in Keys, NEW v \in Values, Set(k, v) PROVE Ordered'
  BY Zenon, <1>1, <1>3 DEF Set, Write, Idle
<1>4. CASE AppendFull
  BY Zenon, <1>1, <1>4 DEF AppendFull, Return, Idle
<1>5. CASE NoQuorum
  BY Zenon, <1>1, <1>5 DEF NoQuorum, Return
<1>6. CASE FlushMemTable
  <2>1. open /\ pc = "idle" /\ mem \in Table /\ Drain(mem) /\ nextFile < MaxFiles /\ UNCHANGED <<open, tables>>
    BY Zenon, <1>6 DEF FlushMemTable, Idle, Inv, TypeOK
  <2>2. Tops(mem, file, L0Files \cup L1Files)
    BY <2>1 DEF Ordered, Order
  <2> QED BY Zenon, <2>1, <2>2, DrainOrder
<1>7. CASE Close \/ Crash
  BY Zenon, <1>7, ForgetOrder DEF Close, Crash
<1>8. CASE OpenFails
  BY Zenon, <1>8, StutterOrder DEF OpenFails
<1>9. CASE UNCHANGED vars
  BY Zenon, <1>9, StutterOrder DEF vars
<1> QED
  BY Zenon, <1>2, <1>3, <1>4, <1>5, <1>6, <1>7, <1>8, <1>9, ApplyOrder, InstallNewL0Order,
     MaybeCompactOrder, InstallL1Order, UnlinkOrder, BuildFailsOrder, OpenOrder
     DEF Next, Step

-----------------------------------------------------------------------------
(* A scan agrees with Get *)

\* A search of complete files in ascending order finds the newest record.
LEMMA FindInNewest ==
  ASSUME Inv, NEW S \in SUBSET Names, \A n \in S : file[n].state = "complete",
         Ascending(file, S), NEW k \in Keys
  PROVE  \/ FindIn(S, k) = Absent /\ NoneIn(S, k)
         \/ \E n \in S : /\ FindIn(S, k) = file[n].table[k] /\ file[n].table[k].seq > 0
                         /\ \A m \in S : file[m].table[k].seq <= file[n].table[k].seq
<1> DEFINE hits == {n \in S : Holds(n, k)}
<1>1. \A n \in S : Read(n, k) = file[n].table[k]
  BY Zenon DEF Read
<1>2. \A n \in S : file[n].table[k].seq \in Nat
  BY Zenon, TableType DEF Inv
<1>3. CASE hits = {}
  <2>1. NoneIn(S, k)
    BY <1>1, <1>2, <1>3 DEF NoneIn, Holds
  <2> QED BY Zenon, <1>3, <2>1 DEF FindIn
<1>4. CASE hits # {}
  <2> DEFINE n == Max(hits)
  <2>1. hits \in SUBSET (1..MaxFiles)
    BY DEF Names
  <2>2. n \in hits /\ \A y \in hits : y <= n
    <3> HIDE DEF hits
    <3> QED BY Zenon, <1>4, <2>1, MaxOf, BoundsAssumption
  <2>3. FindIn(S, k) = Read(n, k) /\ n \in S /\ Read(n, k).seq > 0
    BY <1>4, <2>2 DEF FindIn, Holds
  <2>4. ASSUME NEW m \in S PROVE file[m].table[k].seq <= file[n].table[k].seq
    <3>1. CASE m \in hits
      <4>1. m <= n /\ m \in Int /\ n \in Int
        BY <2>1, <2>2, <3>1
      <4>2. m < n \/ m = n
        BY <4>1
      <4> HIDE DEF n
      <4> QED BY <1>1, <1>2, <2>3, <4>2 DEF Ascending
    <3>2. CASE m \notin hits
      <4>1. file[m].table[k].seq = 0
        BY <1>1, <1>2, <3>2 DEF Holds
      <4> HIDE DEF n
      <4> QED BY <1>2, <2>3, <4>1
    <3> QED BY Zenon, <3>1, <3>2
  <2> QED BY Zenon, <1>1, <2>3, <2>4
<1> QED BY Zenon, <1>3, <1>4

\* The first hit of Get is the newest record of the key anywhere.
LEMMA GetNewest ==
  ASSUME Inv, Ordered, Idle, NEW k \in Keys
  PROVE  /\ Get(k) = mem[k] \/ \E n \in l0 \cup l1 : Holds(n, k) /\ Get(k) = Read(n, k)
         /\ mem[k].seq <= Get(k).seq
         /\ \A n \in l0 \cup l1 : Read(n, k).seq <= Get(k).seq
<1>1. l0 = L0Files /\ l1 = L1Files
  BY Zenon DEF Idle, Ordered, InUse
<1>2. /\ Ascending(file, l0) /\ Ascending(file, l1) /\ Covers(file, l0, l1)
      /\ Tops(mem, file, l0 \cup l1)
  BY Zenon, <1>1 DEF Ordered, Order, Idle
<1>3. /\ l0 \subseteq Names /\ l1 \subseteq Names
      /\ \A n \in l0 \cup l1 : file[n].state = "complete" /\ Read(n, k) = file[n].table[k]
  BY Zenon DEF Inv, TypeOK, Shape, TablesReadable, Read
<1>4. \A n \in l0 \cup l1 : file[n].table[k].seq \in Nat
  BY Zenon, <1>3, TableType DEF Inv
<1>5. mem[k].seq \in Nat /\ (mem[k].seq = 0 => mem[k] = Absent)
  <2>1. FromLog(k, mem[k])
    BY Zenon DEF Inv, Provenance
  <2> QED BY <2>1, StoredSeq, WalType DEF Inv
<1>6. \/ FindIn(l0, k) = Absent /\ NoneIn(l0, k)
      \/ \E n \in l0 : /\ FindIn(l0, k) = file[n].table[k] /\ file[n].table[k].seq > 0
                       /\ \A m \in l0 : file[m].table[k].seq <= file[n].table[k].seq
  BY <1>2, <1>3, FindInNewest
<1>7. \/ FindIn(l1, k) = Absent /\ NoneIn(l1, k)
      \/ \E n \in l1 : /\ FindIn(l1, k) = file[n].table[k] /\ file[n].table[k].seq > 0
                       /\ \A m \in l1 : file[m].table[k].seq <= file[n].table[k].seq
  BY <1>2, <1>3, FindInNewest
<1>8. CASE mem[k].seq > 0
  <2>1. Get(k) = mem[k]
    BY Zenon, <1>8 DEF Get
  <2>2. \A n \in l0 \cup l1 : Read(n, k).seq <= Get(k).seq
    BY Zenon, <1>2, <1>3, <1>8, <2>1 DEF Tops
  <2> QED BY <1>5, <2>1, <2>2
<1>9. CASE mem[k].seq = 0 /\ FindIn(l0, k).seq > 0
  <2>1. Get(k) = FindIn(l0, k)
    <3>1. ~(mem[k].seq > 0) /\ FindIn(l0, k).seq > 0
      BY <1>9
    <3> QED BY Zenon, <3>1 DEF Get
  <2>2. PICK n \in l0 : /\ FindIn(l0, k) = file[n].table[k] /\ file[n].table[k].seq > 0
                        /\ \A m \in l0 : file[m].table[k].seq <= file[n].table[k].seq
    BY <1>6, <1>9, RecordSeq
  <2>3. ASSUME NEW m \in l1 PROVE file[m].table[k].seq <= file[n].table[k].seq
    <3>1. PICK x \in l0 : file[m].table[k].seq <= file[x].table[k].seq
      BY Zenon, <1>2, <2>2 DEF Covers
    <3> QED BY <1>4, <2>2, <3>1
  <2>4. Holds(n, k) /\ Get(k) = Read(n, k)
    BY Zenon, <1>3, <2>1, <2>2 DEF Holds
  <2>5. \A m \in l0 \cup l1 : Read(m, k).seq <= Get(k).seq
    BY Zenon, <1>3, <2>1, <2>2, <2>3
  <2>6. mem[k].seq <= Get(k).seq
    <3>1. Get(k).seq \in Nat
      BY Zenon, <1>4, <2>1, <2>2
    <3> QED BY <1>9, <3>1
  <2> QED BY Zenon, <2>4, <2>5, <2>6
<1>10. CASE mem[k].seq = 0 /\ ~(FindIn(l0, k).seq > 0)
  <2>1. Get(k) = FindIn(l1, k)
    <3>1. ~(mem[k].seq > 0) /\ ~(FindIn(l0, k).seq > 0)
      BY <1>10
    <3> QED BY Zenon, <3>1 DEF Get
  <2>2. NoneIn(l0, k)
    BY Zenon, <1>6, <1>10
  <2>3. CASE FindIn(l1, k) = Absent /\ NoneIn(l1, k)
    <3>1. Get(k) = mem[k] /\ Get(k).seq = 0
      BY Zenon, <1>5, <1>10, <2>1, <2>3
    <3>2. \A n \in l0 \cup l1 : Read(n, k).seq <= Get(k).seq
      BY <1>3, <2>2, <2>3, <3>1 DEF NoneIn
    <3> QED BY <3>1, <3>2
  <2>4. ASSUME NEW n \in l1, FindIn(l1, k) = file[n].table[k], file[n].table[k].seq > 0,
               \A m \in l1 : file[m].table[k].seq <= file[n].table[k].seq
        PROVE  /\ Get(k) = mem[k] \/ \E m \in l0 \cup l1 : Holds(m, k) /\ Get(k) = Read(m, k)
               /\ mem[k].seq <= Get(k).seq
               /\ \A m \in l0 \cup l1 : Read(m, k).seq <= Get(k).seq
    <3>1. Holds(n, k) /\ Get(k) = Read(n, k)
      BY Zenon, <1>3, <2>1, <2>4 DEF Holds
    <3>2. \A m \in l0 \cup l1 : Read(m, k).seq <= Get(k).seq
      <4>1. file[n].table[k].seq \in Nat /\ Get(k).seq = file[n].table[k].seq
        BY Zenon, <1>4, <2>1, <2>4
      <4>2. ASSUME NEW m \in l0 PROVE Read(m, k).seq <= Get(k).seq
        BY <1>3, <2>2, <4>1 DEF NoneIn
      <4>3. ASSUME NEW m \in l1 PROVE Read(m, k).seq <= Get(k).seq
        BY Zenon, <1>3, <2>4, <4>1
      <4> QED BY Zenon, <4>2, <4>3
    <3>3. mem[k].seq <= Get(k).seq
      BY <1>4, <1>10, <2>1, <2>4
    <3> QED BY Zenon, <3>1, <3>2, <3>3
  <2> QED BY Zenon, <1>7, <2>3, <2>4
<1>11. mem[k].seq > 0 \/ mem[k].seq = 0
  BY <1>5
<1> QED BY Zenon, <1>8, <1>9, <1>10, <1>11

\* A cut at no less than the number of keys cuts nothing.
LEMMA FirstAll ==
  ASSUME NEW S \in SUBSET Keys, NEW n \in Nat, n >= Cardinality(Keys)
  PROVE  First(S, n) = S
<1> SUFFICES ASSUME NEW k \in S PROVE Cardinality({j \in S : j < k}) < n
  BY DEF First
<1> DEFINE T == {j \in S : j < k}
<1>1. T \in SUBSET Keys /\ k \in Nat /\ IsFiniteSet(Keys)
  BY Zenon, KeysAssumption
<1>2. k \notin T /\ k \in Keys
  BY <1>1
<1> HIDE DEF T
<1>3. T # Keys
  BY <1>2
<1>4. Cardinality(T) <= Cardinality(Keys) /\ Cardinality(T) # Cardinality(Keys) /\ IsFiniteSet(T)
  BY Zenon, <1>1, <1>3, FS_Subset
<1>5. Cardinality(T) \in Nat /\ Cardinality(Keys) \in Nat
  BY <1>1, <1>4, FS_CardinalityType
<1>6. Cardinality(T) < n
  BY <1>4, <1>5
<1> QED BY <1>6 DEF T

\* What ScanPrefix merges for a key when no table's scan is cut.
Candidates(k, limit) ==
  {mem[k]} \cup {Read(n, k) : n \in {m \in l0 \cup l1 : k \in TableScan(m, Keys, limit * 2)}}

\* The newest of the merged records is what Get finds.
LEMMA MergeIsGet ==
  ASSUME Inv, Ordered, Idle, NEW limit \in Nat, limit * 2 >= Cardinality(Keys), NEW k \in Keys
  PROVE  Latest(Candidates(k, limit)) = Get(k)
<1> DEFINE R == Candidates(k, limit)
           g == Get(k)
<1>1. \A m \in l0 \cup l1 : k \in TableScan(m, Keys, limit * 2) <=> Holds(m, k)
  <2> TAKE m \in l0 \cup l1
  <2> DEFINE H == {j \in Keys : Holds(m, j)}
  <2>1. H \in SUBSET Keys /\ limit * 2 \in Nat
    OBVIOUS
  <2>2. First(H, limit * 2) = H
    <3> HIDE DEF H
    <3> QED BY Zenon, <2>1, FirstAll
  <2> QED BY Zenon, <2>2 DEF TableScan
<1>2. R = {mem[k]} \cup {Read(n, k) : n \in {m \in l0 \cup l1 : Holds(m, k)}}
  BY Zenon, <1>1 DEF Candidates
<1>3. \A n \in l0 \cup l1 : Read(n, k) = file[n].table[k] /\ n \in Names
  BY Zenon DEF Inv, TypeOK, Shape, TablesReadable, Read
<1>4. \A r \in R : FromLog(k, r)
  BY Zenon, <1>2, <1>3 DEF Inv, Provenance
<1>5. g \in R /\ \A r \in R : r.seq <= g.seq
  BY Zenon, <1>2, GetNewest
<1>6. \A r \in R : r.seq \in 0..Len(wal) /\ Len(wal) \in Nat
  BY Zenon, <1>4, StoredSeq, WalType DEF Inv
<1> HIDE DEF R, g
<1>7. Latest(R) \in R /\ \A q \in R : q.seq <= Latest(R).seq
  BY Zenon, <1>5, <1>6, LatestOf
<1>8. Latest(R).seq = g.seq
  <2>1. Latest(R).seq <= g.seq /\ g.seq <= Latest(R).seq
    BY Zenon, <1>5, <1>7
  <2>2. Latest(R).seq \in Int /\ g.seq \in Int
    BY <1>5, <1>6, <1>7
  <2> QED BY <2>1, <2>2
<1>9. Latest(R) = g
  <2>1. FromLog(k, Latest(R)) /\ FromLog(k, g)
    BY Zenon, <1>4, <1>5, <1>7
  <2>2. (Latest(R).seq = 0 => Latest(R) = Absent) /\ (g.seq = 0 => g = Absent)
    BY Zenon, <2>1, StoredSeq DEF Inv
  <2>3. g.seq # 0 => g = RecordAt(g.seq) /\ Latest(R) = RecordAt(Latest(R).seq)
    BY Zenon, <1>8, <2>1, RecordSeq DEF FromLog
  <2> QED BY <1>8, <2>2, <2>3
<1> QED BY Zenon, <1>9 DEF R, g

\* With the tables in order, a scan whose doubled limit covers every key
\* returns the first keys that Get finds.
LEMMA ScanIsGet ==
  ASSUME Inv, Ordered, NEW limit \in Nat \ {0}, limit * 2 >= Cardinality(Keys)
  PROVE  ScanMatchesGet(limit)
<1> SUFFICES ASSUME Idle
             PROVE  ScanPrefix(Keys, limit) = [k \in First({k \in Keys : Live(Get(k))}, limit) |-> Get(k)]
  BY Zenon DEF ScanMatchesGet
<1> DEFINE merged == [k \in Keys |-> Latest(Candidates(k, limit))]
           out == First({k \in Keys : Live(merged[k])}, limit)
<1>1. ScanPrefix(Keys, limit) = [k \in out |-> merged[k]]
  BY DEF ScanPrefix, Candidates
<1>2. \A k \in Keys : merged[k] = Get(k)
  BY MergeIsGet
<1> HIDE DEF merged
<1>3. {k \in Keys : Live(merged[k])} = {k \in Keys : Live(Get(k))}
  BY <1>2
<1>4. out = First({k \in Keys : Live(Get(k))}, limit)
  BY Zenon, <1>3
<1>5. out \subseteq Keys
  BY DEF First
<1> HIDE DEF out
<1>6. [k \in out |-> merged[k]] = [k \in out |-> Get(k)]
  BY <1>2, <1>5
<1> QED BY Zenon, <1>1, <1>4, <1>6

\* In every reachable state the files and the tables in use are in order: a
\* search from the newest table to the oldest meets ever older records.
THEOREM TablesAreOrdered == Spec => [](Inv /\ Ordered)
<1>1. Init => Inv /\ Ordered
  BY InitInv, InitOrder
<1>2. Inv /\ Ordered /\ [Next]_vars => (Inv /\ Ordered)'
  BY NextInv, NextOrder
<1> QED BY <1>1, <1>2, PTL DEF Spec

\* ScanPrefix, which merges by sequence number, and Get, which stops at the
\* first hit, agree on every key, whatever was flushed, compacted, refused,
\* interrupted or failed before.
THEOREM ScansAgree == Spec => []FullScanMatchesGet
<1>1. Inv /\ Ordered => FullScanMatchesGet
  <2> SUFFICES ASSUME Inv, Ordered PROVE FullScanMatchesGet
    OBVIOUS
  <2>1. Cardinality(Keys) \in Nat /\ (Cardinality(Keys) = 0 => Keys = {})
    BY Zenon, KeysAssumption, FS_CardinalityType, FS_EmptySet
  <2>2. CASE Cardinality(Keys) # 0
    BY <2>1, <2>2, ScanIsGet DEF FullScanMatchesGet
  <2>3. CASE Keys = {}
    <3>1. ScanPrefix(Keys, Cardinality(Keys)) = [k \in {} |-> Get(k)]
      BY <2>3 DEF ScanPrefix, First
    <3>2. First({k \in Keys : Live(Get(k))}, Cardinality(Keys)) = {}
      BY Zenon, <2>3 DEF First
    <3> QED BY Zenon, <3>1, <3>2 DEF FullScanMatchesGet, ScanMatchesGet
  <2> QED BY Zenon, <2>1, <2>2, <2>3
<1> QED BY <1>1, TablesAreOrdered, PTL

-----------------------------------------------------------------------------
(* The memtable's byte count *)

LiveKeys(t) == {k \in Keys : t[k].seq > 0 /\ Live(t[k])}
DeadKeys(t) == {k \in Keys : t[k].seq > 0 /\ ~Live(t[k])}

\* The size of a table is that of one entry and of all the others.
LEMMA SizeSplit ==
  ASSUME NEW t \in Table, NEW k \in Keys
  PROVE  /\ SizeOf(t) = 2 * Cardinality(LiveKeys(t) \ {k}) + Cardinality(DeadKeys(t) \ {k})
                          + EntryBytes(t[k])
         /\ Cardinality(LiveKeys(t) \ {k}) \in Nat /\ Cardinality(DeadKeys(t) \ {k}) \in Nat
<1> DEFINE L == LiveKeys(t)
           D == DeadKeys(t)
<1>1. L \in SUBSET Keys /\ D \in SUBSET Keys /\ IsFiniteSet(Keys)
  BY KeysAssumption DEF LiveKeys, DeadKeys
<1>2. t[k].seq \in Nat
  BY Zenon DEF Table, Record
<1>3. /\ k \in L <=> t[k].seq > 0 /\ Live(t[k])
      /\ k \in D <=> t[k].seq > 0 /\ ~Live(t[k])
  BY Zenon DEF LiveKeys, DeadKeys
<1>4. SizeOf(t) = 2 * Cardinality(L) + Cardinality(D)
  BY DEF SizeOf, LiveKeys, DeadKeys
<1> HIDE DEF L, D
<1>5. IsFiniteSet(L) /\ IsFiniteSet(D)
  BY Zenon, <1>1, FS_Subset
<1>6. /\ IsFiniteSet(L \ {k}) /\ IsFiniteSet(D \ {k})
      /\ Cardinality(L \ {k}) = IF k \in L THEN Cardinality(L) - 1 ELSE Cardinality(L)
      /\ Cardinality(D \ {k}) = IF k \in D THEN Cardinality(D) - 1 ELSE Cardinality(D)
  BY Zenon, <1>5, FS_RemoveElement
<1>7. /\ Cardinality(L) \in Nat /\ Cardinality(D) \in Nat
      /\ Cardinality(L \ {k}) \in Nat /\ Cardinality(D \ {k}) \in Nat
  BY <1>5, <1>6, FS_CardinalityType
<1>8. ASSUME t[k].seq = 0
      PROVE  SizeOf(t) = 2 * Cardinality(L \ {k}) + Cardinality(D \ {k}) + EntryBytes(t[k])
  <2>1. EntryBytes(t[k]) = 0 /\ k \notin L /\ k \notin D
    BY <1>3, <1>8 DEF EntryBytes
  <2> QED BY <1>4, <1>6, <1>7, <2>1
<1>9. ASSUME t[k].seq > 0, Live(t[k])
      PROVE  SizeOf(t) = 2 * Cardinality(L \ {k}) + Cardinality(D \ {k}) + EntryBytes(t[k])
  <2>1. EntryBytes(t[k]) = 2 /\ k \in L /\ k \notin D
    BY <1>3, <1>9 DEF EntryBytes
  <2>2. SizeOf(t) = 2 * Cardinality(L \ {k}) + Cardinality(D \ {k}) + 2
    BY <1>4, <1>6, <1>7, <2>1
  <2> QED BY Zenon, <2>1, <2>2
<1>10. ASSUME t[k].seq > 0, ~Live(t[k])
      PROVE  SizeOf(t) = 2 * Cardinality(L \ {k}) + Cardinality(D \ {k}) + EntryBytes(t[k])
  <2>1. EntryBytes(t[k]) = 1 /\ k \notin L /\ k \in D
    BY <1>3, <1>10 DEF EntryBytes
  <2>2. SizeOf(t) = 2 * Cardinality(L \ {k}) + Cardinality(D \ {k}) + 1
    BY <1>4, <1>6, <1>7, <2>1
  <2> QED BY Zenon, <2>1, <2>2
<1>11. SizeOf(t) = 2 * Cardinality(L \ {k}) + Cardinality(D \ {k}) + EntryBytes(t[k])
  <2>1. t[k].seq = 0 \/ t[k].seq > 0
    BY <1>2
  <2> QED BY Zenon, <1>8, <1>9, <1>10, <2>1
<1> QED BY Zenon, <1>7, <1>11 DEF L, D

\* Overwriting an entry changes the size by the difference of the two.
LEMMA SizeAfter ==
  ASSUME NEW t \in Table, NEW k \in Keys, NEW r \in Record
  PROVE  SizeOf([t EXCEPT ![k] = r]) = SizeOf(t) - EntryBytes(t[k]) + EntryBytes(r)
<1> DEFINE u == [t EXCEPT ![k] = r]
<1>1. u \in Table /\ u[k] = r /\ \A j \in Keys : j # k => u[j] = t[j]
  BY Zenon DEF Table
<1> HIDE DEF u
<1>2. LiveKeys(u) \ {k} = LiveKeys(t) \ {k} /\ DeadKeys(u) \ {k} = DeadKeys(t) \ {k}
  BY Zenon, <1>1 DEF LiveKeys, DeadKeys
<1> DEFINE a == Cardinality(LiveKeys(t) \ {k})
           d == Cardinality(DeadKeys(t) \ {k})
           e == EntryBytes(t[k])
           f == EntryBytes(r)
<1>3. SizeOf(t) = 2 * a + d + e /\ a \in Nat /\ d \in Nat
  BY Zenon, SizeSplit
<1>4. SizeOf(u) = 2 * a + d + f
  BY <1>1, <1>2, SizeSplit
<1>5. e \in Nat /\ f \in Nat
  BY DEF EntryBytes
<1> HIDE DEF a, d, e, f
<1>6. SizeOf(u) = SizeOf(t) - e + f
  BY <1>3, <1>4, <1>5
<1> QED BY Zenon, <1>6 DEF u, e, f

\* An empty memtable has size 0.
LEMMA SizeEmpty == SizeOf(EmptyTable) = 0
<1>1. \A k \in Keys : ~(EmptyTable[k].seq > 0)
  BY RecordSeq DEF EmptyTable
<1>2. LiveKeys(EmptyTable) = {} /\ DeadKeys(EmptyTable) = {}
  BY Zenon, <1>1 DEF LiveKeys, DeadKeys
<1>3. SizeOf(EmptyTable) = 2 * Cardinality(LiveKeys(EmptyTable)) + Cardinality(DeadKeys(EmptyTable))
  BY DEF SizeOf, LiveKeys, DeadKeys
<1> QED BY <1>2, <1>3, FS_EmptySet

\* Every step keeps the count exact.
LEMMA NextMemBytes == Inv /\ MemBytesExact /\ [Next]_vars => MemBytesExact'
<1> SUFFICES ASSUME Inv, MemBytesExact, [Next]_vars PROVE MemBytesExact'
  BY Zenon
<1>1. \A t : SizeOf(t)' = SizeOf(t)
  BY Zenon DEF SizeOf, Live
<1>2. ASSUME UNCHANGED memtable PROVE MemBytesExact'
  BY Zenon, <1>2 DEF memtable, MemBytesExact, SizeOf, Live
<1>3. ASSUME mem' = EmptyTable, memBytes' = 0 PROVE MemBytesExact'
  <2>1. SizeOf(mem') = 0
    BY Zenon, <1>3, SizeEmpty
  <2> QED BY Zenon, <1>3, <2>1 DEF MemBytesExact, SizeOf, Live
<1>4. CASE Apply
  <2> DEFINE k0 == InFlight.key
             r == RecordAt(Len(wal))
             t == MemAfter(k0, r)
  <2>1. CASE MustFlush(r.val, MemBytesAfter(k0, r))
    BY Zenon, <1>3, <1>4, <2>1 DEF Apply, Drain
  <2>2. CASE ~MustFlush(r.val, MemBytesAfter(k0, r))
    <3>1. mem' = t /\ memBytes' = MemBytesAfter(k0, r)
      BY Zenon, <1>4, <2>2 DEF Apply
    <3>2. k0 \in Keys /\ r \in Record /\ mem \in Table
      <4>1. InFlight \in LogRecord /\ Len(wal) \in 1..Len(wal) /\ Len(wal) \in Nat
        BY Zenon, <1>4, ApplyDone, WalType DEF Inv
      <4>2. r = [seq |-> Len(wal), val |-> InFlight.val]
        BY Zenon DEF RecordAt, InFlight
      <4> QED BY <4>1, <4>2 DEF LogRecord, Record, Inv, TypeOK
    <3> HIDE DEF k0, r
    <3>3. SizeOf(t) = SizeOf(mem) - EntryBytes(mem[k0]) + EntryBytes(r)
      BY Zenon, <3>2, SizeAfter DEF MemAfter
    <3>4. memBytes' = SizeOf(mem')
      BY Zenon, <3>1, <3>3 DEF MemBytesAfter, MemBytesExact
    <3> QED BY Zenon, <3>4 DEF MemBytesExact, SizeOf, Live
  <2> QED BY Zenon, <2>1, <2>2
<1>5. CASE Open
  BY Zenon, <1>5 DEF Open, MemBytesExact, SizeOf, Live
<1>6. CASE FlushMemTable \/ Close \/ Crash
  BY Zenon, <1>3, <1>6 DEF FlushMemTable, Drain, Close, Crash, Forget
<1>7. CASE InstallNewL0 \/ MaybeCompact \/ InstallL1 \/ Unlink \/ BuildFails
  BY Zenon, <1>2, <1>7 DEF InstallNewL0, MaybeCompact, InstallL1, Unlink, BuildFails
<1>8. CASE AppendFull \/ NoQuorum \/ OpenFails \/ UNCHANGED vars
  BY Zenon, <1>2, <1>8 DEF AppendFull, NoQuorum, OpenFails, vars
<1>9. CASE \E k \in Keys : Delete(k) \/ \E v \in Values : Set(k, v)
  BY Zenon, <1>2, <1>9 DEF Delete, Set, Write
<1> QED BY Zenon, <1>4, <1>5, <1>6, <1>7, <1>8, <1>9 DEF Next, Step

\* approx_bytes_, kept by adding and subtracting estimates at each Set and
\* Delete, is the size of the entries: the budget that starts a flush is
\* compared with the truth.
THEOREM MemBytesAreExact == Spec => []MemBytesExact
<1>1. Init => MemBytesExact
  BY SizeEmpty DEF Init, MemBytesExact
<1> QED BY <1>1, NextMemBytes, Invariance, PTL DEF Spec

-----------------------------------------------------------------------------
(* The compaction has output, and level 0 stays bounded *)

\* The Set that started the flush is live, the newest of the log, and in the
\* file that is being flushed.
LastSet ==
  pc \in {"flushing", "installed"} =>
    /\ Len(wal) \in 1..Len(wal) /\ InFlight.key \in Keys /\ Live(RecordAt(Len(wal)))
    /\ Building \in Names /\ file[Building].table[InFlight.key] = RecordAt(Len(wal))
    /\ pc = "installed" => Building \in l0

\* Only Set flushes, and only after it put its own record in the memtable.
LEMMA ApplyLastSet ==
  ASSUME Inv, Apply
  PROVE  LastSet'
<1> DEFINE k0 == InFlight.key
           r == RecordAt(Len(wal))
           t == MemAfter(k0, r)
<1>1. wal' = wal /\ Len(wal) \in 1..Len(wal) /\ k0 \in Keys /\ t \in Table
  BY ApplyDone DEF LogRecord
<1>2. CASE MustFlush(r.val, MemBytesAfter(k0, r))
  <2>1. Drain(t) /\ pc = "appended" /\ nextFile < MaxFiles /\ UNCHANGED tables
    BY Zenon, <1>2 DEF Apply, Inv, Shape
  <2>2. Live(r)
    BY Zenon, <1>2 DEF MustFlush, Live
  <2>3. nextFile \in Names
    BY <2>1, BoundsAssumption DEF Inv, TypeOK, Names
  <2>4. t[k0] = r
    BY Zenon, <1>1 DEF MemAfter, Inv, TypeOK, Table
  <2> HIDE DEF t
  <2>5. file'[nextFile].table = t
    BY Zenon, <1>1, <2>1, DrainFiles
  <2>6. Building' = nextFile /\ pc' = "flushing"
    BY <2>1, <2>3 DEF Drain, Create, Building, Inv, TypeOK
  <2>7. RecordAt(Len(wal))' = r /\ InFlight' = InFlight
    BY Zenon, <1>1 DEF RecordAt, InFlight
  <2> QED BY Zenon, <1>1, <2>2, <2>3, <2>4, <2>5, <2>6, <2>7 DEF LastSet, Live
<1>3. CASE ~MustFlush(r.val, MemBytesAfter(k0, r))
  BY Zenon, <1>3 DEF Apply, Return, LastSet
<1> QED BY <1>2, <1>3

\* Nothing is written to the log while a call flushes.
LEMMA NextLastSet == ~FlushApi /\ Inv /\ LastSet /\ [Next]_vars => LastSet'
<1> SUFFICES ASSUME ~FlushApi, Inv, LastSet, [Next]_vars PROVE LastSet'
  BY Zenon
<1>1. CASE InstallNewL0
  <2>1. pc = "flushing" /\ pc' = "installed" /\ wal' = wal /\ nextFile' = nextFile /\ l0' = l0 \cup {Building}
        /\ Complete /\ TypeOK
    BY Zenon, <1>1 DEF InstallNewL0, log, Inv
  <2>2. Building' = Building /\ InFlight' = InFlight /\ RecordAt(Len(wal))' = RecordAt(Len(wal))
    BY Zenon, <2>1 DEF Building, InFlight, RecordAt
  <2>3. /\ Len(wal) \in 1..Len(wal) /\ InFlight.key \in Keys /\ Live(RecordAt(Len(wal)))
        /\ Building \in Names /\ file[Building].table[InFlight.key] = RecordAt(Len(wal))
    BY Zenon, <2>1 DEF LastSet
  <2>4. file'[Building].table = file[Building].table
    BY Zenon, <2>1, <2>3, CompleteFile
  <2> QED BY Zenon, <2>1, <2>2, <2>3, <2>4 DEF LastSet, Live
<1>2. CASE \/ \E k \in Keys : Delete(k) \/ \E v \in Values : Set(k, v)
           \/ AppendFull \/ NoQuorum \/ BuildFails \/ Close \/ Crash
  BY Zenon, <1>2 DEF Delete, Set, Write, AppendFull, NoQuorum, BuildFails, Close, Crash, Forget, Return, LastSet
<1>3. CASE MaybeCompact \/ InstallL1 \/ Unlink
  BY Zenon, <1>3 DEF MaybeCompact, InstallL1, Unlink, Return, LastSet
<1>4. CASE Open \/ OpenFails
  BY Zenon, <1>4 DEF Open, OpenFails, Inv, Shape, LastSet
<1>5. CASE UNCHANGED vars
  <2>1. UNCHANGED <<pc, wal, nextFile, file, l0>>
    BY Zenon, <1>5 DEF vars, log, disk, tables
  <2>2. Building' = Building /\ InFlight' = InFlight /\ RecordAt(Len(wal))' = RecordAt(Len(wal))
    BY Zenon, <2>1 DEF Building, InFlight, RecordAt
  <2> QED BY Zenon, <2>1, <2>2 DEF LastSet, Live
<1>6. CASE FlushMemTable
  BY Zenon, <1>6 DEF FlushMemTable
<1> QED
  BY Zenon, <1>1, <1>2, <1>3, <1>4, <1>5, <1>6, ApplyLastSet DEF Next, Step

\* The flushed Set is in the output of the compaction that follows it.
LEMMA OutputHasLastSet ==
  ASSUME Inv, LastSet
  PROVE  CompactionHasOutput
<1> SUFFICES ASSUME pc = "installed" PROVE CompactLevel0ToLevel1 # EmptyTable
  BY Zenon DEF CompactionHasOutput
<1> DEFINE k == InFlight.key
           R == {Read(n, k) : n \in l0}
           w == Len(wal)
<1>1. /\ w \in Nat /\ w > 0 /\ k \in Keys /\ Live(RecordAt(w))
      /\ Building \in l0 /\ file[Building].table[k] = RecordAt(w)
  BY WalType DEF LastSet, Inv
<1>2. \A n \in l0 : Read(n, k) = file[n].table[k] /\ n \in Names
  BY Zenon DEF Inv, TypeOK, Shape, TablesReadable, Read
<1>3. \A q \in R : q.seq \in 0..w /\ FromLog(k, q)
  <2>1. ASSUME NEW n \in l0 PROVE Read(n, k).seq \in 0..w /\ FromLog(k, Read(n, k))
    <3>1. n \in Names /\ Read(n, k) = file[n].table[k]
      BY Zenon, <1>2
    <3>2. FromLog(k, file[n].table[k])
      BY Zenon, <1>1, <3>1 DEF Inv, Provenance
    <3>3. file[n].table[k].seq \in 0..w
      BY Zenon, <1>1, <3>1, FilesFromLog
    <3> QED BY Zenon, <3>1, <3>2, <3>3
  <2> QED BY Zenon, <2>1
<1>4. RecordAt(w) \in R /\ R # {}
  BY Zenon, <1>1, <1>2
<1> HIDE DEF R
<1>5. Latest(R) \in R /\ \A q \in R : q.seq <= Latest(R).seq
  BY Zenon, <1>1, <1>3, <1>4, LatestOf
<1>6. Latest(R).seq = w
  <2>1. w <= Latest(R).seq
    BY Zenon, <1>4, <1>5, RecordSeq
  <2>2. Latest(R).seq \in 0..w
    BY Zenon, <1>3, <1>5
  <2> QED BY <1>1, <2>1, <2>2
<1>7. Latest(R) = RecordAt(w)
  <2>1. FromLog(k, Latest(R))
    BY Zenon, <1>3, <1>5
  <2> QED BY <1>1, <1>6, <2>1, RecordSeq DEF FromLog
<1>8. CompactLevel0ToLevel1[k] = RecordAt(w)
  BY Zenon, <1>1, <1>7 DEF CompactLevel0ToLevel1, R
<1>9. EmptyTable[k] = Absent
  BY <1>1 DEF EmptyTable
<1> QED BY <1>1, <1>8, <1>9, RecordSeq

\* As long as only Set flushes, a compaction always has a record to write:
\* the Set that started the flush is live and newer than all else of its key,
\* so the error return for an output without records is never taken.
THEOREM CompactionsHaveOutput == ~FlushApi => (Spec => []CompactionHasOutput)
<1> SUFFICES ASSUME ~FlushApi PROVE Spec => []CompactionHasOutput
  OBVIOUS
<1>1. Init => Inv /\ LastSet
  <2>1. Init => LastSet
    BY DEF Init, LastSet
  <2> QED BY Zenon, <2>1, InitInv
<1>2. Inv /\ LastSet /\ [Next]_vars => (Inv /\ LastSet)'
  BY Zenon, NextInv, NextLastSet
<1>3. Inv /\ LastSet => CompactionHasOutput
  BY Zenon, OutputHasLastSet
<1> QED BY <1>1, <1>2, <1>3, PTL DEF Spec

\* One table may be on its way while a call is before its flush's end, and a
\* stop may leave the compaction that was due undone.
Slack == IF pc \in {"idle", "appended", "flushing"} THEN 1 ELSE 0
L0FilesBounded == Cardinality(L0Files) <= L0Trigger + stops - Slack

\* Level 0 has finitely many files.
LEMMA L0FilesFinite ==
  ASSUME TypeOK
  PROVE  IsFiniteSet(L0Files) /\ Cardinality(L0Files) \in Nat
         /\ L0Trigger \in Nat /\ L0Trigger > 0 /\ stops \in Nat
<1>1. IsFiniteSet(1..MaxFiles)
  BY BoundsAssumption, FS_Interval
<1>2. L0Files \in SUBSET (1..MaxFiles)
  BY Zenon, TableType DEF Names
<1>3. IsFiniteSet(L0Files)
  BY Zenon, <1>1, <1>2, FS_Subset
<1>4. Cardinality(L0Files) \in Nat
  BY <1>3, FS_CardinalityType
<1> QED BY <1>3, <1>4, BoundsAssumption DEF TypeOK

\* A step that leaves the complete files of level 0 alone and no less slack.
LEMMA SameL0Bound ==
  ASSUME TypeOK, L0FilesBounded, L0Files' = L0Files, stops' = stops, Slack' = Slack
  PROVE  L0FilesBounded'
  BY DEF L0FilesBounded

\* A flush adds one table and a compaction that is due takes them all away.
LEMMA NextL0Bound ==
  ASSUME ~FlushApi, ~DiskMayFail, Inv, Ordered, LastSet, L0FilesBounded, [Next]_vars
  PROVE  L0FilesBounded'
<1>1. /\ IsFiniteSet(L0Files) /\ Cardinality(L0Files) \in Nat
      /\ L0Trigger \in Nat /\ L0Trigger > 0 /\ stops \in Nat
  BY Zenon, L0FilesFinite DEF Inv
<1>2. ASSUME UNCHANGED disk PROVE L0Files' = L0Files
  BY Zenon, <1>2 DEF disk, L0Files
<1>3. CASE \/ \E k \in Keys : Delete(k) \/ \E v \in Values : Set(k, v)
           \/ AppendFull \/ NoQuorum
  <2>1. UNCHANGED <<disk, stops>> /\ pc \in {"idle", "appended"} /\ pc' \in {"idle", "appended"}
    BY Zenon, <1>3 DEF Delete, Set, Write, AppendFull, NoQuorum, Return, Idle
  <2>2. Slack' = Slack
    BY <2>1 DEF Slack
  <2> QED BY Zenon, <1>2, <2>1, <2>2, SameL0Bound DEF Inv
<1>4. CASE Apply
  <2> DEFINE k0 == InFlight.key
             r == RecordAt(Len(wal))
             t == MemAfter(k0, r)
  <2>1. pc = "appended" /\ stops' = stops /\ nextFile < MaxFiles /\ t \in Table
    BY Zenon, <1>4, ApplyDone DEF Apply, Inv, Shape
  <2>2. CASE MustFlush(r.val, MemBytesAfter(k0, r))
    <3>1. Drain(t)
      BY Zenon, <1>4, <2>2 DEF Apply
    <3>2. /\ Create(t) /\ l0Dir' = l0Dir \cup {nextFile} /\ l1Dir' = l1Dir /\ pc' = "flushing"
          /\ nextFile <= MaxFiles
      BY <2>1, <3>1, BoundsAssumption DEF Drain, DrainSorted, Inv, TypeOK
    <3> HIDE DEF t
    <3>3. L0Files' = L0Files
      BY Zenon, <2>1, <3>2, CreatedFiles
    <3>4. Slack' = Slack
      BY Zenon, <2>1, <3>2 DEF Slack
    <3> QED BY Zenon, <2>1, <3>3, <3>4, SameL0Bound DEF Inv
  <2>3. CASE ~MustFlush(r.val, MemBytesAfter(k0, r))
    <3>1. UNCHANGED disk /\ pc' = "idle"
      BY Zenon, <1>4, <2>3 DEF Apply, Return
    <3>2. Slack' = Slack
      BY Zenon, <2>1, <3>1 DEF Slack
    <3> QED BY Zenon, <1>2, <2>1, <3>1, <3>2, SameL0Bound DEF Inv
  <2> QED BY <2>2, <2>3
<1>5. CASE InstallNewL0
  <2> DEFINE b == Building
  <2>1. /\ pc = "flushing" /\ pc' = "installed" /\ stops' = stops /\ l0Dir' = l0Dir
        /\ b \in l0Dir /\ b \in Names /\ l0Dir \subseteq Names
    BY Zenon, <1>5 DEF InstallNewL0, Inv, Shape, TypeOK
  <2>2. \A n \in Names : file'[n].state = IF n = b THEN "complete" ELSE file[n].state
    BY Zenon, <1>5, <2>1, CompleteFile DEF Inv, InstallNewL0
  <2>3. L0Files' = L0Files \cup {b}
    BY Zenon, <2>1, <2>2 DEF L0Files
  <2> HIDE DEF b
  <2>4. Cardinality(L0Files') <= Cardinality(L0Files) + 1 /\ Cardinality(L0Files') \in Nat
    BY <1>1, <2>3, FS_AddElement
  <2>5. Slack = 1 /\ Slack' = 0
    BY Zenon, <2>1 DEF Slack
  <2> QED BY <1>1, <2>1, <2>4, <2>5 DEF L0FilesBounded
<1>6. CASE MaybeCompact
  <2>1. pc = "installed" /\ stops' = stops /\ l0 # {} /\ nextFile <= MaxFiles /\ open
    BY Zenon, <1>6 DEF MaybeCompact, Inv, Shape
  <2>2. l0 = L0Files
    BY Zenon, <2>1 DEF Ordered, InUse
  <2>3. CASE TooFewTables
    <3>1. L0Files' = L0Files /\ pc' = "idle"
      BY Zenon, <1>2, <1>6, <2>3 DEF MaybeCompact, Return
    <3>2. Slack' = 1 /\ Cardinality(L0Files) < L0Trigger
      BY Zenon, <2>2, <2>3, <3>1 DEF Slack, TooFewTables
    <3>3. Cardinality(L0Files) <= L0Trigger + stops - 1
      BY <1>1, <3>2
    <3> QED BY Zenon, <2>1, <3>1, <3>2, <3>3 DEF L0FilesBounded
  <2>4. CASE ~TooFewTables
    <3>1. CompactLevel0ToLevel1 # EmptyTable
      BY Zenon, <2>1, OutputHasLastSet DEF CompactionHasOutput
    <3>2. Create(CompactLevel0ToLevel1) /\ l1Dir' = l1Dir \cup {nextFile} /\ pc' = "compacting" /\ l0Dir' = l0Dir
      BY Zenon, <1>6, <2>4, <3>1 DEF MaybeCompact
    <3>3. CompactLevel0ToLevel1 \in Table
      BY Zenon, <2>1, CompactionType
    <3>4. L0Files' = L0Files
      BY Zenon, <2>1, <3>2, <3>3, CreatedFiles
    <3>5. Slack' = Slack
      BY Zenon, <2>1, <3>2 DEF Slack
    <3> QED BY Zenon, <2>1, <3>4, <3>5, SameL0Bound DEF Inv
  <2> QED BY Zenon, <2>3, <2>4
<1>7. CASE InstallL1
  <2>1. /\ pc = "compacting" /\ pc' = "unlinking" /\ stops' = stops /\ l0Dir' = l0Dir
        /\ Building \notin l0Dir /\ Building \in Names /\ l0Dir \subseteq Names
    BY Zenon, <1>7 DEF InstallL1, Inv, Shape, TypeOK
  <2>2. \A n \in Names : file'[n].state = IF n = Building THEN "complete" ELSE file[n].state
    BY Zenon, <1>7, <2>1, CompleteFile DEF Inv, InstallL1
  <2>3. L0Files' = L0Files
    BY Zenon, <2>1, <2>2 DEF L0Files
  <2>4. Slack' = Slack
    BY Zenon, <2>1 DEF Slack
  <2> QED BY Zenon, <2>1, <2>3, <2>4, SameL0Bound DEF Inv
<1>8. CASE Unlink
  <2>1. pc = "unlinking" /\ stops' = stops
    BY Zenon, <1>8 DEF Unlink
  <2>2. CASE L0Files = {}
    <3>1. UNCHANGED disk /\ pc' = "idle"
      BY Zenon, <1>8, <2>2 DEF Unlink, Return, L0Files
    <3>2. L0Files' = {} /\ Slack' = 1 /\ Cardinality({}) = 0
      BY Zenon, <1>2, <2>2, <3>1, FS_EmptySet DEF Slack
    <3>3. 0 <= L0Trigger + stops - 1
      BY <1>1
    <3> QED BY Zenon, <2>1, <3>2, <3>3 DEF L0FilesBounded
  <2>3. CASE L0Files # {}
    <3> DEFINE n == Min(L0Files)
    <3>1. l0Dir' = l0Dir \ {n} /\ file' = [file EXCEPT ![n] = NoFile] /\ pc' = pc
      BY Zenon, <1>8, <2>3 DEF Unlink, L0Files
    <3>2. L0Files' \in SUBSET L0Files
      <4> HIDE DEF n
      <4> QED BY Zenon, <3>1 DEF L0Files, Inv, TypeOK
    <3>3. Cardinality(L0Files') <= Cardinality(L0Files) /\ Cardinality(L0Files') \in Nat
      BY Zenon, <1>1, <3>2, FS_Subset, FS_CardinalityType
    <3>4. Slack' = 0 /\ Slack = 0
      BY Zenon, <2>1, <3>1 DEF Slack
    <3> QED BY <1>1, <2>1, <3>3, <3>4 DEF L0FilesBounded
  <2> QED BY Zenon, <2>2, <2>3
<1>9. CASE Close \/ Crash
  <2>1. UNCHANGED disk /\ pc' = "idle" /\ stops' = stops + 1
    BY Zenon, <1>9 DEF Close, Crash, Forget
  <2>2. L0Files' = L0Files /\ Slack' = 1 /\ Slack \in {0, 1}
    BY Zenon, <1>2, <2>1 DEF Slack
  <2> QED BY <1>1, <2>1, <2>2 DEF L0FilesBounded
<1>10. CASE Open \/ OpenFails \/ UNCHANGED vars
  <2>1. UNCHANGED <<disk, pc, stops>>
    BY <1>10 DEF Open, OpenFails, vars
  <2>2. Slack' = Slack
    BY Zenon, <2>1 DEF Slack
  <2> QED BY Zenon, <1>2, <2>1, <2>2, SameL0Bound DEF Inv
<1>11. CASE FlushMemTable \/ BuildFails
  BY <1>11 DEF FlushMemTable, BuildFails
<1> QED
  BY <1>3, <1>4, <1>5, <1>6, <1>7, <1>8, <1>9, <1>10, <1>11 DEF Next, Step

\* When only Set flushes and builds do not fail, level 0 has at most the
\* trigger's number of tables, and one more for each stop of the process:
\* a stop between a flush and the compaction it calls for leaves one behind.
THEOREM L0StaysBounded == ~FlushApi /\ ~DiskMayFail => (Spec => []L0Bounded)
<1> SUFFICES ASSUME ~FlushApi, ~DiskMayFail PROVE Spec => []L0Bounded
  OBVIOUS
<1> DEFINE J == Inv /\ Ordered /\ LastSet /\ L0FilesBounded
<1>1. Init => J
  <2>1. Init => LastSet
    BY Zenon DEF Init, LastSet
  <2>2. ASSUME Init PROVE L0FilesBounded
    <3>1. L0Files = {} /\ Slack = 1 /\ stops = 0 /\ Cardinality({}) = 0
      BY Zenon, <2>2, FS_EmptySet DEF Init, L0Files, Slack
    <3> QED BY <3>1, BoundsAssumption DEF L0FilesBounded
  <2> QED BY Zenon, <2>1, <2>2, InitInv, InitOrder
<1>2. J /\ [Next]_vars => J'
  BY Zenon, NextInv, NextOrder, NextLastSet, NextL0Bound
<1>3. ASSUME J PROVE L0Bounded
  <2>1. l0 \in SUBSET L0Files
    BY Zenon, <1>3 DEF Inv, TypeOK, Shape, TablesReadable, L0Files
  <2>2. /\ IsFiniteSet(L0Files) /\ Cardinality(L0Files) \in Nat
        /\ L0Trigger \in Nat /\ stops \in Nat
    BY Zenon, <1>3, L0FilesFinite DEF Inv
  <2>3. Cardinality(l0) <= Cardinality(L0Files) /\ Cardinality(l0) \in Nat
    BY Zenon, <2>1, <2>2, FS_Subset, FS_CardinalityType
  <2>4. Slack \in {0, 1} /\ Cardinality(L0Files) <= L0Trigger + stops - Slack
    BY <1>3 DEF Slack, L0FilesBounded
  <2> QED BY <2>2, <2>3, <2>4 DEF L0Bounded
<1> QED BY <1>1, <1>2, <1>3, PTL DEF Spec
=============================================================================
