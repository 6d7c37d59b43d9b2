------------------------- MODULE StorageEngineProofs -------------------------
(***************************************************************************)
(* What holds of StorageEngine for every set of keys and values, every     *)
(* capacity, budget and trigger, and any number of stops.                  *)
(***************************************************************************)
EXTENDS StorageEngine, FiniteSetTheorems, WellFoundedInduction, TLAPS

(* The inductive invariant *)

\* The writes to k that reached the memtable: a write in flight has not.
Done(k) == Applied(k) \ (IF pc = "appended" THEN {Len(wal)} ELSE {})
LastDone(k, i) == i \in Done(k) /\ \A j \in Done(k) : j <= i

\* A stored record is that of a write to its key that reached the memtable.
FromLog(k, r) == r = Absent \/ (r.seq \in Done(k) /\ r = RecordAt(r.seq))
Provenance == \A k \in Keys : /\ FromLog(k, mem[k])
                              /\ \A n \in Names : FromLog(k, file[n].table[k])

\* Where the files of a call in flight stand.
Shape ==
  /\ pc # "idle" => open
  /\ l0Dir \cap l1Dir = {}
  /\ \A n \in l0Dir \cup l1Dir : n < nextFile
  /\ TablesReadable
  /\ pc = "appended" => /\ replayed < Len(wal) /\ Len(wal) \notin refused
                        /\ nextFile < MaxFiles
  /\ pc = "flushing" => Building \in l0Dir /\ file[Building].state = "partial"
                          /\ nextFile <= MaxFiles
  /\ pc \in {"installed", "compacting"} => l0 # {}
  /\ pc = "installed" => nextFile <= MaxFiles
  /\ pc = "compacting" => /\ Building \in l1Dir /\ file[Building].state = "partial"
                          /\ file[Building].table = CompactLevel0ToLevel1
  /\ pc = "unlinking" => l0 = {}

Inv == TypeOK /\ Shape /\ Provenance

\* Level 0 together with the table being flushed into it.
L0View == l0 \cup (IF pc = "flushing" THEN {Building} ELSE {})
FoundIn(S, k, i) == \E n \in S : /\ file[n].table[k].seq = i
                                 /\ \A m \in S : n < m => file[m].table[k].seq = 0
NoneIn(S, k) == \A n \in S : file[n].table[k].seq = 0

\* The last write to k is the first hit of a search, or it is a tombstone
\* that a compaction dropped when nothing above level 1 had the key.
FoundWith(t, S, k, i) ==
  \/ t[k].seq = i
  \/ t[k].seq = 0 /\ FoundIn(S, k, i)
  \/ t[k].seq = 0 /\ NoneIn(S, k) /\ (Live(RecordAt(i)) => FoundIn(l1, k, i))
Located(k, i) == FoundWith(mem, L0View, k, i)
Placement == open => \A k \in Keys : \A i \in 1..Len(wal) : LastDone(k, i) => Located(k, i)

-----------------------------------------------------------------------------
(* Lemmas on the operators *)

\* A non-empty bounded set of natural numbers has a greatest element.
LEMMA MaxExists ==
  ASSUME NEW S \in SUBSET Nat, S # {}, NEW b \in Nat, \A x \in S : x <= b
  PROVE  \E x \in S : \A y \in S : y <= x
<1> DEFINE T == {b - x : x \in S}
<1>1. T \subseteq Nat
  <2>1. \A x \in S : b - x \in Nat
    OBVIOUS
  <2> QED
    BY <2>1
<1>2. T # {}
  BY Zenon
<1>3. PICK t \in T : \A u \in T : ~(<<u, t>> \in OpToRel(<, Nat))
  <2> HIDE DEF T
  <2> QED
    BY Zenon, <1>1, <1>2, NatLessThanWellFounded, WFMin
<1>4. \A u \in T : ~(u < t)
  <2> SUFFICES ASSUME NEW u \in T, u < t PROVE FALSE
    OBVIOUS
  <2>1. u \in Nat /\ t \in Nat
    BY <1>1
  <2>2. <<u, t>> \in Nat \X Nat /\ <<u, t>>[1] < <<u, t>>[2]
    BY <2>1
  <2> HIDE DEF T
  <2> QED
    BY <1>3, <2>2 DEF OpToRel
<1>5. PICK x \in S : t = b - x
  OBVIOUS
<1>6. \A y \in S : y <= x
  <2> SUFFICES ASSUME NEW y \in S PROVE y <= x
    OBVIOUS
  <2>1. b - y \in T
    OBVIOUS
  <2>2. ~(b - y < b - x)
    BY Zenon, <1>4, <1>5, <2>1
  <2>3. x \in Nat /\ y \in Nat
    OBVIOUS
  <2> HIDE DEF T
  <2> QED
    BY <2>2, <2>3
<1> QED
  BY <1>6

\* A non-empty set of natural numbers has a least element.
LEMMA MinExists ==
  ASSUME NEW S \in SUBSET Nat, S # {}
  PROVE  \E x \in S : \A y \in S : x <= y
<1>1. PICK x \in S : \A y \in S : ~(<<y, x>> \in OpToRel(<, Nat))
  BY Zenon, NatLessThanWellFounded, WFMin
<1>2. ASSUME NEW y \in S PROVE x <= y
  <2>1. y \in Nat /\ x \in Nat /\ <<y, x>> \in Nat \X Nat /\ (y < x => <<y, x>>[1] < <<y, x>>[2])
    OBVIOUS
  <2>2. ~(y < x)
    BY <1>1, <2>1 DEF OpToRel
  <2> QED BY <2>1, <2>2
<1> QED
  BY <1>2

\* The greatest element of a set of file names or log positions.
LEMMA MaxOf ==
  ASSUME NEW b \in Nat, NEW S \in SUBSET (1..b), S # {}
  PROVE  Max(S) \in S /\ \A y \in S : y <= Max(S)
<1>1. S \in SUBSET Nat /\ \A x \in S : x <= b
  OBVIOUS
<1>2. PICK x \in S : \A y \in S : y <= x
  BY Zenon, <1>1, MaxExists
<1>3. \A y \in S : x >= y
  BY <1>1, <1>2
<1>4. \A y \in S : Max(S) >= y
  BY Zenon, <1>3 DEF Max
<1>5. Max(S) \in S
  BY Zenon, <1>3 DEF Max
<1> QED
  BY <1>1, <1>4, <1>5

\* Latest picks an element of the set that no element exceeds.
LEMMA LatestOf ==
  ASSUME NEW b \in Nat, NEW R, R # {}, \A r \in R : r.seq \in 0..b
  PROVE  Latest(R) \in R /\ \A q \in R : q.seq <= Latest(R).seq
<1> DEFINE S == {r.seq : r \in R}
<1>1. S \in SUBSET Nat /\ S # {} /\ \A x \in S : x <= b
  OBVIOUS
<1>2. PICK x \in S : \A y \in S : y <= x
  <2> HIDE DEF S
  <2> QED
    BY Zenon, <1>1, MaxExists
<1>3. PICK r \in R : r.seq = x
  OBVIOUS
<1>4. \A q \in R : q.seq <= r.seq
  BY <1>2, <1>3
<1> QED
  BY <1>4 DEF Latest

\* The sequence numbers of an absent record and of the i-th of the log.
LEMMA RecordSeq == Absent.seq = 0 /\ \A i : RecordAt(i).seq = i
  BY DEF Absent, RecordAt

\* What a search of complete tables finds, when the newest hit is known.
LEMMA FindInFound ==
  ASSUME TypeOK, NEW S \in SUBSET Names, \A n \in S : file[n].state = "complete",
         NEW k \in Keys, NEW i \in Nat \ {0}, FoundIn(S, k, i)
  PROVE  FindIn(S, k).seq = i /\ \E n \in S : FindIn(S, k) = file[n].table[k]
<1> DEFINE hits == {n \in S : Holds(n, k)}
<1>1. \A n \in S : Read(n, k) = file[n].table[k]
  BY DEF Read
<1>2. \A n \in S : Read(n, k).seq \in Nat
  BY <1>1 DEF TypeOK, Table, Record, Names
<1>3. PICK n \in S : Read(n, k).seq = i /\ \A m \in S : n < m => Read(m, k).seq = 0
  BY <1>1 DEF FoundIn
<1>4. n \in hits /\ \A m \in hits : m <= n
  BY <1>2, <1>3 DEF Holds, Names
<1>5. Max(hits) = n
  <2>1. hits \in SUBSET (1..MaxFiles) /\ hits # {}
    BY Zenon, <1>4 DEF Names
  <2>2. Max(hits) \in hits /\ \A y \in hits : y <= Max(hits)
    <3> HIDE DEF hits
    <3> QED BY Zenon, <2>1, MaxOf, BoundsAssumption
  <2>3. n \in Int /\ Max(hits) \in Int /\ n <= Max(hits) /\ Max(hits) <= n
    <3>1. n \in 1..MaxFiles /\ Max(hits) \in 1..MaxFiles
      BY Zenon, <1>4, <2>1, <2>2
    <3>2. n <= Max(hits) /\ Max(hits) <= n
      BY <1>4, <2>2
    <3> QED BY <3>1, <3>2
  <2> HIDE DEF hits
  <2> QED
    BY <2>3
<1>6. FindIn(S, k) = Read(n, k)
  BY <1>4, <1>5 DEF FindIn
<1> QED
  BY <1>1, <1>3, <1>6

\* A search of complete tables without the key finds nothing.
LEMMA FindInNone ==
  ASSUME NEW S, \A n \in S : file[n].state = "complete", NEW k \in Keys, NoneIn(S, k)
  PROVE  FindIn(S, k) = Absent
<1>1. \A n \in S : ~Holds(n, k)
  BY DEF NoneIn, Holds, Read
<1> QED
  BY <1>1 DEF FindIn

\* A search finds nothing or a record of one of the tables.
LEMMA FindInRecord ==
  ASSUME TypeOK, NEW S \in SUBSET Names, NEW k \in Keys
  PROVE  FindIn(S, k) = Absent \/ \E n \in S : FindIn(S, k) = file[n].table[k]
<1> DEFINE hits == {n \in S : Holds(n, k)}
<1>1. CASE hits = {}
  BY <1>1 DEF FindIn
<1>2. CASE hits # {}
  <2>1. hits \in SUBSET (1..MaxFiles)
    BY Zenon DEF Names
  <2>2. Max(hits) \in hits
    <3> HIDE DEF hits
    <3> QED BY <1>2, <2>1, MaxOf, BoundsAssumption
  <2>3. FindIn(S, k) = Read(Max(hits), k) /\ Max(hits) \in S
    BY <1>2, <2>2 DEF FindIn
  <2> QED
    BY Zenon, <2>3 DEF Read
<1> QED
  BY <1>1, <1>2

-----------------------------------------------------------------------------
(* Type, shape and provenance *)

\* A file that was never created has no records.
LEMMA EmptyTableType == EmptyTable \in Table /\ NoFile.table = EmptyTable
  BY DEF EmptyTable, Table, Record, Absent, NoFile

\* A fresh data directory satisfies the invariant.
LEMMA InitInv == Init => Inv
<1> SUFFICES ASSUME Init PROVE Inv
  OBVIOUS
<1>1. TypeOK
  <2>1. NoFile \in [state : {"none", "partial", "complete"}, table : Table]
    BY EmptyTableType DEF NoFile
  <2>2. file \in [Names -> [state : {"none", "partial", "complete"}, table : Table]]
    BY <2>1 DEF Init
  <2>3. wal \in Seq(LogRecord) /\ Len(wal) = 0
    BY DEF Init
  <2>4. nextFile \in 1..MaxFiles + 1 /\ stops \in 0..MaxStops /\ memBytes \in Int
    BY BoundsAssumption DEF Init
  <2>5. refused \subseteq 1..Len(wal) /\ replayed \in 0..Len(wal)
    BY <2>3 DEF Init
  <2>6. open \in BOOLEAN /\ mem \in Table
    BY Zenon, EmptyTableType DEF Init
  <2> QED
    BY Zenon, <2>2, <2>3, <2>4, <2>5, <2>6 DEF Init, TypeOK
<1>2. Shape
  BY DEF Init, Shape, TablesReadable
<1>3. Provenance
  BY DEF Init, Provenance, FromLog, EmptyTable, NoFile, Names
<1> QED
  BY <1>1, <1>2, <1>3 DEF Inv

\* The log is a sequence of records of the right kind.
LEMMA WalType ==
  ASSUME TypeOK
  PROVE  /\ Len(wal) \in Nat
         /\ \A i \in 1..Len(wal) : wal[i] \in LogRecord
<1>1. wal \in Seq(LogRecord)
  BY DEF TypeOK
<1> QED
  BY <1>1

\* A stored record has a sequence number of the log, and 0 means absent.
LEMMA StoredSeq ==
  ASSUME TypeOK, NEW k \in Keys, NEW r, FromLog(k, r)
  PROVE  r \in Record /\ r.seq \in 0..Len(wal) /\ (r.seq = 0 => r = Absent)
<1>1. CASE r = Absent
  BY <1>1 DEF TypeOK, Absent, Record
<1>2. CASE r.seq \in Done(k) /\ r = RecordAt(r.seq)
  <2>1. r.seq \in 1..Len(wal)
    BY <1>2 DEF Done, Applied, PositionsOf
  <2>2. wal[r.seq].val \in Values \cup {Tombstone}
    BY Zenon, <2>1, WalType DEF LogRecord
  <2>3. r = [seq |-> r.seq, val |-> wal[r.seq].val]
    BY <1>2 DEF RecordAt
  <2> QED
    BY <2>1, <2>2, <2>3, WalType DEF Record
<1> QED
  BY <1>1, <1>2 DEF FromLog

\* The compaction output is a table.
LEMMA CompactionType ==
  ASSUME Inv, l0 # {}
  PROVE  /\ CompactLevel0ToLevel1 \in Table
         /\ \A k \in Keys : FromLog(k, CompactLevel0ToLevel1[k])
<1> SUFFICES ASSUME NEW k \in Keys
             PROVE  /\ CompactLevel0ToLevel1[k] \in Record
                    /\ FromLog(k, CompactLevel0ToLevel1[k])
  BY DEF CompactLevel0ToLevel1, Table
<1> DEFINE R == {Read(n, k) : n \in l0}
<1>1. \A r \in R : FromLog(k, r)
  BY DEF Inv, TypeOK, Shape, TablesReadable, Provenance, Read
<1>2. \A r \in R : r \in Record /\ r.seq \in 0..Len(wal)
  BY <1>1, StoredSeq DEF Inv
<1>3. R # {} /\ Len(wal) \in Nat
  BY DEF Inv, TypeOK
<1>4. Latest(R) \in R
  <2> HIDE DEF R
  <2> QED BY <1>2, <1>3, LatestOf
<1>5. CompactLevel0ToLevel1[k] = Latest(R) \/ CompactLevel0ToLevel1[k] = Absent
  BY DEF CompactLevel0ToLevel1
<1> HIDE DEF R
<1> QED
  BY <1>1, <1>2, <1>4, <1>5 DEF FromLog, Absent, Record

\* A step that leaves the log alone, and neither starts nor ends the flight
\* of a write, keeps what stored records stand for.
LEMMA SameLog ==
  ASSUME UNCHANGED log, pc' = "appended" <=> pc = "appended"
  PROVE  /\ \A k : Done(k)' = Done(k)
         /\ \A k, r : FromLog(k, r)' <=> FromLog(k, r)
  BY DEF log, Done, Applied, PositionsOf, FromLog, RecordAt, Absent

\* A log that keeps its records, and writes that stay done, keep them too.
LEMMA MoreDone ==
  ASSUME TypeOK, NEW k \in Keys, Done(k) \subseteq Done(k)',
         \A i \in 1..Len(wal) : wal'[i] = wal[i]
  PROVE  \A r : FromLog(k, r) => FromLog(k, r)'
<1>1. \A i \in Done(k) : i \in 1..Len(wal)
  BY DEF Done, Applied, PositionsOf
<1> QED
  BY <1>1 DEF FromLog, RecordAt, Absent

\* Wal::Append adds a record that is not yet in the memtable.
LEMMA WriteInv ==
  ASSUME Inv, NEW k \in Keys, NEW v \in Values \cup {Tombstone}, Write(k, v)
  PROVE  Inv'
<1>1. /\ Len(wal') = Len(wal) + 1 /\ wal' \in Seq(LogRecord)
      /\ \A i \in 1..Len(wal) : wal'[i] = wal[i]
  <2>1. wal \in Seq(LogRecord) /\ [key |-> k, val |-> v] \in LogRecord
    BY DEF Inv, TypeOK, LogRecord
  <2>2. wal' = Append(wal, [key |-> k, val |-> v])
    BY Zenon DEF Write
  <2> HIDE DEF LogRecord
  <2> QED BY <2>1, <2>2
<1>2. TypeOK'
  <2>1. Len(wal) \in Nat
    BY Zenon, WalType DEF Inv
  <2>2. refused' \subseteq 1..Len(wal') /\ replayed' \in 0..Len(wal')
    BY <1>1, <2>1 DEF Inv, TypeOK, Write
  <2> QED
    BY <1>1, <2>2 DEF Inv, TypeOK, Write, memtable, tables, disk, Idle
<1>3. Shape'
  <2>1. Len(wal') \notin refused' /\ replayed' < Len(wal')
    BY <1>1, WalType DEF Inv, TypeOK, Write
  <2> QED
    BY Zenon, <2>1 DEF Inv, Shape, Write, Idle, memtable, tables, disk, TablesReadable
<1>4. \A q \in Keys : Done(q)' = Done(q)
  BY <1>1, WalType DEF Inv, Write, Idle, Done, Applied, PositionsOf
<1>5. Provenance'
  <2>1. \A q \in Keys : \A r : FromLog(q, r) => FromLog(q, r)'
    BY <1>1, <1>4, MoreDone DEF Inv
  <2> QED
    BY <2>1 DEF Inv, Provenance, Write, memtable, disk
<1> QED
  BY Zenon, <1>2, <1>3, <1>5 DEF Inv

\* A refused write never reaches the memtable.
LEMMA NoQuorumInv ==
  ASSUME Inv, NoQuorum
  PROVE  Inv'
<1>1. TypeOK'
  <2>1. Len(wal) \in 1..Len(wal)
    BY WalType DEF Inv, TypeOK, Shape, NoQuorum
  <2> QED
    BY Zenon, <2>1 DEF Inv, TypeOK, NoQuorum, Return, memtable, tables, disk
<1>2. Shape'
  BY DEF Inv, Shape, NoQuorum, Return, memtable, tables, disk, TablesReadable
<1>3. \A q \in Keys : Done(q) \subseteq Done(q)'
  BY WalType DEF Inv, Shape, TypeOK, NoQuorum, Return, Done, Applied, PositionsOf
<1>4. Provenance'
  <2>1. \A q \in Keys : \A r : FromLog(q, r) => FromLog(q, r)'
    BY Zenon, <1>3, MoreDone DEF Inv, NoQuorum
  <2> QED
    BY <2>1 DEF Inv, Provenance, NoQuorum, memtable, disk
<1> QED
  BY <1>1, <1>2, <1>4 DEF Inv

\* Emptying the memtable into a new file of level 0.
LEMMA DrainInv ==
  ASSUME Inv, open, nextFile < MaxFiles, NEW t \in Table, Drain(t),
         UNCHANGED <<open, log, tables, stops>>,
         \A k \in Keys : FromLog(k, t[k])',
         \A k \in Keys : \A r : FromLog(k, r) => FromLog(k, r)'
  PROVE  Inv'
<1>1. nextFile \in Names
  BY BoundsAssumption DEF Inv, TypeOK, Names
<1>2. file' = [file EXCEPT ![nextFile] = [state |-> "partial", table |-> t]]
  BY Zenon DEF Drain, Create, DrainSorted
<1>3. TypeOK'
  <2>1. file' \in [Names -> [state : {"none", "partial", "complete"}, table : Table]]
    BY Zenon, <1>1, <1>2 DEF Inv, TypeOK
  <2>2. nextFile' \in 1..MaxFiles + 1 /\ memBytes' \in Int
    BY BoundsAssumption DEF Inv, TypeOK, Drain, Create
  <2> QED
    BY Zenon, <1>1, <2>1, <2>2, EmptyTableType DEF Inv, TypeOK, Drain, Create, log, tables
<1>4. Shape'
  <2>1. \A n \in l0Dir \cup l1Dir : n # nextFile /\ n \in Names
    BY DEF Inv, Shape, TypeOK, Names
  <2>2. \A n \in l0 \cup l1 : file'[n] = file[n]
    BY Zenon, <1>2, <2>1 DEF Inv, TypeOK
  <2>3. nextFile' = nextFile + 1 /\ Building' = nextFile /\ nextFile \in Int /\ MaxFiles \in Int
    BY BoundsAssumption DEF Inv, TypeOK, Drain, Create, Building
  <2>4. file'[nextFile].state = "partial"
    BY Zenon, <1>1, <1>2 DEF Inv, TypeOK
  <2>5. \A n \in l0Dir' \cup l1Dir' : n < nextFile'
    BY <2>1, <2>3 DEF Inv, Shape, Drain, Names
  <2>6. l0Dir' \cap l1Dir' = {}
    BY Zenon, <2>1 DEF Inv, Shape, Drain
  <2> QED
    BY <2>2, <2>3, <2>4, <2>5, <2>6 DEF Inv, Shape, Drain, TablesReadable, tables
<1>5. Provenance'
  <2> SUFFICES ASSUME NEW k \in Keys
               PROVE  FromLog(k, mem[k])' /\ \A n \in Names : FromLog(k, file[n].table[k])'
    BY Zenon DEF Provenance
  <2>1. FromLog(k, Absent)'
    BY DEF FromLog, Absent
  <2>2. mem'[k] = Absent
    BY DEF Drain, EmptyTable
  <2>3. ASSUME NEW n \in Names PROVE FromLog(k, file[n].table[k])'
    <3>1. CASE n = nextFile
      BY Zenon, <1>1, <1>2, <3>1 DEF Inv, TypeOK
    <3>2. CASE n # nextFile
      BY Zenon, <1>2, <3>2 DEF Inv, TypeOK, Provenance
    <3> QED BY Zenon, <3>1, <3>2
  <2> QED
    BY Zenon, <2>1, <2>2, <2>3
<1> QED
  BY <1>3, <1>4, <1>5 DEF Inv

\* The record of the write in flight is done once it is applied.
LEMMA ApplyDone ==
  ASSUME Inv, Apply
  PROVE  /\ wal' = wal /\ pc' # "appended"
         /\ Len(wal) \in 1..Len(wal) /\ InFlight \in LogRecord
         /\ \A k \in Keys : Done(k)' = IF k = InFlight.key THEN Done(k) \cup {Len(wal)} ELSE Done(k)
         /\ MemAfter(InFlight.key, RecordAt(Len(wal))) \in Table
         /\ \A k \in Keys : \A r : r = MemAfter(InFlight.key, RecordAt(Len(wal)))[k] => FromLog(k, r)'
<1>1. wal' = wal /\ pc = "appended" /\ pc' # "appended" /\ refused' = refused /\ replayed' = replayed
  BY Zenon DEF Apply, Drain, Return, log
<1>2. Len(wal) \in 1..Len(wal) /\ Len(wal) \notin refused
  BY <1>1, WalType DEF Inv, TypeOK, Shape
<1>3. InFlight \in LogRecord
  BY Zenon, <1>2, WalType DEF InFlight, Inv
<1>4. \A k \in Keys : Done(k)' = IF k = InFlight.key THEN Done(k) \cup {Len(wal)} ELSE Done(k)
  BY Zenon, <1>1, <1>2, WalType DEF Done, Applied, PositionsOf, InFlight, Inv
<1>5. MemAfter(InFlight.key, RecordAt(Len(wal))) \in Table
  BY <1>2, <1>3 DEF MemAfter, RecordAt, InFlight, LogRecord, Record, Table, Inv, TypeOK
<1>6. ASSUME NEW k \in Keys, NEW r, r = MemAfter(InFlight.key, RecordAt(Len(wal)))[k]
      PROVE  FromLog(k, r)'
  <2>1. CASE k = InFlight.key
    <3>1. r = [seq |-> Len(wal), val |-> wal[Len(wal)].val]
      BY Zenon, <1>6, <2>1 DEF MemAfter, RecordAt, Inv, TypeOK, Table
    <3>2. Len(wal) \in Done(k)'
      BY Zenon, <1>4, <2>1
    <3> QED BY Zenon, <1>1, <3>1, <3>2 DEF FromLog, RecordAt
  <2>2. CASE k # InFlight.key
    <3>1. FromLog(k, r)
      BY <1>6, <2>2 DEF MemAfter, Inv, TypeOK, Table, Provenance
    <3> QED BY Zenon, <1>1, <1>4, <3>1, MoreDone DEF Inv
  <2> QED BY Zenon, <2>1, <2>2
<1> QED
  BY Zenon, <1>1, <1>2, <1>3, <1>4, <1>5, <1>6

\* Set and Delete move the record in flight to the memtable or the new file.
LEMMA ApplyInv ==
  ASSUME Inv, Apply
  PROVE  Inv'
<1> DEFINE k0 == InFlight.key
           t == MemAfter(k0, RecordAt(Len(wal)))
<1>1. \A q \in Keys : \A r : FromLog(q, r) => FromLog(q, r)'
  BY Zenon, ApplyDone, MoreDone DEF Inv
<1>2. pc = "appended" /\ open /\ nextFile < MaxFiles /\ UNCHANGED <<open, log, tables, stops>>
  BY Zenon DEF Apply, Inv, Shape
<1>3. t \in Table /\ \A k \in Keys : \A r : r = t[k] => FromLog(k, r)'
  BY Zenon, ApplyDone
<1>4. CASE MustFlush(RecordAt(Len(wal)).val, MemBytesAfter(k0, RecordAt(Len(wal))))
  <2>1. Drain(t)
    BY <1>4 DEF Apply
  <2> HIDE DEF t
  <2> QED
    BY Zenon, <1>1, <1>2, <1>3, <2>1, DrainInv
<1>5. CASE ~MustFlush(RecordAt(Len(wal)).val, MemBytesAfter(k0, RecordAt(Len(wal))))
  <2>1. mem' = t /\ memBytes' = MemBytesAfter(k0, RecordAt(Len(wal))) /\ Return("ok") /\ UNCHANGED disk
    BY Zenon, <1>5 DEF Apply
  <2>2. memBytes' \in Int
    BY <2>1 DEF MemBytesAfter, EntryBytes, Inv, TypeOK
  <2> HIDE DEF t
  <2>3. TypeOK'
    BY Zenon, <1>2, <1>3, <2>1, <2>2 DEF Inv, TypeOK, Return, disk, log, tables
  <2>4. Shape'
    BY Zenon, <1>2, <2>1 DEF Inv, Shape, Return, disk, log, tables, TablesReadable
  <2>5. Provenance'
    BY Zenon, <1>1, <1>3, <2>1 DEF Inv, Provenance, disk
  <2> QED
    BY Zenon, <2>3, <2>4, <2>5 DEF Inv
<1> QED
  BY Zenon, <1>4, <1>5

\* FlushMemTable from outside writes records that were applied.
LEMMA FlushMemTableInv ==
  ASSUME Inv, FlushMemTable
  PROVE  Inv'
<1>1. open /\ nextFile < MaxFiles /\ Drain(mem) /\ UNCHANGED <<open, log, tables, stops>>
      /\ pc = "idle" /\ pc' = "flushing"
  BY DEF FlushMemTable, Idle, Drain
<1>2. \A k, r : FromLog(k, r)' <=> FromLog(k, r)
  BY Zenon, <1>1, SameLog
<1>3. mem \in Table /\ \A k \in Keys : FromLog(k, mem[k])
  BY DEF Inv, TypeOK, Provenance
<1> QED
  BY Zenon, <1>1, <1>2, <1>3, DrainInv

\* Completing the file under construction changes no record.
LEMMA CompleteFile ==
  ASSUME TypeOK, Building \in Names, Complete
  PROVE  /\ file' \in [Names -> [state : {"none", "partial", "complete"}, table : Table]]
         /\ \A n \in Names : file'[n].table = file[n].table
         /\ \A n \in Names : file'[n].state = IF n = Building THEN "complete" ELSE file[n].state
  BY DEF TypeOK, Complete

\* A completed level-0 file may be read.
LEMMA InstallNewL0Inv ==
  ASSUME Inv, InstallNewL0
  PROVE  Inv'
<1>1. pc = "flushing" /\ pc' = "installed" /\ Building \in l0Dir /\ Building \in Names
  BY Zenon DEF InstallNewL0, Inv, Shape, TypeOK
<1>2. /\ file' \in [Names -> [state : {"none", "partial", "complete"}, table : Table]]
      /\ \A n \in Names : file'[n].table = file[n].table
      /\ \A n \in Names : file'[n].state = IF n = Building THEN "complete" ELSE file[n].state
  BY Zenon, <1>1, CompleteFile DEF Inv, InstallNewL0
<1>3. TypeOK'
  BY Zenon, <1>1, <1>2 DEF Inv, TypeOK, InstallNewL0, log, memtable
<1>4. Shape'
  BY Zenon, <1>1, <1>2 DEF Inv, Shape, TypeOK, InstallNewL0, log, memtable, TablesReadable
<1>5. Provenance'
  BY Zenon, <1>1, <1>2, SameLog DEF Inv, Provenance, InstallNewL0, memtable
<1> QED
  BY Zenon, <1>3, <1>4, <1>5 DEF Inv

\* The output of a compaction depends on the level-0 tables alone.
LEMMA SameCompaction ==
  ASSUME l0' = l0, \A n \in l0 : \A k \in Keys : Read(n, k)' = Read(n, k)
  PROVE  CompactLevel0ToLevel1' = CompactLevel0ToLevel1
<1>1. ASSUME NEW k \in Keys
      PROVE  {Read(n, k) : n \in l0}' = {Read(n, k) : n \in l0}
  OBVIOUS
<1>2. ASSUME NEW k \in Keys
      PROVE  Latest({Read(n, k) : n \in l0})' = Latest({Read(n, k) : n \in l0})
  BY Zenon, <1>1 DEF Latest
<1> QED
  BY <1>2 DEF CompactLevel0ToLevel1, Live, Absent

\* The file a compaction starts is new and belongs to level 1.
LEMMA MaybeCompactInv ==
  ASSUME Inv, MaybeCompact
  PROVE  Inv'
<1>1. pc = "installed" /\ pc' # "appended" /\ open /\ l0 # {} /\ nextFile <= MaxFiles
      /\ UNCHANGED <<open, log, memtable, tables, stops>>
  BY DEF MaybeCompact, Inv, Shape, Return
<1>2. \A k, r : FromLog(k, r)' <=> FromLog(k, r)
  BY Zenon, <1>1, SameLog
<1>3. CASE pc' = "idle" /\ UNCHANGED disk /\ status' \in {"ok", "io_error"}
  <2>1. TypeOK' /\ Shape'
    BY Zenon, <1>1, <1>3 DEF Inv, TypeOK, Shape, TablesReadable, disk, log, memtable, tables
  <2>2. Provenance'
    BY <1>1, <1>2, <1>3 DEF Inv, Provenance, disk, memtable
  <2> QED BY Zenon, <2>1, <2>2 DEF Inv
<1>4. CASE /\ Create(CompactLevel0ToLevel1) /\ l1Dir' = l1Dir \cup {nextFile}
           /\ pc' = "compacting" /\ UNCHANGED <<status, l0Dir>>
  <2> DEFINE t == CompactLevel0ToLevel1
  <2>1. t \in Table /\ \A k \in Keys : FromLog(k, t[k])
    BY Zenon, <1>1, CompactionType
  <2>2. nextFile \in Names /\ nextFile' = nextFile + 1 /\ Building' = nextFile
    BY <1>1, <1>4, BoundsAssumption DEF Inv, TypeOK, Names, Create, Building
  <2>3. file' = [file EXCEPT ![nextFile] = [state |-> "partial", table |-> t]]
    BY Zenon, <1>4 DEF Create
  <2>4. \A n \in l0Dir \cup l1Dir : n \in Names /\ n # nextFile /\ n < nextFile
    BY <2>2 DEF Inv, TypeOK, Shape, Names
  <2>5. \A n \in l0Dir \cup l1Dir : file'[n] = file[n]
    BY Zenon, <2>3, <2>4 DEF Inv, TypeOK
  <2>6. CompactLevel0ToLevel1' = t
    <3>1. \A n \in l0 : \A k \in Keys : Read(n, k)' = Read(n, k)
      BY Zenon, <2>5 DEF Read, Inv, TypeOK
    <3> QED BY Zenon, <1>1, <3>1, SameCompaction DEF tables
  <2> HIDE DEF t
  <2>7. TypeOK'
    <3>1. file' \in [Names -> [state : {"none", "partial", "complete"}, table : Table]]
      BY Zenon, <2>1, <2>2, <2>3 DEF Inv, TypeOK
    <3>2. nextFile' \in 1..MaxFiles + 1
      BY <1>1, <2>2, BoundsAssumption DEF Inv, TypeOK
    <3> QED
      BY Zenon, <1>1, <1>4, <2>2, <3>1, <3>2 DEF Inv, TypeOK, log, memtable, tables
  <2>8. Shape'
    <3>1. file'[nextFile].state = "partial" /\ file'[nextFile].table = t
      BY Zenon, <2>2, <2>3 DEF Inv, TypeOK
    <3>2. \A n \in l0Dir' \cup l1Dir' : n < nextFile'
      BY <1>4, <2>2, <2>4 DEF Names
    <3>3. l0Dir' \cap l1Dir' = {}
      BY Zenon, <1>4, <2>4 DEF Inv, Shape
    <3>4. TablesReadable'
      BY <1>1, <2>5 DEF Inv, Shape, TypeOK, TablesReadable, tables
    <3>5. l0' # {}
      BY Zenon, <1>1 DEF tables
    <3> QED
      BY Zenon, <1>1, <1>4, <2>2, <2>6, <3>1, <3>2, <3>3, <3>4, <3>5 DEF Shape
  <2>9. Provenance'
    <3> SUFFICES ASSUME NEW k \in Keys
                 PROVE  FromLog(k, mem[k])' /\ \A n \in Names : FromLog(k, file[n].table[k])'
      BY Zenon DEF Provenance
    <3>1. FromLog(k, mem[k])'
      BY <1>1, <1>2 DEF Inv, Provenance, memtable
    <3>2. ASSUME NEW n \in Names PROVE FromLog(k, file[n].table[k])'
      <4>1. CASE n = nextFile
        BY Zenon, <1>2, <2>1, <2>2, <2>3, <4>1 DEF Inv, TypeOK
      <4>2. CASE n # nextFile
        BY Zenon, <1>2, <2>3, <4>2 DEF Inv, TypeOK, Provenance
      <4> QED BY Zenon, <4>1, <4>2
    <3> QED BY Zenon, <3>1, <3>2
  <2> QED BY <2>7, <2>8, <2>9 DEF Inv
<1> QED
  BY Zenon, <1>3, <1>4 DEF MaybeCompact, Return

\* The output replaces tables nobody reads from then on.
LEMMA InstallL1Inv ==
  ASSUME Inv, InstallL1
  PROVE  Inv'
<1>1. pc = "compacting" /\ pc' = "unlinking" /\ open /\ Building \in l1Dir /\ Building \in Names
  BY Zenon DEF InstallL1, Inv, Shape, TypeOK
<1>2. /\ file' \in [Names -> [state : {"none", "partial", "complete"}, table : Table]]
      /\ \A n \in Names : file'[n].table = file[n].table
      /\ \A n \in Names : file'[n].state = IF n = Building THEN "complete" ELSE file[n].state
  BY Zenon, <1>1, CompleteFile DEF Inv, InstallL1
<1>3. TypeOK'
  BY Zenon, <1>1, <1>2 DEF Inv, TypeOK, InstallL1, log, memtable
<1>4. Shape'
  BY Zenon, <1>1, <1>2 DEF Inv, Shape, TypeOK, InstallL1, log, memtable, TablesReadable
<1>5. Provenance'
  BY Zenon, <1>1, <1>2, SameLog DEF Inv, Provenance, InstallL1, memtable
<1> QED
  BY Zenon, <1>3, <1>4, <1>5 DEF Inv

\* Only files of tables that are out of use are removed.
LEMMA UnlinkInv ==
  ASSUME Inv, Unlink
  PROVE  Inv'
<1> DEFINE rest == {n \in l0Dir : file[n].state = "complete"}
<1>1. pc = "unlinking" /\ pc' # "appended" /\ open /\ l0 = {}
      /\ UNCHANGED <<open, log, memtable, tables, stops>>
  BY DEF Unlink, Inv, Shape, Return
<1>2. \A k, r : FromLog(k, r)' <=> FromLog(k, r)
  BY <1>1, SameLog
<1>3. CASE rest = {}
  <2>1. pc' = "idle" /\ status' = "ok" /\ UNCHANGED disk
    BY Zenon, <1>3 DEF Unlink, Return
  <2>2. TypeOK' /\ Shape'
    BY Zenon, <1>1, <2>1 DEF Inv, TypeOK, Shape, TablesReadable, disk, log, memtable, tables
  <2>3. Provenance'
    BY Zenon, <1>1, <1>2, <2>1 DEF Inv, Provenance, disk, memtable
  <2> QED BY Zenon, <2>2, <2>3 DEF Inv
<1>4. CASE rest # {}
  <2> DEFINE n == Min(rest)
  <2>1. /\ l0Dir' = l0Dir \ {n} /\ file' = [file EXCEPT ![n] = NoFile]
        /\ UNCHANGED <<pc, status, l1Dir, nextFile>>
    BY <1>4 DEF Unlink
  <2>3. n \in rest
    <3>1. \E x \in rest : \A y \in rest : x <= y
      <4>1. rest \in SUBSET Nat
        <5>1. l0Dir \subseteq 1..MaxFiles
          BY DEF Inv, TypeOK, Names
        <5>2. l0Dir \subseteq Nat
          BY <5>1, BoundsAssumption
        <5> QED BY Zenon, <5>2
      <4> HIDE DEF rest
      <4> QED BY Zenon, <1>4, <4>1, MinExists
    <3> HIDE DEF rest
    <3> QED BY <3>1 DEF Min
  <2>4. n \in l0Dir /\ n \in Names /\ n \notin l1Dir
    BY <2>3 DEF Inv, TypeOK, Shape
  <2> HIDE DEF n
  <2>5. NoFile \in [state : {"none", "partial", "complete"}, table : Table]
    BY Zenon, EmptyTableType DEF NoFile
  <2>6. TypeOK'
    BY Zenon, <1>1, <2>1, <2>4, <2>5 DEF Inv, TypeOK, log, memtable, tables
  <2>7. \A m \in l0 \cup l1 : file'[m] = file[m]
    BY Zenon, <1>1, <2>1, <2>4 DEF Inv, TypeOK
  <2>8. Shape'
    BY Zenon, <1>1, <2>1, <2>7 DEF Inv, Shape, TablesReadable, tables
  <2>9. Provenance'
    <3> SUFFICES ASSUME NEW k \in Keys
                 PROVE  FromLog(k, mem[k])' /\ \A m \in Names : FromLog(k, file[m].table[k])'
      BY Zenon DEF Provenance
    <3>1. FromLog(k, mem[k])'
      BY Zenon, <1>1, <1>2 DEF Inv, Provenance, memtable
    <3>2. ASSUME NEW m \in Names PROVE FromLog(k, file[m].table[k])'
      <4>1. CASE m = n
        <5>1. file'[m].table[k] = Absent
          BY Zenon, <2>1, <2>4, <4>1 DEF NoFile, EmptyTable, Inv, TypeOK
        <5> QED BY Zenon, <5>1 DEF FromLog, Absent
      <4>2. CASE m # n
        BY Zenon, <1>2, <2>1, <4>2 DEF Inv, TypeOK, Provenance
      <4> QED BY Zenon, <4>1, <4>2
    <3> QED BY Zenon, <3>1, <3>2
  <2> QED BY Zenon, <2>6, <2>8, <2>9 DEF Inv
<1> QED
  BY Zenon, <1>3, <1>4

\* A failed build leaves a file that no table list names.
LEMMA BuildFailsInv ==
  ASSUME Inv, BuildFails
  PROVE  Inv'
<1>1. pc' = "idle" /\ pc \in {"flushing", "compacting"} /\ status' = "io_error"
      /\ UNCHANGED <<open, log, memtable, tables, stops>>
  BY DEF BuildFails, Return
<1>2. \A k, r : FromLog(k, r)' <=> FromLog(k, r)
  BY <1>1, SameLog
<1>3. CASE UNCHANGED disk
  <2>1. TypeOK' /\ Shape'
    BY Zenon, <1>1, <1>3 DEF Inv, TypeOK, Shape, TablesReadable, disk, log, memtable, tables
  <2>2. Provenance'
    BY Zenon, <1>1, <1>2, <1>3 DEF Inv, Provenance, disk, memtable
  <2> QED BY Zenon, <2>1, <2>2 DEF Inv
<1>4. CASE NotCreated
  <2>1. /\ Building \notin l0 \cup l1
        /\ l0Dir' = l0Dir \ {Building} /\ l1Dir' = l1Dir \ {Building}
        /\ file' = [file EXCEPT ![Building] = NoFile] /\ nextFile' = nextFile
    BY Zenon, <1>1, <1>4 DEF NotCreated, Inv, Shape, TablesReadable
  <2>2. file' \in [Names -> [state : {"none", "partial", "complete"}, table : Table]]
    <3>1. NoFile \in [state : {"none", "partial", "complete"}, table : Table]
      BY EmptyTableType DEF NoFile
    <3> QED BY Zenon, <2>1, <3>1 DEF Inv, TypeOK
  <2>3. l0' \subseteq l0Dir' /\ l1' \subseteq l1Dir'
    BY <1>1, <2>1 DEF Inv, TypeOK, tables
  <2>4. TypeOK'
    BY <1>1, <2>1, <2>2, <2>3 DEF Inv, TypeOK, log, memtable
  <2>5. TablesReadable'
    BY Zenon, <1>1, <2>1 DEF Inv, TypeOK, Shape, TablesReadable, tables
  <2>6. Shape'
    BY Zenon, <1>1, <2>1, <2>5 DEF Inv, Shape
  <2>7. ASSUME NEW k \in Keys, NEW n \in Names PROVE FromLog(k, file[n].table[k])'
    <3>1. CASE n = Building
      BY Zenon, <2>1, <3>1 DEF Inv, TypeOK, NoFile, EmptyTable, FromLog, Absent
    <3>2. CASE n # Building
      BY Zenon, <1>2, <2>1, <3>2 DEF Inv, TypeOK, Provenance
    <3> QED BY Zenon, <3>1, <3>2
  <2>8. Provenance'
    BY Zenon, <1>1, <1>2, <2>7 DEF Inv, Provenance, memtable
  <2> QED BY Zenon, <2>4, <2>6, <2>8 DEF Inv
<1> QED BY <1>3, <1>4 DEF BuildFails

\* Stopping the process loses only what is in memory.
LEMMA ForgetInv ==
  ASSUME Inv, Forget, stops < MaxStops, stops' = stops + 1
  PROVE  Inv'
<1>1. pc' = "idle" /\ UNCHANGED <<status, log, disk>> /\ mem' = EmptyTable
  BY Zenon DEF Forget
<1>2. \A k \in Keys : Done(k) \subseteq Done(k)'
  BY Zenon, <1>1 DEF Done, Applied, PositionsOf, log
<1>3. \A k \in Keys : \A r : FromLog(k, r) => FromLog(k, r)'
  BY Zenon, <1>1, <1>2, MoreDone DEF Inv, log
<1>4. stops' \in 0..MaxStops
  BY BoundsAssumption DEF Inv, TypeOK
<1>5. TypeOK'
  <2>1. open' \in BOOLEAN
    BY Zenon DEF Forget
  <2>2. memBytes' \in Int
    BY DEF Forget
  <2>3. mem' \in Table
    BY Zenon, <1>1, EmptyTableType
  <2>4. l0' \subseteq l0Dir' /\ l1' \subseteq l1Dir'
    BY Zenon DEF Forget
  <2> QED
    BY Zenon, <1>1, <1>4, <2>1, <2>2, <2>3, <2>4 DEF Inv, TypeOK, disk, log
<1>6. Shape'
  BY Zenon, <1>1 DEF Inv, Shape, Forget, TablesReadable, disk, log
<1>7. Provenance'
  <2>1. \A k \in Keys : FromLog(k, Absent)'
    BY Zenon DEF FromLog, Absent
  <2> QED
    BY Zenon, <1>1, <1>3, <2>1 DEF Inv, Provenance, EmptyTable, disk
<1> QED BY Zenon, <1>5, <1>6, <1>7 DEF Inv

\* Replaying the log keeps the last record of each key.
LEMMA ReplayWalLast ==
  ASSUME TypeOK, NEW k \in Keys
  PROVE  /\ ReplayWal[k] \in Record
         /\ ReplayWal[k] = Absent \/ /\ ReplayWal[k].seq \in PositionsOf(k)
                                     /\ ReplayWal[k] = RecordAt(ReplayWal[k].seq)
         /\ \A i \in PositionsOf(k) : (\A j \in PositionsOf(k) : j <= i) => ReplayWal[k].seq = i
<1> DEFINE P == PositionsOf(k)
<1>1. CASE P = {}
  BY Zenon, <1>1 DEF ReplayWal, Absent, Record
<1>2. CASE P # {}
  <2>1. P \in SUBSET (1..Len(wal)) /\ Len(wal) \in Nat
    BY Zenon, WalType DEF PositionsOf
  <2>2. Max(P) \in P /\ \A y \in P : y <= Max(P)
    <3> HIDE DEF P
    <3> QED BY Zenon, <1>2, <2>1, MaxOf
  <2>3. ReplayWal[k] = [seq |-> Max(P), val |-> wal[Max(P)].val]
    BY <1>2 DEF ReplayWal, RecordAt
  <2>4. Max(P) \in 1..Len(wal) /\ wal[Max(P)] \in LogRecord
    BY <2>1, <2>2, WalType
  <2>5. ASSUME NEW i \in P, \A j \in P : j <= i PROVE Max(P) = i
    <3>1. i <= Max(P) /\ Max(P) <= i /\ i \in Int /\ Max(P) \in Int
      BY <2>1, <2>2, <2>5
    <3> QED BY <3>1
  <2> HIDE DEF P
  <2>6. ReplayWal[k].seq = Max(P) /\ ReplayWal[k] = RecordAt(Max(P)) /\ ReplayWal[k] \in Record
    BY <2>1, <2>3, <2>4 DEF RecordAt, Record, LogRecord
  <2> QED
    BY Zenon, <2>2, <2>5, <2>6 DEF P
<1> QED
  BY Zenon, <1>1, <1>2

\* Open rebuilds the memtable from the log and the tables from the directories.
LEMMA OpenInv ==
  ASSUME Inv, Open
  PROVE  Inv'
<1>1. \A k \in Keys : Done(k) \subseteq PositionsOf(k)
  BY Zenon DEF Done, Applied
<1>2. pc = "idle" /\ pc' = "idle" /\ wal' = wal /\ refused' = refused /\ replayed' = Len(wal)
      /\ UNCHANGED <<status, disk, stops>>
  BY DEF Inv, Shape, Open
<1>3. \A k \in Keys : Done(k)' = PositionsOf(k)
  BY <1>2, WalType DEF Inv, Done, Applied, PositionsOf
<1>4. \A k \in Keys : \A r : FromLog(k, r) => FromLog(k, r)'
  BY Zenon, <1>1, <1>2, <1>3, MoreDone DEF Inv
<1>5. TypeOK'
  <2>1. mem' \in Table
    BY Zenon, ReplayWalLast DEF Inv, Open, ReplayWal, Table
  <2>2. memBytes' \in Int
    <3>1. IsFiniteSet({k \in Keys : mem'[k].seq > 0 /\ Live(mem'[k])})
      BY Zenon, KeysAssumption, FS_Subset
    <3>2. IsFiniteSet({k \in Keys : mem'[k].seq > 0 /\ ~Live(mem'[k])})
      BY Zenon, KeysAssumption, FS_Subset
    <3>3. /\ Cardinality({k \in Keys : mem'[k].seq > 0 /\ Live(mem'[k])}) \in Nat
          /\ Cardinality({k \in Keys : mem'[k].seq > 0 /\ ~Live(mem'[k])}) \in Nat
      BY Zenon, <3>1, <3>2, FS_CardinalityType
    <3>4. \A a, b \in Nat : 2 * a + b \in Int
      OBVIOUS
    <3>5. SizeOf(mem') \in Int
      BY Zenon, <3>3, <3>4 DEF SizeOf
    <3> QED
      BY Zenon, <3>5 DEF Open
  <2>3. open' \in BOOLEAN /\ l0' \subseteq l0Dir' /\ l1' \subseteq l1Dir'
    BY DEF Open, disk
  <2>4. replayed' \in 0..Len(wal')
    BY <1>2, WalType DEF Inv
  <2> QED
    BY Zenon, <1>2, <2>1, <2>2, <2>3, <2>4 DEF Inv, TypeOK, disk
<1>6. Shape'
  BY Zenon, <1>2 DEF Inv, Shape, Open, Openable, TablesReadable, disk
<1>7. Provenance'
  <2>1. ASSUME NEW k \in Keys PROVE FromLog(k, mem[k])'
    <3>1. mem'[k] = ReplayWal[k]
      BY Zenon DEF Open
    <3>2. mem'[k] = Absent \/ (mem'[k].seq \in Done(k)' /\ mem'[k] = RecordAt(mem'[k].seq))
      BY Zenon, <1>3, <3>1, ReplayWalLast DEF Inv
    <3> QED BY Zenon, <1>2, <3>2 DEF FromLog, RecordAt, Absent
  <2> QED
    BY Zenon, <1>2, <1>4, <2>1 DEF Inv, Provenance, disk
<1> QED BY Zenon, <1>5, <1>6, <1>7 DEF Inv

\* The refusal of a write by a full log, a failed start and a stuttering
\* step touch nothing the invariant is about.
LEMMA QuietInv ==
  ASSUME Inv, UNCHANGED <<open, pc, log, memtable, tables, disk, stops>>,
         status' \in {"ok", "io_error", "no_quorum", "corruption"}
  PROVE  Inv'
<1>1. TypeOK'
  BY Zenon DEF Inv, TypeOK, disk, log, memtable, tables
<1>2. \A k, r : FromLog(k, r)' <=> FromLog(k, r)
  BY Zenon, SameLog
<1>3. CompactLevel0ToLevel1' = CompactLevel0ToLevel1
  BY DEF CompactLevel0ToLevel1, Read, tables, disk, Latest, Live, Absent
<1>4. Shape'
  BY Zenon, <1>3 DEF Inv, Shape, TablesReadable, disk, log, memtable, tables, Building
<1>5. Provenance'
  BY Zenon, <1>2 DEF Inv, Provenance, disk, memtable
<1> QED BY Zenon, <1>1, <1>4, <1>5 DEF Inv

\* Every step keeps the invariant.
LEMMA NextInv == Inv /\ [Next]_vars => Inv'
<1> SUFFICES ASSUME Inv, [Next]_vars PROVE Inv'
  OBVIOUS
<1>1. ASSUME NEW k \in Keys, Delete(k) PROVE Inv'
  BY Zenon, <1>1, WriteInv DEF Delete
<1>2. ASSUME NEW k \in Keys, NEW v \in Values, Set(k, v) PROVE Inv'
  BY Zenon, <1>2, WriteInv DEF Set
<1>3. CASE AppendFull
  BY <1>3, QuietInv DEF AppendFull, Return, Idle
<1>4. CASE Close \/ Crash
  BY Zenon, <1>4, ForgetInv DEF Close, Crash
<1>5. CASE OpenFails
  BY Zenon, <1>5, QuietInv DEF OpenFails
<1>6. CASE UNCHANGED vars
  <2>1. status \in {"ok", "io_error", "no_quorum", "corruption"}
    BY DEF Inv, TypeOK
  <2> QED BY Zenon, <1>6, <2>1, QuietInv DEF vars
<1> QED
  BY Zenon, <1>1, <1>2, <1>3, <1>4, <1>5, <1>6, NoQuorumInv, FlushMemTableInv, ApplyInv,
     InstallNewL0Inv, MaybeCompactInv, InstallL1Inv, UnlinkInv, BuildFailsInv, OpenInv
     DEF Next, Step

\* Every reachable state satisfies the invariant.
THEOREM Invariance == Spec => []Inv
  BY InitInv, NextInv, PTL DEF Spec

-----------------------------------------------------------------------------
(* Placement: where the last write to a key is found *)

\* A step that neither finishes a write nor moves a record.
LEMMA SamePlace ==
  ASSUME Inv, Placement, open, mem' = mem, L0View' = L0View, l1' = l1,
         \A n \in L0View \cup l1 : file'[n].table = file[n].table,
         \A k \in Keys : Done(k)' = Done(k),
         \A i \in 1..Len(wal) : wal'[i] = wal[i]
  PROVE  Placement'
<1> SUFFICES ASSUME NEW k \in Keys, NEW i, LastDone(k, i)'
             PROVE  Located(k, i)'
  BY Zenon DEF Placement
<1>1. i \in Done(k) /\ \A j \in Done(k) : j <= i
  BY Zenon DEF LastDone
<1>2. i \in 1..Len(wal)
  BY Zenon, <1>1 DEF Done, Applied, PositionsOf
<1>3. Located(k, i)
  BY Zenon, <1>1, <1>2 DEF Placement, LastDone
<1>4. RecordAt(i)' = RecordAt(i)
  BY Zenon, <1>2 DEF RecordAt
<1>5. FoundIn(L0View, k, i) => FoundIn(L0View, k, i)'
  BY DEF FoundIn
<1>6. NoneIn(L0View, k) => NoneIn(L0View, k)'
  BY Zenon DEF NoneIn
<1>7. FoundIn(l1, k, i) => FoundIn(l1, k, i)'
  BY DEF FoundIn
<1> QED
  BY Zenon, <1>3, <1>4, <1>5, <1>6, <1>7 DEF Located, FoundWith, Live

\* Emptying a memtable t writes it to a new file with the highest number and
\* leaves the installed files alone.
LEMMA DrainFiles ==
  ASSUME Inv, NEW t \in Table, Drain(t), nextFile < MaxFiles, UNCHANGED tables
  PROVE  /\ nextFile \in Int /\ file'[nextFile].table = t
         /\ \A n \in l0 \cup l1 : n \in Int /\ n < nextFile /\ file'[n] = file[n]
         /\ L0View' = l0 \cup {nextFile}
<1>1. nextFile \in Int /\ nextFile \in Names
  <2>1. nextFile \in 1..(MaxFiles + 1)
    BY Zenon DEF Inv, TypeOK
  <2> QED BY <2>1, BoundsAssumption DEF Names
<1>2. file' = [file EXCEPT ![nextFile] = [state |-> "partial", table |-> t]]
  BY Zenon DEF Drain, Create, DrainSorted
<1>3. DOMAIN file = Names
  BY Zenon DEF Inv, TypeOK
<1>4. file'[nextFile].table = t
  BY Zenon, <1>1, <1>2, <1>3
<1>5. ASSUME NEW n \in l0 \cup l1 PROVE n \in Int /\ n < nextFile /\ file'[n] = file[n]
  <2>1. n \in Names
    BY DEF Inv, TypeOK
  <2>2. n \in Int
    BY <2>1, BoundsAssumption DEF Names
  <2>3. n < nextFile
    BY DEF Inv, TypeOK, Shape
  <2>4. n # nextFile
    BY <1>1, <2>2, <2>3
  <2> QED BY Zenon, <1>2, <1>3, <2>1, <2>2, <2>3, <2>4
<1>6. nextFile' = nextFile + 1 /\ pc' = "flushing" /\ l0' = l0
  BY DEF Drain, Create, tables
<1>7. Building' = nextFile
  BY <1>1, <1>6 DEF Building
<1>8. L0View' = l0 \cup {nextFile}
  BY Zenon, <1>6, <1>7 DEF L0View
<1> QED BY Zenon, <1>1, <1>4, <1>5, <1>8

\* The records of the memtable t become the newest of level 0.
LEMMA DrainPlace ==
  ASSUME Inv, NEW t \in Table, Drain(t), nextFile < MaxFiles,
         UNCHANGED <<open, log, tables, stops>>,
         \A k \in Keys : \A i \in 1..Len(wal) : LastDone(k, i)' => FoundWith(t, l0, k, i)
  PROVE  Placement'
<1> SUFFICES ASSUME NEW k \in Keys, NEW i \in 1..Len(wal), LastDone(k, i)'
             PROVE  Located(k, i)'
  BY Zenon DEF Placement, log
<1> DEFINE b == nextFile
<1>1. tables' = tables /\ l1' = l1 /\ wal' = wal
  BY Zenon DEF tables, log
<1>2. b \in Int /\ file'[b].table = t
  BY Zenon, <1>1, DrainFiles
<1>3. \A n \in l0 : n \in Int /\ n < b /\ file'[n] = file[n]
  BY Zenon, <1>1, DrainFiles
<1>4. \A n \in l1 : file'[n] = file[n]
  BY Zenon, <1>1, DrainFiles
<1>5. L0View' = l0 \cup {b}
  BY Zenon, <1>1, DrainFiles
<1> HIDE DEF b
<1>6. mem'[k].seq = 0
  BY Zenon DEF Drain, EmptyTable, Absent
<1>7. RecordAt(i)' = RecordAt(i)
  BY Zenon, <1>1 DEF RecordAt
<1>8. CASE t[k].seq = i
  <2>1. \A m \in L0View' : ~(b < m)
    BY <1>2, <1>3, <1>5
  <2>2. b \in L0View' /\ file'[b].table[k].seq = i
    BY Zenon, <1>2, <1>5, <1>8
  <2>3. FoundIn(L0View, k, i)'
    BY Zenon, <2>1, <2>2 DEF FoundIn
  <2> QED BY Zenon, <1>6, <2>3 DEF Located, FoundWith
<1>9. CASE t[k].seq = 0 /\ FoundIn(l0, k, i)
  <2>1. PICK n \in l0 : /\ file[n].table[k].seq = i
                        /\ \A m \in l0 : n < m => file[m].table[k].seq = 0
    BY Zenon, <1>9 DEF FoundIn
  <2>2. file'[n].table[k].seq = i /\ n \in L0View'
    BY Zenon, <1>3, <1>5, <2>1
  <2>3. \A m \in l0 : n < m => file'[m].table[k].seq = 0
    BY Zenon, <1>3, <2>1
  <2>4. file'[b].table[k].seq = 0
    BY Zenon, <1>2, <1>9
  <2>5. \A m \in L0View' : n < m => file'[m].table[k].seq = 0
    BY Zenon, <1>5, <2>3, <2>4
  <2>6. FoundIn(L0View, k, i)'
    BY Zenon, <2>2, <2>5 DEF FoundIn
  <2> QED BY Zenon, <1>6, <2>6 DEF Located, FoundWith
<1>10. CASE t[k].seq = 0 /\ NoneIn(l0, k) /\ (Live(RecordAt(i)) => FoundIn(l1, k, i))
  <2>1. NoneIn(L0View, k)'
    BY Zenon, <1>2, <1>3, <1>5, <1>10 DEF NoneIn
  <2>2. FoundIn(l1, k, i) => FoundIn(l1, k, i)'
    BY <1>1, <1>4 DEF FoundIn
  <2> QED BY Zenon, <1>6, <1>7, <1>10, <2>1, <2>2 DEF Located, FoundWith, Live
<1> QED
  BY Zenon, <1>8, <1>9, <1>10 DEF FoundWith

\* A write that takes effect is the first hit for its key.
LEMMA ApplyPlace ==
  ASSUME Inv, Placement, Apply
  PROVE  Placement'
<1> DEFINE k0 == InFlight.key
           r0 == RecordAt(Len(wal))
           t == MemAfter(k0, r0)
<1>1. open /\ pc = "appended" /\ UNCHANGED <<open, log, tables, stops>> /\ nextFile < MaxFiles
  BY Zenon DEF Inv, Shape, Apply
<1>2. k0 \in Keys /\ r0 \in Record /\ r0.seq = Len(wal) /\ Len(wal) \in Nat
  BY Zenon, ApplyDone, WalType DEF LogRecord, RecordAt, InFlight, Record, Inv
<1>3. t \in Table /\ t[k0] = r0 /\ \A k \in Keys \ {k0} : t[k] = mem[k]
  BY Zenon, <1>2 DEF MemAfter, Table, Inv, TypeOK
<1>4. L0View = l0
  BY Zenon, <1>1 DEF L0View
<1> HIDE DEF k0, r0, t
<1>5. ASSUME NEW k \in Keys, NEW i \in 1..Len(wal), LastDone(k, i)'
      PROVE  FoundWith(t, l0, k, i)
  <2>1. CASE k = k0
    <3>1. Len(wal) \in Done(k)'
      BY <2>1, ApplyDone DEF k0
    <3>2. Len(wal) <= i
      BY Zenon, <1>5, <3>1 DEF LastDone
    <3>3. i = Len(wal)
      BY <1>2, <3>2
    <3> QED BY Zenon, <1>2, <1>3, <2>1, <3>3 DEF FoundWith
  <2>2. CASE k # k0
    <3>1. Done(k)' = Done(k)
      BY Zenon, <2>2, ApplyDone DEF k0
    <3>2. LastDone(k, i)
      BY Zenon, <1>5, <3>1 DEF LastDone
    <3>3. Located(k, i)
      BY <1>1, <3>2 DEF Placement
    <3> QED BY Zenon, <1>3, <1>4, <2>2, <3>3 DEF Located, FoundWith
  <2> QED BY Zenon, <2>1, <2>2
<1>6. CASE Drain(t)
  BY <1>1, <1>3, <1>5, <1>6, DrainPlace
<1>7. CASE mem' = t /\ pc' = "idle" /\ UNCHANGED disk
  <2>1. L0View' = l0 /\ l1' = l1 /\ file' = file /\ wal' = wal /\ l0' = l0
    BY Zenon, <1>1, <1>7 DEF L0View, disk, log, tables
  <2> SUFFICES ASSUME NEW k \in Keys, NEW i \in 1..Len(wal), LastDone(k, i)'
               PROVE  Located(k, i)'
    BY Zenon, <2>1 DEF Placement
  <2>2. FoundIn(L0View, k, i)' <=> FoundIn(l0, k, i)
    BY Zenon, <2>1 DEF FoundIn
  <2>3. NoneIn(L0View, k)' <=> NoneIn(l0, k)
    BY Zenon, <2>1 DEF NoneIn
  <2>4. FoundIn(l1, k, i)' <=> FoundIn(l1, k, i)
    BY Zenon, <2>1 DEF FoundIn
  <2>5. RecordAt(i)' = RecordAt(i)
    BY <2>1 DEF RecordAt
  <2> QED
    BY Zenon, <1>5, <1>7, <2>2, <2>3, <2>4, <2>5 DEF Located, FoundWith, Live
<1> QED
  BY <1>6, <1>7 DEF Apply, Return, k0, r0, t

\* The steps of a call that move no record a search can reach.
LEMMA QuietPlace ==
  ASSUME Inv, Placement,
         \/ \E k \in Keys, v \in Values \cup {Tombstone} : Write(k, v)
         \/ NoQuorum \/ InstallNewL0 \/ MaybeCompact \/ Unlink
  PROVE  Placement'
<1>1. ASSUME NEW k \in Keys, NEW v \in Values \cup {Tombstone}, Write(k, v)
      PROVE  Placement'
  <2>1. Len(wal') = Len(wal) + 1 /\ \A i \in 1..Len(wal) : wal'[i] = wal[i]
    <3>1. wal \in Seq(LogRecord) /\ wal' = Append(wal, [key |-> k, val |-> v])
      BY Zenon, <1>1 DEF Inv, TypeOK, Write
    <3>2. [key |-> k, val |-> v] \in LogRecord
      BY Zenon DEF LogRecord
    <3> QED BY <3>1, <3>2
  <2>2. \A q \in Keys : Done(q)' = Done(q)
    BY <1>1, <2>1, WalType DEF Inv, Write, Idle, Done, Applied, PositionsOf
  <2>3. open /\ mem' = mem /\ L0View' = L0View /\ l1' = l1 /\ file' = file
    BY Zenon, <1>1 DEF Write, Idle, L0View, memtable, tables, disk
  <2> QED BY Zenon, <2>1, <2>2, <2>3, SamePlace
<1>2. CASE NoQuorum
  <2>1. \A q \in Keys : Done(q)' = Done(q)
    <3>1. /\ wal' = wal /\ replayed' = replayed /\ refused' = refused \cup {Len(wal)}
          /\ pc = "appended" /\ pc' = "idle"
      BY Zenon, <1>2 DEF NoQuorum, Return, Inv, Shape
    <3> QED
      BY <3>1, WalType DEF Inv, Shape, TypeOK, Done, Applied, PositionsOf
  <2>2. open /\ mem' = mem /\ L0View' = L0View /\ l1' = l1 /\ file' = file /\ wal' = wal
    BY Zenon, <1>2 DEF NoQuorum, Return, Inv, Shape, L0View, memtable, tables, disk
  <2> QED BY Zenon, <2>1, <2>2, SamePlace
<1>3. CASE InstallNewL0
  <2>1. \A q : Done(q)' = Done(q)
    BY Zenon, <1>3, SameLog DEF InstallNewL0
  <2>2. open /\ mem' = mem /\ l1' = l1 /\ wal' = wal /\ L0View' = L0View
    BY Zenon, <1>3 DEF InstallNewL0, Inv, Shape, L0View, memtable, log
  <2>3. \A n \in Names : file'[n].table = file[n].table
    BY Zenon, <1>3, CompleteFile DEF InstallNewL0, Inv, Shape, TypeOK
  <2>4. L0View \cup l1 \subseteq Names
    BY Zenon, <1>3 DEF InstallNewL0, L0View, Inv, Shape, TypeOK
  <2> QED BY Zenon, <2>1, <2>2, <2>3, <2>4, SamePlace
<1>4. CASE MaybeCompact
  <2>1. UNCHANGED <<open, log, memtable, tables, stops>> /\ pc = "installed"
        /\ pc' \in {"idle", "compacting"}
    BY Zenon, <1>4 DEF MaybeCompact, Return
  <2>2. \A q : Done(q)' = Done(q)
    BY Zenon, <2>1, SameLog
  <2>3. open /\ mem' = mem /\ l1' = l1 /\ wal' = wal /\ L0View' = L0View /\ L0View = l0
    BY Zenon, <2>1 DEF Inv, Shape, L0View, memtable, log, tables
  <2>4. \A n \in l0 \cup l1 : n \in Names /\ n # nextFile
    BY DEF Inv, Shape, TypeOK, Names
  <2>5. \A n \in l0 \cup l1 : file'[n] = file[n]
    BY Zenon, <1>4, <2>4 DEF MaybeCompact, Create, Inv, TypeOK, disk
  <2> QED BY Zenon, <2>2, <2>3, <2>5, SamePlace
<1>5. CASE Unlink
  <2>1. UNCHANGED <<open, log, memtable, tables, stops>> /\ pc = "unlinking"
        /\ pc' \in {"idle", "unlinking"}
    BY Zenon, <1>5 DEF Unlink, Return
  <2>2. \A q : Done(q)' = Done(q)
    BY Zenon, <2>1, SameLog
  <2>3. open /\ mem' = mem /\ l1' = l1 /\ wal' = wal /\ L0View' = L0View /\ L0View = {}
    BY Zenon, <2>1 DEF Inv, Shape, L0View, memtable, log, tables
  <2>4. \A n \in l1 : file'[n] = file[n]
    <3> DEFINE rest == {n \in l0Dir : file[n].state = "complete"}
    <3>1. CASE rest = {}
      BY Zenon, <1>5, <3>1 DEF Unlink, disk
    <3>2. CASE rest # {}
      <4>1. file' = [file EXCEPT ![Min(rest)] = NoFile]
        BY Zenon, <1>5, <3>2 DEF Unlink
      <4>2. rest \subseteq Nat
        <5>1. l0Dir \subseteq 1..MaxFiles
          BY DEF Inv, TypeOK, Names
        <5>2. l0Dir \subseteq Nat
          BY <5>1, BoundsAssumption
        <5> QED BY Zenon, <5>2
      <4>3. Min(rest) \in rest
        <5> HIDE DEF rest
        <5>1. PICK x \in rest : \A y \in rest : x <= y
          BY <3>2, <4>2, MinExists
        <5> QED BY <5>1 DEF Min
      <4>4. Min(rest) \notin l1
        BY Zenon, <4>3 DEF Inv, Shape, TypeOK
      <4> HIDE DEF rest
      <4> QED BY Zenon, <4>1, <4>4 DEF Inv, TypeOK
    <3> QED BY Zenon, <3>1, <3>2
  <2> QED BY Zenon, <2>2, <2>3, <2>4, SamePlace
<1> QED
  BY Zenon, <1>1, <1>2, <1>3, <1>4, <1>5

\* A compaction moves the last record of a key to level 1, unless it is a
\* tombstone.
LEMMA InstallL1Place ==
  ASSUME Inv, Placement, InstallL1
  PROVE  Placement'
<1>1. /\ open /\ pc = "compacting" /\ pc' = "unlinking" /\ l0' = {} /\ l0 # {}
      /\ l1' = l1 \cup {Building} /\ mem' = mem /\ wal' = wal
      /\ UNCHANGED log
  BY Zenon DEF InstallL1, Inv, Shape, memtable, log
<1>2. Building \in Names /\ Building \in Int
      /\ file[Building].table = CompactLevel0ToLevel1
  <2>1. Building \in l1Dir /\ file[Building].table = CompactLevel0ToLevel1
    BY Zenon, <1>1 DEF Inv, Shape
  <2>2. l1Dir \subseteq 1..MaxFiles
    BY DEF Inv, TypeOK, Names
  <2>3. Building \in 1..MaxFiles
    BY Zenon, <2>1, <2>2
  <2>4. Building \in Int
    BY <2>3, BoundsAssumption
  <2> QED BY Zenon, <2>1, <2>3, <2>4 DEF Names
<1>3. \A n \in Names : file'[n].table = file[n].table
  BY Zenon, <1>1, <1>2, CompleteFile DEF InstallL1, Inv
<1>4. \A n \in l1 : n \in Int /\ n <= Building /\ n \in Names
  BY DEF Building, Inv, Shape, TypeOK, Names
<1>5. L0View = l0 /\ L0View' = {}
  BY Zenon, <1>1 DEF L0View
<1> SUFFICES ASSUME NEW k \in Keys, NEW i \in 1..Len(wal), LastDone(k, i)'
             PROVE  Located(k, i)'
  BY Zenon, <1>1 DEF Placement
<1>6. LastDone(k, i) /\ RecordAt(i)' = RecordAt(i)
  BY Zenon, <1>1, SameLog DEF LastDone, RecordAt
<1>7. Located(k, i)
  BY <1>1, <1>6 DEF Placement
<1>8. NoneIn(L0View, k)'
  BY Zenon, <1>5 DEF NoneIn
<1> DEFINE R == {Read(n, k) : n \in l0}
<1>9. \A n \in l0 : Read(n, k) = file[n].table[k] /\ n \in Names
  BY Zenon DEF Inv, Shape, TypeOK, TablesReadable, Read
<1>10. \A r \in R : FromLog(k, r)
  BY Zenon, <1>9 DEF Inv, Provenance
<1>11. \A r \in R : r.seq \in 0..Len(wal) /\ (r.seq = 0 => r = Absent)
  BY Zenon, <1>10, StoredSeq DEF Inv
<1>12. Latest(R) \in R /\ \A q \in R : q.seq <= Latest(R).seq
  <2>1. R # {} /\ Len(wal) \in Nat
    BY Zenon, <1>1, WalType DEF Inv
  <2> HIDE DEF R
  <2> QED BY Zenon, <1>11, <2>1, LatestOf
<1>13. CompactLevel0ToLevel1[k] = IF Live(Latest(R)) THEN Latest(R) ELSE Absent
  BY Zenon DEF CompactLevel0ToLevel1
<1>14. CASE mem[k].seq = i
  BY Zenon, <1>1, <1>14 DEF Located, FoundWith
<1>15. CASE mem[k].seq = 0 /\ FoundIn(l0, k, i)
  <2>1. \E r \in R : r.seq = i
    BY Zenon, <1>9, <1>15 DEF FoundIn
  <2>2. Latest(R).seq \in Int /\ i <= Latest(R).seq
    <3> HIDE DEF R
    <3> QED BY <1>11, <1>12, <2>1
  <2>3. Latest(R).seq # 0
    <3> HIDE DEF R
    <3> QED BY <2>2
  <2>4. Latest(R).seq \in Done(k) /\ Latest(R) = RecordAt(Latest(R).seq)
    <3> HIDE DEF R
    <3> QED BY <1>10, <1>12, <2>3 DEF FromLog, Absent
  <2>5. Latest(R).seq <= i
    <3> HIDE DEF R
    <3> QED BY Zenon, <1>6, <2>4 DEF LastDone
  <2>6. Latest(R) = RecordAt(i)
    <3> HIDE DEF R
    <3>1. Latest(R).seq = i
      BY <2>2, <2>5
    <3> QED BY <2>4, <3>1
  <2>7. CASE Live(RecordAt(i))
    <3>1. file'[Building].table[k].seq = i
      <4> HIDE DEF R
      <4>1. CompactLevel0ToLevel1[k] = RecordAt(i)
        BY Zenon, <1>13, <2>6, <2>7
      <4>2. file'[Building].table[k] = RecordAt(i)
        BY Zenon, <1>2, <1>3, <4>1
      <4> QED BY Zenon, <4>2, RecordSeq
    <3>2. \A m \in l1' : ~(Building < m)
      BY <1>1, <1>2, <1>4
    <3>3. FoundIn(l1, k, i)'
      BY Zenon, <1>1, <3>1, <3>2 DEF FoundIn
    <3> QED BY Zenon, <1>1, <1>8, <1>15, <3>3 DEF Located, FoundWith
  <2>8. CASE ~Live(RecordAt(i))
    BY Zenon, <1>1, <1>6, <1>8, <1>15, <2>8 DEF Located, FoundWith, Live
  <2> QED BY Zenon, <2>7, <2>8
<1>16. CASE mem[k].seq = 0 /\ NoneIn(l0, k) /\ (Live(RecordAt(i)) => FoundIn(l1, k, i))
  <2>1. \A r \in R : r = Absent
    BY Zenon, <1>9, <1>11, <1>16 DEF NoneIn
  <2>2. file'[Building].table[k].seq = 0
    <3> HIDE DEF R
    <3>1. CompactLevel0ToLevel1[k] = Absent
      BY Zenon, <1>12, <1>13, <2>1
    <3>2. file'[Building].table[k] = Absent
      BY Zenon, <1>2, <1>3, <3>1
    <3> QED BY Zenon, <3>2, RecordSeq
  <2>3. FoundIn(l1, k, i) => FoundIn(l1, k, i)'
    BY <1>1, <1>3, <1>4, <2>2 DEF FoundIn
  <2> QED BY Zenon, <1>1, <1>6, <1>8, <1>16, <2>3 DEF Located, FoundWith, Live
<1> QED
  BY Zenon, <1>5, <1>7, <1>14, <1>15, <1>16 DEF Located, FoundWith

\* After Open the memtable holds the last record of every key.
LEMMA OpenPlace ==
  ASSUME Inv, Open
  PROVE  Placement'
<1> SUFFICES ASSUME NEW k \in Keys, NEW i, LastDone(k, i)'
             PROVE  mem'[k].seq = i
  BY Zenon DEF Placement, Located, FoundWith
<1>1. wal' = wal /\ pc' = "idle" /\ replayed' = Len(wal) /\ refused' = refused
  BY Zenon DEF Open, Inv, Shape
<1>2. Done(k)' = PositionsOf(k)
  BY <1>1, WalType DEF Inv, Done, Applied, PositionsOf
<1>3. mem'[k] = ReplayWal[k]
  BY Zenon DEF Open
<1> QED
  BY Zenon, <1>2, <1>3, ReplayWalLast DEF Inv, LastDone

\* Nothing is open at first.
LEMMA InitPlace == Init => Placement
  BY Zenon DEF Init, Placement

\* Without disk faults every step keeps the placement.
LEMMA NextPlace == ~DiskMayFail /\ Inv /\ Placement /\ [Next]_vars => Placement'
<1> SUFFICES ASSUME ~DiskMayFail, Inv, Placement, [Next]_vars PROVE Placement'
  BY Zenon
<1>1. ASSUME NEW k \in Keys, NEW v \in Values \cup {Tombstone}, Write(k, v) PROVE Placement'
  BY Zenon, <1>1, QuietPlace
<1>2. CASE FlushMemTable
  <2>1. /\ open /\ pc = "idle" /\ nextFile < MaxFiles /\ mem \in Table /\ Drain(mem)
        /\ UNCHANGED <<open, log, tables, stops>>
    BY Zenon, <1>2 DEF FlushMemTable, Idle, Inv, TypeOK
  <2>2. L0View = l0
    BY Zenon, <2>1 DEF L0View
  <2>3. \A k : Done(k)' = Done(k)
    BY Zenon, <2>1, SameLog DEF Drain
  <2>4. \A k \in Keys : \A i \in 1..Len(wal) : LastDone(k, i)' => Located(k, i)
    BY Zenon, <2>1, <2>3 DEF LastDone, Placement
  <2> QED BY Zenon, <2>1, <2>2, <2>4, DrainPlace DEF Located
<1>3. CASE Close \/ Crash
  BY <1>3 DEF Close, Crash, Forget, Placement
<1>4. CASE ~open /\ open' = open
  BY <1>4 DEF Placement
<1>5. CASE open /\ UNCHANGED <<open, pc, log, memtable, tables, disk>>
  <2>1. \A k : Done(k)' = Done(k)
    BY Zenon, <1>5, SameLog
  <2>2. mem' = mem /\ L0View' = L0View /\ l1' = l1 /\ wal' = wal /\ file' = file
    BY Zenon, <1>5 DEF L0View, Building, memtable, tables, disk, log
  <2> QED BY Zenon, <1>5, <2>1, <2>2, SamePlace
<1>6. CASE AppendFull
  BY Zenon, <1>5, <1>6 DEF AppendFull, Idle, Return
<1>7. CASE UNCHANGED vars
  BY Zenon, <1>4, <1>5, <1>7 DEF vars
<1>8. CASE OpenFails
  BY Zenon, <1>4, <1>8 DEF OpenFails
<1>9. CASE BuildFails
  BY <1>9 DEF BuildFails
<1>10. CASE NoQuorum \/ InstallNewL0 \/ MaybeCompact \/ Unlink
  BY Zenon, <1>10, QuietPlace
<1> QED
  BY Zenon, <1>1, <1>2, <1>3, <1>6, <1>7, <1>8, <1>9, <1>10, ApplyPlace, InstallL1Place, OpenPlace
     DEF Next, Step, Set, Delete

-----------------------------------------------------------------------------
(* What Get returns *)

\* In an idle engine, Get finds the last write to a key that took effect,
\* unless that is a tombstone which a compaction dropped.
LEMMA GetLast ==
  ASSUME Inv, Placement, Idle, NEW k \in Keys, NEW i \in 1..Len(wal), LastApplied(k, i)
  PROVE  \/ Get(k) = RecordAt(i)
         \/ ~Live(RecordAt(i)) /\ mem[k] = Absent /\ FindIn(l0, k) = Absent
<1>1. L0View = l0 /\ LastDone(k, i)
  BY DEF Idle, L0View, LastDone, LastApplied, Done
<1>2. Located(k, i)
  BY Zenon, <1>1 DEF Placement, Idle
<1>3. i \in Nat \ {0}
  BY WalType DEF Inv
<1>4. l0 \in SUBSET Names /\ l1 \in SUBSET Names
  BY Zenon DEF Inv, TypeOK
<1>5. \A n \in l0 \cup l1 : file[n].state = "complete"
  BY Zenon DEF Inv, Shape, TablesReadable
<1>6. \A r : FromLog(k, r) /\ r.seq = i => r = RecordAt(i)
  BY <1>3 DEF FromLog, Absent
<1>7. FromLog(k, mem[k])
  BY Zenon DEF Inv, Provenance
<1>8. \A n \in l0 \cup l1 : FromLog(k, file[n].table[k])
  BY Zenon, <1>4 DEF Inv, Provenance
<1>9. mem[k].seq = 0 => mem[k] = Absent
  BY Zenon, <1>7, StoredSeq DEF Inv
<1>10. \A n \in l0 \cup l1 : file[n].table[k].seq = i => file[n].table[k] = RecordAt(i)
  BY Zenon, <1>6, <1>8
<1>11. CASE mem[k].seq = i
  <2>1. mem[k] = RecordAt(i)
    BY Zenon, <1>6, <1>7, <1>11
  <2>2. mem[k].seq > 0
    BY <1>3, <1>11
  <2> QED BY Zenon, <2>1, <2>2 DEF Get
<1>12. CASE mem[k].seq = 0 /\ FoundIn(l0, k, i)
  <2>1. FindIn(l0, k).seq = i /\ \E n \in l0 : FindIn(l0, k) = file[n].table[k]
    BY Zenon, <1>3, <1>4, <1>5, <1>12, FindInFound DEF Inv
  <2>2. FindIn(l0, k) = RecordAt(i)
    BY Zenon, <1>10, <2>1
  <2>3. ~(mem[k].seq > 0) /\ FindIn(l0, k).seq > 0
    BY <1>3, <1>12, <2>1
  <2> QED BY Zenon, <2>2, <2>3 DEF Get
<1>13. CASE mem[k].seq = 0 /\ NoneIn(l0, k) /\ (Live(RecordAt(i)) => FoundIn(l1, k, i))
  <2>1. FindIn(l0, k) = Absent
    BY Zenon, <1>4, <1>5, <1>13, FindInNone
  <2>2. CASE Live(RecordAt(i))
    <3>1. FindIn(l1, k).seq = i /\ \E n \in l1 : FindIn(l1, k) = file[n].table[k]
      BY Zenon, <1>3, <1>4, <1>5, <1>13, <2>2, FindInFound DEF Inv
    <3>2. FindIn(l1, k) = RecordAt(i)
      BY Zenon, <1>10, <3>1
    <3>3. ~(mem[k].seq > 0) /\ ~(FindIn(l0, k).seq > 0)
      <4>1. mem[k].seq = 0 /\ FindIn(l0, k).seq = 0
        BY Zenon, <1>13, <2>1, RecordSeq
      <4> QED BY <4>1
    <3> QED BY Zenon, <3>2, <3>3 DEF Get
  <2>3. CASE ~Live(RecordAt(i))
    BY Zenon, <1>13, <1>9, <2>1, <2>3
  <2> QED BY Zenon, <2>2, <2>3
<1> QED
  BY Zenon, <1>1, <1>2, <1>12, <1>13, <1>11 DEF Located, FoundWith

-----------------------------------------------------------------------------
(* The theorems *)

\* Every variable keeps its type (storage_engine.hpp), whatever the
\* constants, the faults and the stops.
THEOREM TypeCorrect == Spec => []TypeOK
<1>1. Inv => TypeOK
  BY DEF Inv
<1> QED BY <1>1, Invariance, PTL

\* The tables in l0_tables_ and l1_tables_ are complete files: Get and
\* ScanPrefix never skip one because its file was removed or not finished.
THEOREM TablesStayReadable == Spec => []TablesReadable
<1>1. Inv => TablesReadable
  BY DEF Inv, Shape
<1> QED BY <1>1, Invariance, PTL

\* Get returns only writes to its key that took effect: neither a flush, a
\* compaction, a failed build nor a restart makes up or mixes up a record, and
\* a write refused with NoQuorum stays unseen until the log is replayed.
THEOREM ReadsAreApplied == Spec => []ReadsAreAppliedWrites
<1>1. ASSUME Inv PROVE ReadsAreAppliedWrites
  <2> SUFFICES ASSUME Idle, NEW k \in Keys, Get(k).seq > 0
               PROVE  Get(k).seq \in Applied(k) /\ Get(k) = RecordAt(Get(k).seq)
    BY Zenon DEF ReadsAreAppliedWrites
  <2>1. l0 \in SUBSET Names /\ l1 \in SUBSET Names
    BY Zenon, <1>1 DEF Inv, TypeOK
  <2>2. FromLog(k, FindIn(l0, k)) /\ FromLog(k, FindIn(l1, k)) /\ FromLog(k, mem[k])
    BY <1>1, <2>1, FindInRecord DEF Inv, Provenance, FromLog
  <2>3. FromLog(k, Get(k))
    BY <2>2 DEF Get
  <2>4. Get(k) # Absent
    BY DEF Absent
  <2> QED BY Zenon, <2>3, <2>4 DEF FromLog, Done
<1> QED BY <1>1, Invariance, PTL

\* Without disk faults a Set is never lost: as long as no later write to the
\* key takes effect, Get returns it after any number of flushes, compactions,
\* crashes and restarts.
THEOREM SetsAreKept == ~DiskMayFail => (Spec => []SetNeverLost)
<1> SUFFICES ASSUME ~DiskMayFail PROVE Spec => []SetNeverLost
  OBVIOUS
<1>1. Init => Inv /\ Placement
  BY Zenon, InitInv, InitPlace
<1>2. Inv /\ Placement /\ [Next]_vars => (Inv /\ Placement)'
  BY Zenon, NextInv, NextPlace
<1>3. ASSUME Inv, Placement PROVE SetNeverLost
  BY Zenon, <1>3, GetLast DEF SetNeverLost
<1> QED
  BY <1>1, <1>2, <1>3, PTL DEF Spec

\* Without disk faults a deleted key comes back only from level 1, where a
\* compaction left an older value behind the tombstone it dropped.
THEOREM DeletesHold == ~DiskMayFail => (Spec => []DeleteHoldsAboveL1)
<1> SUFFICES ASSUME ~DiskMayFail PROVE Spec => []DeleteHoldsAboveL1
  OBVIOUS
<1>1. Init => Inv /\ Placement
  BY Zenon, InitInv, InitPlace
<1>2. Inv /\ Placement /\ [Next]_vars => (Inv /\ Placement)'
  BY Zenon, NextInv, NextPlace
<1>3. ASSUME Inv, Placement PROVE DeleteHoldsAboveL1
  <2> SUFFICES ASSUME Idle, NEW k \in Keys, NEW i \in 1..Len(wal), LastApplied(k, i),
                      ~Live(RecordAt(i)), Live(Get(k))
               PROVE  mem[k] = Absent /\ FindIn(l0, k) = Absent
    BY DEF DeleteHoldsAboveL1
  <2> QED BY Zenon, <1>3, GetLast
<1> QED
  BY <1>1, <1>2, <1>3, PTL DEF Spec
=============================================================================
