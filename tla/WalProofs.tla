------------------------------ MODULE WalProofs ------------------------------
(***************************************************************************)
(* Proofs about the write-ahead log (Wal): its types, what survives kills  *)
(* and power losses in whatever order pages reach the disk, and that it is *)
(* a DurableLog when they reach it in order.  The first half is about the  *)
(* file, for files and records of any size: what a replay reads, where     *)
(* records lie, what the copy of a record does to a file, and how a disk   *)
(* whose pages arrive in order may differ from the mapping.                *)
(***************************************************************************)
EXTENDS Wal, NaturalsInduction, WellFoundedInduction, TLAPS

File == [Offsets -> Slot \cup {Zero}]

-----------------------------------------------------------------------------
(* Sequences, and induction from the end of the file *)

LEMMA LenProperties ==
  ASSUME NEW S, NEW s \in Seq(S)
  PROVE  Len(s) \in Nat
OBVIOUS

LEMMA SeqEqual ==
  ASSUME NEW S, NEW s \in Seq(S), NEW t \in Seq(S), Len(s) = Len(t), \A i \in 1..Len(s) : s[i] = t[i]
  PROVE  s = t
OBVIOUS

LEMMA AppendAt ==
  ASSUME NEW S, NEW s \in Seq(S), NEW r \in S
  PROVE  /\ Append(s, r) \in Seq(S) /\ Len(Append(s, r)) = Len(s) + 1 /\ Append(s, r)[Len(s) + 1] = r
         /\ \A i \in 1..Len(s) : Append(s, r)[i] = s[i]
OBVIOUS

LEMMA RangeOf ==
  ASSUME NEW S, NEW s \in Seq(S)
  PROVE  Len(s) \in Nat /\ \A x : x \in Range(s) <=> \E i \in 1..Len(s) : s[i] = x
BY DEF Range

LEMMA RangeAppend ==
  ASSUME NEW S, NEW s \in Seq(S), NEW r \in S
  PROVE  Range(Append(s, r)) = Range(s) \cup {r}
<1> DEFINE t == Append(s, r)
<1>1. t \in Seq(S) /\ Len(t) = Len(s) + 1 /\ t[Len(s) + 1] = r /\ \A i \in 1..Len(s) : t[i] = s[i]
  BY AppendAt
<1>2. Len(s) \in Nat
  OBVIOUS
<1> HIDE DEF t
<1>3. Len(s) + 1 \in 1..Len(t) /\ \A i \in 1..Len(s) : i \in 1..Len(t)
  BY <1>1, <1>2
<1>4. \A i \in 1..Len(t) : i \in 1..Len(s) \/ i = Len(s) + 1
  BY <1>1, <1>2
<1>5. \A x : (\E i \in 1..Len(t) : t[i] = x) <=> (x = r \/ \E i \in 1..Len(s) : s[i] = x)
  BY <1>1, <1>3, <1>4
<1>6. \A x : x \in Range(t) <=> x \in Range(s) \cup {r}
  BY <1>1, <1>5, RangeOf
<1> QED
  BY <1>6 DEF t

\* A non-empty set of natural numbers has a least element.
LEMMA LeastOf ==
  ASSUME NEW S \in SUBSET Nat, S # {}
  PROVE  \E x \in S : \A y \in S : x <= y
<1>1. PICK x \in S : \A y \in S : ~(<<y, x>> \in OpToRel(<, Nat))
  BY Zenon, NatLessThanWellFounded, WFMin
<1>2. ASSUME NEW y \in S PROVE x <= y
  <2>1. y \in Nat /\ x \in Nat /\ <<y, x>> \in Nat \X Nat /\ (y < x => <<y, x>>[1] < <<y, x>>[2])
    OBVIOUS
  <2>2. ~(y < x)
    BY <1>1, <2>1 DEF OpToRel
  <2> QED BY <2>1, <2>2
<1> QED
  BY <1>2

\* What holds at an offset whenever it holds behind it holds at all offsets.
LEMMA Backward ==
  ASSUME NEW S, \A o \in 0..Capacity : (\A q \in o + 1..Capacity : q \in S) => o \in S
  PROVE  \A o \in 0..Capacity : o \in S
<1> SUFFICES ASSUME NEW z \in 0..Capacity, z \notin S PROVE FALSE
  OBVIOUS
<1> DEFINE T == {d \in 0..Capacity : Capacity - d \notin S}
<1>1. T \in SUBSET Nat /\ Capacity - z \in T
  BY SizesAssumption
<1>2. PICK d \in T : \A c \in T : d <= c
  <2> HIDE DEF T
  <2> QED BY <1>1, LeastOf
<1>3. \A q \in Capacity - d + 1..Capacity : q \in S
  <2> SUFFICES ASSUME NEW q \in Capacity - d + 1..Capacity, q \notin S PROVE FALSE
    OBVIOUS
  <2>1. Capacity - q \in 0..Capacity /\ Capacity - (Capacity - q) = q /\ Capacity - q < d
    BY SizesAssumption
  <2> QED
    BY <1>2, <2>1
<1>4. Capacity - d \in 0..Capacity /\ Capacity - d \notin S
  BY SizesAssumption
<1> QED
  BY <1>3, <1>4

\* The same from the start of a sequence on.
LEMMA Forward ==
  ASSUME NEW n \in Nat, NEW S, 1 \in S, \A i \in 1..n : i \in S => i + 1 \in S
  PROVE  \A i \in 1..n + 1 : i \in S
<1> SUFFICES ASSUME NEW z \in 1..n + 1, z \notin S PROVE FALSE
  OBVIOUS
<1> DEFINE T == {i \in 1..n + 1 : i \notin S}
<1>1. T \in SUBSET Nat /\ T # {}
  OBVIOUS
<1>2. PICK i \in T : \A j \in T : i <= j
  <2> HIDE DEF T
  <2> QED BY <1>1, LeastOf
<1>3. i - 1 \in 1..n /\ i - 1 \notin T /\ i - 1 + 1 = i
  BY <1>2
<1> QED
  BY <1>3

-----------------------------------------------------------------------------
(* Reading the file *)

\* The records s are read from m at the offsets at.
Reads(m, s, at) ==
  /\ at \in [1..Len(s) + 1 -> 0..Capacity]
  /\ \A i \in 1..Len(s) : /\ Parses(m, at[i])
                          /\ s[i] = m[at[i]].rec
                          /\ at[i + 1] = at[i] + s[i].size
\* s is read from o up to e.
Chain(m, o, s, e) ==
  s \in Seq(Record) /\ \E at : Reads(m, s, at) /\ at[1] = o /\ at[Len(s) + 1] = e
\* ... where the reading stops.
Full(m, o, s, e) == Chain(m, o, s, e) /\ ~Parses(m, e)

\* A record that parses lies inside the file.
LEMMA ParsesType ==
  ASSUME NEW m \in File, NEW o \in 0..Capacity, Parses(m, o)
  PROVE  /\ o \in Offsets /\ m[o] \in Slot /\ m[o].rec \in Record
         /\ m[o].rec.size \in Nat \ {0} /\ m[o].rec.size <= MaxSize
         /\ o + m[o].rec.size \in o + 1..Capacity
<1>1. o \in Offsets /\ m[o] # Zero /\ o + m[o].rec.size <= Capacity
  BY SizesAssumption DEF Parses, Offsets
<1>2. m[o] \in Slot
  BY <1>1 DEF File
<1>3. m[o].rec \in Record
  BY <1>2 DEF Slot
<1>4. m[o].rec.size \in 1..MaxSize
  BY <1>3 DEF Record
<1> QED
  BY <1>1, <1>2, <1>3, <1>4, SizesAssumption

LEMMA ChainEmpty ==
  ASSUME NEW m, NEW o \in 0..Capacity
  PROVE  Chain(m, o, <<>>, o)
<1> DEFINE at == [i \in 1..1 |-> o]
<1>1. Len(<<>>) = 0 /\ <<>> \in Seq(Record)
  OBVIOUS
<1>2. Reads(m, <<>>, at) /\ at[1] = o /\ at[Len(<<>>) + 1] = o
  BY <1>1 DEF Reads
<1> HIDE DEF at
<1> QED
  BY <1>1, <1>2 DEF Chain

\* A record in front of what is read behind it.
LEMMA ChainCons ==
  ASSUME NEW m \in File, NEW o \in 0..Capacity, Parses(m, o), NEW s, NEW e,
         Chain(m, o + m[o].rec.size, s, e)
  PROVE  Chain(m, o, <<m[o].rec>> \o s, e)
<1> DEFINE r == m[o].rec
           t == <<r>> \o s
<1>1. s \in Seq(Record) /\ r \in Record /\ Len(s) \in Nat
  BY ParsesType, LenProperties DEF Chain
<1>2. PICK at : Reads(m, s, at) /\ at[1] = o + r.size /\ at[Len(s) + 1] = e
  BY DEF Chain
<1>3. t \in Seq(Record) /\ Len(t) = Len(s) + 1 /\ t[1] = r /\ \A i \in 1..Len(s) : t[i + 1] = s[i]
  BY <1>1
<1> HIDE DEF t
<1> DEFINE bt == [i \in 1..Len(t) + 1 |-> IF i = 1 THEN o ELSE at[i - 1]]
<1>4. bt[1] = o /\ \A i \in 1..Len(s) + 1 : bt[i + 1] = at[i]
  BY <1>1, <1>3
<1>5. bt \in [1..Len(t) + 1 -> 0..Capacity]
  BY <1>1, <1>2, <1>3 DEF Reads
<1> HIDE DEF bt
<1>6. ASSUME NEW i \in 1..Len(t)
      PROVE  Parses(m, bt[i]) /\ t[i] = m[bt[i]].rec /\ bt[i + 1] = bt[i] + t[i].size
  <2>1. CASE i = 1
    BY <2>1, <1>1, <1>2, <1>3, <1>4
  <2>2. CASE i # 1
    <3>1. i - 1 \in 1..Len(s) /\ (i - 1) + 1 = i
      BY <2>2, <1>1, <1>3
    <3> DEFINE j == i - 1
    <3>3. j \in 1..Len(s) /\ j \in 1..Len(s) + 1 /\ j + 1 = i /\ i \in 1..Len(s) + 1
      BY <3>1, <1>1, <1>3
    <3> HIDE DEF j
    <3>4. bt[i] = at[j] /\ bt[i + 1] = at[i] /\ t[i] = s[j]
      BY <3>3, <1>3, <1>4
    <3>2. bt[i] = at[i - 1] /\ bt[i + 1] = at[i] /\ t[i] = s[i - 1]
      BY <3>4 DEF j
    <3> QED BY Zenon, <3>1, <3>2, <1>2 DEF Reads
  <2> QED BY <2>1, <2>2
<1>7. Reads(m, t, bt) /\ bt[1] = o /\ bt[Len(t) + 1] = e
  BY <1>1, <1>2, <1>3, <1>4, <1>5, <1>6 DEF Reads
<1>8. Chain(m, o, t, e)
  BY <1>3, <1>7 DEF Chain
<1> QED
  BY <1>8 DEF t

\* The offsets of the records grow.
LEMMA ReadsUp ==
  ASSUME NEW m \in File, NEW s \in Seq(Record), NEW at, Reads(m, s, at),
         NEW i \in 1..Len(s) + 1, NEW j \in 1..Len(s) + 1, i < j
  PROVE  at[i] < at[j]
<1> DEFINE S == {k \in 1..Len(s) + 1 : i < k => at[i] < at[k]}
<1>1. Len(s) \in Nat
  BY LenProperties
<1>2. 1 \in S
  BY <1>1
<1>3. ASSUME NEW k \in 1..Len(s), k \in S PROVE k + 1 \in S
  <2>1. at[k] \in 0..Capacity /\ at[i] \in 0..Capacity /\ Parses(m, at[k])
        /\ s[k] = m[at[k]].rec /\ at[k + 1] = at[k] + s[k].size
    BY <1>1 DEF Reads
  <2>2. at[k] + m[at[k]].rec.size \in at[k] + 1..Capacity
    BY Zenon, <2>1, ParsesType
  <2>3. at[k + 1] > at[k] /\ at[k + 1] \in Int
    BY <2>1, <2>2, SizesAssumption
  <2>4. i < k + 1 => i < k \/ i = k
    BY <1>1
  <2>5. i < k + 1 => at[i] < at[k + 1]
    BY <2>1, <2>3, <2>4, <1>3
  <2> QED BY <2>5, <1>1
<1>4. \A k \in 1..Len(s) + 1 : k \in S
  <2> HIDE DEF S
  <2> QED BY Zenon, <1>1, <1>2, <1>3, Forward
<1> QED
  BY <1>4

\* Two readings from one offset go the same way.
LEMMA SamePath ==
  ASSUME NEW m \in File, NEW s \in Seq(Record), NEW t \in Seq(Record), NEW at, NEW bt,
         Reads(m, s, at), Reads(m, t, bt), at[1] = bt[1]
  PROVE  \A i \in 1..Len(s) + 1 : i \in 1..Len(t) + 1 => at[i] = bt[i]
<1> DEFINE S == {i \in 1..Len(s) + 1 : i \in 1..Len(t) + 1 => at[i] = bt[i]}
<1>1. Len(s) \in Nat /\ Len(t) \in Nat
  BY LenProperties
<1>2. 1 \in S
  BY <1>1
<1>3. ASSUME NEW i \in 1..Len(s), i \in S, i + 1 \in 1..Len(t) + 1 PROVE at[i + 1] = bt[i + 1]
  <2>1. i \in 1..Len(t) /\ i \in 1..Len(t) + 1
    BY <1>1, <1>3
  <2>2. at[i] = bt[i]
    BY <1>3, <2>1
  <2>3. at[i + 1] = at[i] + s[i].size /\ s[i] = m[at[i]].rec
    BY Zenon DEF Reads
  <2>4. bt[i + 1] = bt[i] + t[i].size /\ t[i] = m[bt[i]].rec
    BY Zenon, <2>1 DEF Reads
  <2> QED BY Zenon, <2>2, <2>3, <2>4
<1>4. \A i \in 1..Len(s) : i \in S => i + 1 \in S
  BY <1>1, <1>3
<1>5. \A i \in 1..Len(s) + 1 : i \in S
  <2> HIDE DEF S
  <2> QED BY Zenon, <1>1, <1>2, <1>4, Forward
<1> QED
  BY <1>5

\* What is read from an offset is the start of all that can be read from it.
LEMMA ChainInFull ==
  ASSUME NEW m \in File, NEW o, NEW s, NEW e, NEW t, NEW d, Full(m, o, s, e), Chain(m, o, t, d)
  PROVE  /\ Len(t) \in Nat /\ Len(s) \in Nat /\ Len(t) <= Len(s)
         /\ \A i \in 1..Len(t) : t[i] = s[i]
         /\ d \in 0..Capacity /\ e \in 0..Capacity /\ d <= e
         /\ ~Parses(m, d) => Len(t) = Len(s) /\ d = e
<1>1. PICK at : Reads(m, s, at) /\ at[1] = o /\ at[Len(s) + 1] = e
  BY DEF Full, Chain
<1>2. PICK bt : Reads(m, t, bt) /\ bt[1] = o /\ bt[Len(t) + 1] = d
  BY DEF Full, Chain
<1>3. s \in Seq(Record) /\ t \in Seq(Record) /\ Len(s) \in Nat /\ Len(t) \in Nat
  BY LenProperties DEF Full, Chain
<1>4. \A i \in 1..Len(s) + 1 : i \in 1..Len(t) + 1 => at[i] = bt[i]
  BY <1>1, <1>2, <1>3, SamePath
<1>5. Len(t) <= Len(s)
  <2> SUFFICES ASSUME Len(s) < Len(t) PROVE FALSE
    BY <1>3
  <2>1. Len(s) + 1 \in 1..Len(t) /\ Len(s) + 1 \in 1..Len(s) + 1 /\ Len(s) + 1 \in 1..Len(t) + 1
    BY <1>3
  <2>2. bt[Len(s) + 1] = e
    BY <2>1, <1>4, <1>1
  <2>3. Parses(m, bt[Len(s) + 1])
    BY <2>1, <1>2 DEF Reads
  <2> QED BY <2>2, <2>3 DEF Full
<1>6. ASSUME NEW i \in 1..Len(t) PROVE t[i] = s[i]
  <2>1. i \in 1..Len(s) /\ i \in 1..Len(s) + 1 /\ i \in 1..Len(t) + 1
    BY <1>3, <1>5
  <2>2. at[i] = bt[i]
    BY Zenon, <2>1, <1>4
  <2>3. s[i] = m[at[i]].rec /\ t[i] = m[bt[i]].rec
    BY Zenon, <2>1, <1>1, <1>2 DEF Reads
  <2> QED BY Zenon, <2>2, <2>3
<1>7. Len(t) + 1 \in 1..Len(s) + 1 /\ Len(t) + 1 \in 1..Len(t) + 1 /\ Len(s) + 1 \in 1..Len(s) + 1
  BY <1>3, <1>5
<1>8. at[Len(t) + 1] = d
  BY <1>7, <1>4, <1>2
<1>9. d \in 0..Capacity /\ e \in 0..Capacity
  BY <1>1, <1>2, <1>7 DEF Reads
<1>10. d <= e
  <2>1. CASE Len(t) = Len(s)
    BY <2>1, <1>8, <1>1, <1>9, SizesAssumption
  <2>2. CASE Len(t) + 1 < Len(s) + 1
    BY <2>2, <1>7, <1>8, <1>1, <1>3, <1>9, ReadsUp, SizesAssumption
  <2> QED BY <2>1, <2>2, <1>3, <1>5
<1>11. ASSUME ~Parses(m, d) PROVE Len(t) = Len(s) /\ d = e
  <2>1. Len(t) < Len(s) => Parses(m, at[Len(t) + 1])
    <3>1. Len(t) < Len(s) => Len(t) + 1 \in 1..Len(s)
      BY <1>3
    <3> QED BY <3>1, <1>1 DEF Reads
  <2>2. Len(t) = Len(s)
    BY <2>1, <1>3, <1>5, <1>8, <1>11
  <2> QED BY <2>2, <1>8, <1>1
<1> QED
  BY <1>3, <1>5, <1>6, <1>9, <1>10, <1>11

\* All that can be read is unique.
LEMMA FullUnique ==
  ASSUME NEW m \in File, NEW o, NEW s, NEW e, NEW t, NEW d, Full(m, o, s, e), Full(m, o, t, d)
  PROVE  s = t /\ e = d
<1>1. Chain(m, o, t, d) /\ ~Parses(m, d) /\ s \in Seq(Record) /\ t \in Seq(Record)
  BY DEF Full, Chain
<1>2. Len(t) = Len(s) /\ d = e /\ \A i \in 1..Len(t) : t[i] = s[i]
  BY <1>1, ChainInFull
<1> QED
  BY <1>1, <1>2, SeqEqual

LEMMA FullExists ==
  ASSUME NEW m \in File
  PROVE  \A o \in 0..Capacity : \E s, e : Full(m, o, s, e)
<1> DEFINE S == {o \in 0..Capacity : \E s, e : Full(m, o, s, e)}
<1>1. ASSUME NEW o \in 0..Capacity, \A q \in o + 1..Capacity : q \in S PROVE o \in S
  <2>1. CASE ~Parses(m, o)
    <3>1. Full(m, o, <<>>, o)
      BY <2>1, ChainEmpty DEF Full
    <3> QED BY <3>1
  <2>2. CASE Parses(m, o)
    <3>1. o + m[o].rec.size \in S
      BY <2>2, <1>1, ParsesType
    <3>2. PICK s, e : Full(m, o + m[o].rec.size, s, e)
      BY <3>1
    <3>3. Full(m, o, <<m[o].rec>> \o s, e)
      BY <2>2, <3>2, ChainCons DEF Full
    <3> QED BY <3>3
  <2> QED BY <2>1, <2>2
<1>2. \A o \in 0..Capacity : o \in S
  <2> HIDE DEF S
  <2> QED BY <1>1, Backward
<1> QED
  BY <1>2

-----------------------------------------------------------------------------
(* Replay and FindEndAndLastSeq *)

\* Replay returns all that can be read from the start of the file, and
\* FindEndAndLastSeq the offset behind it.
LEMMA ReplayFull ==
  ASSUME NEW m \in File
  PROVE  /\ Full(m, 0, Replay(m), FindEnd(m))
         /\ Replay(m) \in Seq(Record) /\ FindEnd(m) \in 0..Capacity
<1> DEFINE IsFrom(f) == f = [o \in 0..Capacity |->
                               IF Parses(m, o) THEN <<m[o].rec>> \o f[o + m[o].rec.size] ELSE <<>>]
           IsEnd(f)  == f = [o \in 0..Capacity |->
                               IF Parses(m, o) THEN f[o + m[o].rec.size] ELSE o]
           G(o) == CHOOSE s : \E e : Full(m, o, s, e)
           H(o) == CHOOSE e : \E s : Full(m, o, s, e)
<1>1. ASSUME NEW o \in 0..Capacity
      PROVE  Full(m, o, G(o), H(o))
  <2>1. PICK s, e : Full(m, o, s, e)
    BY FullExists
  <2>2. \E d : Full(m, o, G(o), d)
    BY Zenon, <2>1
  <2>3. \E t : Full(m, o, t, H(o))
    BY Zenon, <2>1
  <2> HIDE DEF G, H
  <2>4. PICK d : Full(m, o, G(o), d)
    BY <2>2
  <2>5. PICK t : Full(m, o, t, H(o))
    BY <2>3
  <2>6. G(o) = t
    BY <2>4, <2>5, FullUnique
  <2> QED BY <2>5, <2>6
<1> HIDE DEF G, H
<1>2. ASSUME NEW o \in 0..Capacity, Parses(m, o)
      PROVE  G(o) = <<m[o].rec>> \o G(o + m[o].rec.size) /\ H(o) = H(o + m[o].rec.size)
  <2>1. o + m[o].rec.size \in 0..Capacity
    BY <1>2, ParsesType
  <2>2. Full(m, o + m[o].rec.size, G(o + m[o].rec.size), H(o + m[o].rec.size))
    BY <2>1, <1>1
  <2>3. Full(m, o, <<m[o].rec>> \o G(o + m[o].rec.size), H(o + m[o].rec.size))
    BY <2>2, <1>2, ChainCons DEF Full
  <2>4. Full(m, o, G(o), H(o))
    BY <1>1
  <2> DEFINE t == <<m[o].rec>> \o G(o + m[o].rec.size)
             d == H(o + m[o].rec.size)
  <2>5. Full(m, o, t, d)
    BY <2>3
  <2> HIDE DEF t, d
  <2>6. G(o) = t /\ H(o) = d
    BY <2>4, <2>5, FullUnique
  <2> QED BY <2>6 DEF t, d
<1>3. ASSUME NEW o \in 0..Capacity, ~Parses(m, o) PROVE G(o) = <<>> /\ H(o) = o
  <2>1. Full(m, o, <<>>, o)
    BY <1>3, ChainEmpty DEF Full
  <2>2. Full(m, o, G(o), H(o))
    BY <1>1
  <2> QED BY Zenon, <2>1, <2>2, FullUnique, Zenon
<1>4. IsFrom([o \in 0..Capacity |-> G(o)]) /\ IsEnd([o \in 0..Capacity |-> H(o)])
  <2>1. \A o \in 0..Capacity : Parses(m, o) => o + m[o].rec.size \in 0..Capacity
    BY ParsesType
  <2> QED BY Zenon, <2>1, <1>2, <1>3
<1>5. PICK f : IsFrom(f) /\ Replay(m) = f[0]
  BY Zenon, <1>4 DEF Replay
<1>6. PICK k : IsEnd(k) /\ FindEnd(m) = k[0]
  BY Zenon, <1>4 DEF FindEnd
<1>7. \A o \in 0..Capacity : Full(m, o, f[o], k[o])
  <2> DEFINE S == {o \in 0..Capacity : Full(m, o, f[o], k[o])}
  <2>1. ASSUME NEW o \in 0..Capacity, \A q \in o + 1..Capacity : q \in S PROVE o \in S
    <3>1. CASE ~Parses(m, o)
      <4>1. f[o] = <<>> /\ k[o] = o
        BY <3>1, <1>5, <1>6
      <4> QED BY Zenon, <3>1, <4>1, ChainEmpty DEF Full
    <3>2. CASE Parses(m, o)
      <4>1. f[o] = <<m[o].rec>> \o f[o + m[o].rec.size] /\ k[o] = k[o + m[o].rec.size]
        BY Zenon, <3>2, <1>5, <1>6
      <4>2. o + m[o].rec.size \in S
        BY <3>2, <2>1, ParsesType
      <4>3. Full(m, o + m[o].rec.size, f[o + m[o].rec.size], k[o + m[o].rec.size])
        BY <4>2
      <4> QED BY Zenon, <3>2, <4>1, <4>3, ChainCons DEF Full
    <3> QED BY <3>1, <3>2
  <2>2. \A o \in 0..Capacity : o \in S
    <3> HIDE DEF S
    <3> QED BY <2>1, Backward
  <2> QED BY <2>2
<1>8. 0 \in 0..Capacity
  BY SizesAssumption
<1>9. Full(m, 0, Replay(m), FindEnd(m))
  BY <1>5, <1>6, <1>7, <1>8
<1>10. Chain(m, 0, Replay(m), FindEnd(m))
  BY <1>9 DEF Full
<1>11. Replay(m) \in Seq(Record)
  BY <1>10 DEF Chain
<1>12. FindEnd(m) \in 0..Capacity
  BY <1>9, <1>10, ChainInFull
<1> QED
  BY <1>9, <1>11, <1>12

\* What is read from the start is what Replay returns first; it is all of it
\* when nothing parses behind it.
LEMMA ChainIsReplayed ==
  ASSUME NEW m \in File, NEW s, NEW e, Chain(m, 0, s, e)
  PROVE  /\ s \in Seq(Record) /\ Len(s) \in Nat /\ Len(Replay(m)) \in Nat
         /\ Len(s) <= Len(Replay(m))
         /\ \A i \in 1..Len(s) : s[i] = Replay(m)[i]
         /\ StartOf(s, Replay(m))
         /\ e \in 0..Capacity /\ e <= FindEnd(m)
         /\ ~Parses(m, e) => s = Replay(m) /\ e = FindEnd(m)
<1>1. Full(m, 0, Replay(m), FindEnd(m)) /\ Replay(m) \in Seq(Record) /\ s \in Seq(Record)
  BY ReplayFull DEF Chain
<1>2. /\ Len(s) \in Nat /\ Len(Replay(m)) \in Nat /\ Len(s) <= Len(Replay(m))
      /\ \A i \in 1..Len(s) : s[i] = Replay(m)[i]
      /\ e \in 0..Capacity /\ e <= FindEnd(m)
  BY <1>1, ChainInFull
<1>3. StartOf(s, Replay(m))
  BY <1>1, <1>2 DEF StartOf
<1>4. ~Parses(m, e) => s = Replay(m) /\ e = FindEnd(m)
  <2>1. ~Parses(m, e) => Full(m, 0, s, e)
    BY DEF Full
  <2> QED BY <2>1, <1>1, FullUnique
<1> QED
  BY <1>1, <1>2, <1>3, <1>4

-----------------------------------------------------------------------------
(* Two files, and where records lie in one *)

\* The slots of a record that parses.
LEMMA ParsesSlots ==
  ASSUME NEW m \in File, NEW o \in 0..Capacity, Parses(m, o),
         NEW q \in Int, o <= q, q < o + m[o].rec.size
  PROVE  q \in Offsets /\ m[q] = [rec |-> m[o].rec, part |-> q - o + 1]
<1>1. m[o].rec.size \in Nat /\ o + m[o].rec.size \in o + 1..Capacity
  BY ParsesType
<1>2. q - o \in 0..m[o].rec.size - 1 /\ o + (q - o) = q /\ q \in Offsets
  BY <1>1, SizesAssumption DEF Offsets
<1> DEFINE j == q - o
<1>3. m[o + j] = [rec |-> m[o].rec, part |-> j + 1]
  <2> HIDE DEF j
  <2>1. j \in 0..m[o].rec.size - 1
    BY <1>2 DEF j
  <2> QED BY <2>1 DEF Parses
<1> QED
  BY <1>2, <1>3

LEMMA ParsesNotZero ==
  ASSUME NEW m \in File, NEW o \in 0..Capacity, Parses(m, o),
         NEW q \in Offsets, o <= q, q < o + m[o].rec.size
  PROVE  m[q] # Zero
<1>1. /\ m[o].rec \in Record /\ m[o].rec.size \in Nat /\ m[o].rec.size <= MaxSize
      /\ q \in Int
  BY ParsesType DEF Offsets
<1>2. m[q] = [rec |-> m[o].rec, part |-> q - o + 1]
  BY <1>1, ParsesSlots
<1>3. q - o + 1 \in 1..MaxSize
  BY <1>1, SizesAssumption
<1>4. [rec |-> m[o].rec, part |-> q - o + 1] \in Slot
  BY <1>1, <1>3 DEF Slot
<1> QED
  BY <1>2, <1>4, ZeroAssumption

\* A record parses in any file with the same slots.
LEMMA ParsesAgree ==
  ASSUME NEW m \in File, NEW n \in File, NEW o \in 0..Capacity, Parses(m, o),
         \A q \in Offsets : o <= q /\ q < o + m[o].rec.size => n[q] = m[q]
  PROVE  Parses(n, o) /\ n[o] = m[o]
<1>1. /\ o \in Offsets /\ m[o].rec.size \in Nat \ {0}
      /\ o + m[o].rec.size \in o + 1..Capacity
  BY ParsesType
<1>2. n[o] = m[o]
  BY <1>1, SizesAssumption
<1>3. ASSUME NEW j \in 0..m[o].rec.size - 1
      PROVE  n[o + j] = m[o + j]
  <2>1. o + j \in Offsets /\ o <= o + j /\ o + j < o + m[o].rec.size
    BY <1>1, SizesAssumption DEF Offsets
  <2> QED BY <2>1
<1>4. \A j \in 0..n[o].rec.size - 1 : n[o + j] = [rec |-> n[o].rec, part |-> j + 1]
  <2> SUFFICES ASSUME NEW j \in 0..m[o].rec.size - 1
               PROVE  n[o + j] = [rec |-> m[o].rec, part |-> j + 1]
    BY <1>2
  <2> QED BY <1>3 DEF Parses
<1>5. o < Capacity /\ n[o] # Zero /\ o + n[o].rec.size <= Capacity
  BY <1>2 DEF Parses
<1> QED
  BY <1>2, <1>4, <1>5 DEF Parses

\* A chain depends on the slots in front of its end alone.
LEMMA ChainAgree ==
  ASSUME NEW m \in File, NEW n \in File, NEW s, NEW e, Chain(m, 0, s, e),
         \A q \in Offsets : q < e => n[q] = m[q]
  PROVE  Chain(n, 0, s, e)
<1>1. PICK at : Reads(m, s, at) /\ at[1] = 0 /\ at[Len(s) + 1] = e
  BY DEF Chain
<1>2. s \in Seq(Record) /\ Len(s) \in Nat
  BY Zenon, LenProperties DEF Chain
<1>3. ASSUME NEW i \in 1..Len(s)
      PROVE  Parses(n, at[i]) /\ n[at[i]] = m[at[i]]
  <2>1. /\ at[i] \in 0..Capacity /\ at[i + 1] \in 0..Capacity /\ Parses(m, at[i])
        /\ at[i + 1] = at[i] + m[at[i]].rec.size
    BY SMTT(30), <1>1, <1>2 DEF Reads
  <2>2. e \in 0..Capacity /\ at[i + 1] <= e
    <3>1. i + 1 \in 1..Len(s) + 1 /\ Len(s) + 1 \in 1..Len(s) + 1 /\ (i + 1 < Len(s) + 1 \/ i + 1 = Len(s) + 1)
      BY <1>2
    <3>2. e \in 0..Capacity
      BY Zenon, <1>1, <3>1 DEF Reads
    <3>3. i + 1 < Len(s) + 1 => at[i + 1] < at[Len(s) + 1]
      BY <1>1, <1>2, <3>1, ReadsUp
    <3> QED BY <1>1, <2>1, <3>1, <3>2, <3>3, SizesAssumption
  <2>3. \A q \in Offsets : at[i] <= q /\ q < at[i] + m[at[i]].rec.size => n[q] = m[q]
    BY <2>1, <2>2, SizesAssumption DEF Offsets
  <2> QED BY <2>1, <2>3, ParsesAgree
<1>4. Reads(n, s, at)
  BY <1>1, <1>3 DEF Reads
<1> QED
  BY <1>1, <1>2, <1>4 DEF Chain

\* A record behind a chain.
LEMMA ChainSnoc ==
  ASSUME NEW m \in File, NEW o, NEW s, NEW e, Chain(m, o, s, e), Parses(m, e)
  PROVE  Chain(m, o, Append(s, m[e].rec), e + m[e].rec.size)
<1> DEFINE r == m[e].rec
           t == Append(s, r)
<1>1. PICK at : Reads(m, s, at) /\ at[1] = o /\ at[Len(s) + 1] = e
  BY DEF Chain
<1>2. s \in Seq(Record) /\ Len(s) \in Nat
  BY LenProperties DEF Chain
<1>3. e \in 0..Capacity
  BY <1>1, <1>2 DEF Reads
<1>4. r \in Record /\ e + r.size \in 0..Capacity
  BY <1>3, ParsesType
<1>5. t \in Seq(Record) /\ Len(t) = Len(s) + 1 /\ t[Len(s) + 1] = r /\ \A i \in 1..Len(s) : t[i] = s[i]
  BY <1>2, <1>4
<1> HIDE DEF t
<1> DEFINE bt == [i \in 1..Len(t) + 1 |-> IF i = Len(s) + 2 THEN e + r.size ELSE at[i]]
<1>6. bt \in [1..Len(t) + 1 -> 0..Capacity]
  BY <1>1, <1>2, <1>4, <1>5 DEF Reads
<1>7. bt[Len(s) + 2] = e + r.size /\ \A i \in 1..Len(s) + 1 : bt[i] = at[i]
  BY <1>2, <1>5
<1> HIDE DEF bt
<1>8. ASSUME NEW i \in 1..Len(t)
      PROVE  Parses(m, bt[i]) /\ t[i] = m[bt[i]].rec /\ bt[i + 1] = bt[i] + t[i].size
  <2>1. CASE i \in 1..Len(s)
    <3>1. i \in 1..Len(s) + 1 /\ i + 1 \in 1..Len(s) + 1
      BY <2>1, <1>2
    <3>2. bt[i] = at[i] /\ bt[i + 1] = at[i + 1] /\ t[i] = s[i]
      BY <2>1, <3>1, <1>5, <1>7
    <3> QED BY <2>1, <3>2, <1>1 DEF Reads
  <2>2. CASE i = Len(s) + 1
    <3>1. i \in 1..Len(s) + 1 /\ i + 1 = Len(s) + 2
      BY <2>2, <1>2
    <3>2. bt[i] = e /\ bt[i + 1] = e + r.size /\ t[i] = r
      BY Zenon, <2>2, <3>1, <1>1, <1>5, <1>7
    <3> QED BY <3>2
  <2> QED BY <2>1, <2>2, <1>2, <1>5
<1>9. Reads(m, t, bt)
  BY <1>6, <1>8 DEF Reads
<1>10. bt[1] = o /\ bt[Len(t) + 1] = e + r.size
  BY <1>1, <1>2, <1>5, <1>7
<1>11. Chain(m, o, t, e + r.size)
  BY Zenon, <1>5, <1>9, <1>10 DEF Chain
<1> QED
  BY <1>11 DEF t

\* Every slot between two ends of a reading belongs to a record between them.
LEMMA Cover ==
  ASSUME NEW m \in File, NEW s, NEW e, Full(m, 0, s, e), NEW t, NEW d, Chain(m, 0, t, d),
         NEW q \in Int, d <= q, q < e
  PROVE  \E o \in d..q : o \in 0..Capacity /\ Parses(m, o) /\ q < o + m[o].rec.size /\ o + m[o].rec.size <= e
<1>1. PICK at : Reads(m, s, at) /\ at[1] = 0 /\ at[Len(s) + 1] = e
  BY DEF Full, Chain
<1>2. PICK bt : Reads(m, t, bt) /\ bt[1] = 0 /\ bt[Len(t) + 1] = d
  BY DEF Chain
<1>3. s \in Seq(Record) /\ t \in Seq(Record) /\ Len(s) \in Nat /\ Len(t) \in Nat
  BY Zenon, LenProperties DEF Full, Chain
<1>4. Len(t) <= Len(s) /\ d \in 0..Capacity /\ e \in 0..Capacity
  BY ChainInFull
<1> DEFINE k == Len(t) + 1
<1>5. k \in 1..Len(s) + 1 /\ k \in 1..Len(t) + 1
  BY <1>3, <1>4
<1>6. at[k] = d
  BY <1>1, <1>2, <1>3, <1>5, SamePath
<1> HIDE DEF k
<1>7. \A i \in 1..Len(s) + 1 : at[i] \in 0..Capacity
  BY <1>1 DEF Reads
<1> DEFINE T == {j \in k + 1..Len(s) + 1 : q < at[j]}
<1>8. Len(s) + 1 \in T /\ T \in SUBSET Nat
  <2>1. k # Len(s) + 1
    BY <1>1, <1>4, <1>6, SizesAssumption
  <2> QED BY <2>1, <1>1, <1>3, <1>5
<1>9. PICK j \in T : \A i \in T : j <= i
  <2> HIDE DEF T
  <2> QED BY Zenon, <1>8, LeastOf
<1> DEFINE i == j - 1
<1>10. i \in 1..Len(s) /\ i + 1 = j /\ k <= i /\ i \in 1..Len(s) + 1 /\ j \in 1..Len(s) + 1
  BY <1>3, <1>5
<1>11. i \notin T /\ q < at[j]
  BY <1>9, <1>10
<1>12. at[i] <= q /\ d <= at[i]
  <2>1. CASE i = k
    BY <2>1, <1>6, <1>4
  <2>2. CASE i # k
    <3>1. i \in k + 1..Len(s) + 1 /\ k < i
      BY <2>2, <1>3, <1>5, <1>10
    <3>2. ~(q < at[i])
      BY <3>1, <1>11
    <3>3. at[k] < at[i]
      <4> HIDE DEF i
      <4> QED BY Zenon, <3>1, <1>1, <1>3, <1>5, <1>10, ReadsUp
    <3> QED BY SMTT(30), <3>2, <3>3, <1>4, <1>6, <1>7, <1>10
  <2> QED BY <2>1, <2>2
<1> HIDE DEF i, T
<1>13. Parses(m, at[i]) /\ at[j] = at[i] + m[at[i]].rec.size /\ at[i] \in 0..Capacity /\ at[j] \in 0..Capacity
  BY Zenon, <1>1, <1>7, <1>10 DEF Reads
<1>14. at[j] <= e
  <2>1. j = Len(s) + 1 \/ j < Len(s) + 1
    BY <1>3, <1>10
  <2>2. j < Len(s) + 1 => at[j] < at[Len(s) + 1]
    <3>1. Len(s) + 1 \in 1..Len(s) + 1
      BY <1>3
    <3> QED BY <3>1, <1>1, <1>3, <1>10, ReadsUp
  <2> QED BY <2>1, <2>2, <1>1, <1>4, <1>13
<1> QED
  BY <1>4, <1>11, <1>12, <1>13, <1>14

\* The slots o..o+n-1 of m hold the first n slots of r.
Holds(m, r, o, n) == \A q \in Offsets : o <= q /\ q < o + n => m[q] = [rec |-> r, part |-> q - o + 1]
\* Two files are the same outside o..o+n-1.
SameOutside(m, n, o, k) == \A q \in Offsets : q < o \/ o + k <= q => n[q] = m[q]

\* A whole copied record parses.
LEMMA HoldsParses ==
  ASSUME NEW m \in File, NEW r \in Record, NEW o \in 0..Capacity, o + r.size <= Capacity,
         Holds(m, r, o, r.size)
  PROVE  Parses(m, o) /\ m[o].rec = r
<1>1. r.size \in Nat \ {0}
  BY DEF Record
<1>2. o \in Offsets /\ o < Capacity
  BY <1>1, SizesAssumption DEF Offsets
<1>3. m[o] = [rec |-> r, part |-> o - o + 1]
  BY <1>1, <1>2, SizesAssumption DEF Holds
<1>4. m[o] = [rec |-> r, part |-> 1] /\ m[o].rec = r
  BY <1>3, SizesAssumption
<1>5. [rec |-> r, part |-> 1] \in Slot
  BY SizesAssumption DEF Slot
<1>6. m[o] # Zero
  BY <1>4, <1>5, ZeroAssumption
<1>7. ASSUME NEW j \in 0..r.size - 1
      PROVE  m[o + j] = [rec |-> r, part |-> j + 1]
  <2>1. o + j \in Offsets /\ o <= o + j /\ o + j < o + r.size /\ (o + j) - o + 1 = j + 1
    BY <1>1, SizesAssumption DEF Offsets
  <2>2. m[o + j] = [rec |-> r, part |-> (o + j) - o + 1]
    BY Zenon, <2>1 DEF Holds
  <2> QED BY <2>1, <2>2
<1> QED
  BY <1>2, <1>4, <1>6, <1>7 DEF Parses

-----------------------------------------------------------------------------
(* Records keep their place *)

\* No slot knows a record that was not appended yet, or a part it has not.
Tagged(m, c) ==
  \A o \in Offsets : m[o] # Zero => /\ m[o].rec.id <= c /\ m[o].rec.seq <= c
                                    /\ m[o].part <= m[o].rec.size
\* The parts of one record lie where one copy put them.
OnePlace(m, n) ==
  \A o, q \in Offsets :
    m[o] # Zero /\ n[q] # Zero /\ m[o].rec.id = n[q].rec.id
      => m[o].rec = n[q].rec /\ o - m[o].part = q - n[q].part

\* n is m after the first k slots of the new record r were copied to w.
Copy(m, n, r, w, k, c) ==
  /\ r \in Record /\ r.id = c + 1 /\ r.seq <= c + 1 /\ k \in 1..r.size
  /\ w \in 0..Capacity /\ w + r.size <= Capacity
  /\ Holds(n, r, w, k) /\ SameOutside(m, n, w, k)

LEMMA SlotType ==
  ASSUME NEW m \in File, NEW o \in Offsets, m[o] # Zero
  PROVE  /\ m[o] \in Slot /\ m[o].rec \in Record /\ m[o].part \in Nat \ {0}
         /\ m[o].rec.id \in Nat \ {0} /\ m[o].rec.seq \in Nat \ {0} /\ m[o].rec.size \in Nat \ {0}
<1>1. m[o] \in Slot
  BY DEF File
<1>2. m[o].rec \in Record /\ m[o].part \in 1..MaxSize
  BY <1>1 DEF Slot
<1>3. m[o].rec.id \in 1..MaxAppends /\ m[o].rec.seq \in 1..MaxAppends /\ m[o].rec.size \in 1..MaxSize
  BY Zenon, <1>2 DEF Record
<1> QED
  BY <1>1, <1>2, <1>3, SizesAssumption

\* A slot after the copy: one of the new record's, or as before.
Slots(m, n, r, w, k) ==
  \A q \in Offsets : \/ /\ w <= q /\ q < w + k
                        /\ n[q] = [rec |-> r, part |-> q - w + 1]
                        /\ n[q].rec = r /\ n[q].part = q - w + 1
                     \/ (q < w \/ w + k <= q) /\ n[q] = m[q]
LEMMA CopySlot ==
  ASSUME NEW m, NEW n, NEW r, NEW w, NEW k, NEW c, Copy(m, n, r, w, k, c)
  PROVE  Slots(m, n, r, w, k)
<1> SUFFICES ASSUME NEW q \in Offsets
             PROVE  \/ /\ w <= q /\ q < w + k
                       /\ n[q] = [rec |-> r, part |-> q - w + 1]
                       /\ n[q].rec = r /\ n[q].part = q - w + 1
                    \/ (q < w \/ w + k <= q) /\ n[q] = m[q]
  BY DEF Slots
<1>1. w \in Int /\ k \in Int /\ q \in Int
  <2>1. r.size \in Nat
    BY DEF Copy, Record
  <2> QED BY <2>1, SizesAssumption DEF Copy, Offsets
<1>2. CASE w <= q /\ q < w + k
  <2>1. n[q] = [rec |-> r, part |-> q - w + 1]
    BY <1>2 DEF Copy, Holds
  <2> QED BY <1>2, <2>1
<1>3. CASE q < w \/ w + k <= q
  BY Zenon, <1>3 DEF Copy, SameOutside
<1> QED
  BY <1>1, <1>2, <1>3

LEMMA CopyTagged ==
  ASSUME NEW m \in File, NEW n \in File, NEW r, NEW w, NEW k, NEW c \in Nat, Copy(m, n, r, w, k, c),
         Tagged(m, c)
  PROVE  Tagged(n, c + 1)
<1> SUFFICES ASSUME NEW q \in Offsets, n[q] # Zero
             PROVE  n[q].rec.id <= c + 1 /\ n[q].rec.seq <= c + 1 /\ n[q].part <= n[q].rec.size
  BY DEF Tagged
<1>1. r.size \in Nat /\ k \in 1..r.size /\ w \in Nat /\ r.id = c + 1 /\ r.seq <= c + 1
  BY DEF Copy, Record
<1>2. CASE n[q].rec = r /\ n[q].part = q - w + 1 /\ q < w + k
  <2>1. q - w + 1 <= r.size
    BY <1>1, <1>2, SizesAssumption DEF Offsets
  <2> QED BY <1>1, <1>2, <2>1
<1>3. CASE n[q] = m[q]
  <2>1. m[q].rec.id <= c /\ m[q].rec.seq <= c /\ m[q].part <= m[q].rec.size
    BY Zenon, <1>3 DEF Tagged
  <2>2. m[q].rec.id \in Nat /\ m[q].rec.seq \in Nat
    BY <1>3, SlotType
  <2> QED BY <1>3, <2>1, <2>2
<1>5. Slots(m, n, r, w, k)
  BY CopySlot
<1>4. (n[q].rec = r /\ n[q].part = q - w + 1 /\ q < w + k) \/ n[q] = m[q]
  BY Zenon, <1>5 DEF Slots
<1> QED
  BY Zenon, <1>2, <1>3, <1>4

LEMMA OnePlaceSym ==
  ASSUME NEW m \in File, NEW n \in File, OnePlace(m, n)
  PROVE  OnePlace(n, m)
BY Zenon DEF OnePlace

\* A record copied for the first time is in one place.
LEMMA CopyOnePlace ==
  ASSUME NEW m \in File, NEW n \in File, NEW d \in File, NEW r, NEW w, NEW k, NEW c \in Nat,
         Copy(m, n, r, w, k, c), Tagged(m, c), Tagged(d, c), OnePlace(m, m), OnePlace(m, d)
  PROVE  OnePlace(n, n) /\ OnePlace(n, d)
<1>1. r.id = c + 1 /\ w \in Int
  BY DEF Copy
<1>5. Slots(m, n, r, w, k)
  BY CopySlot
<1>4. \A o \in Offsets : (n[o].rec = r /\ n[o].part = o - w + 1) \/ n[o] = m[o]
  BY Zenon, <1>5 DEF Slots
<1>2. ASSUME NEW o \in Offsets, NEW q \in Offsets, n[o] # Zero, n[q] # Zero, n[o].rec.id = n[q].rec.id
      PROVE  n[o].rec = n[q].rec /\ o - n[o].part = q - n[q].part
  <2>1. CASE n[o] = m[o] /\ n[q] = m[q]
    BY <1>2, <2>1 DEF OnePlace
  <2>2. CASE n[o] = m[o] /\ n[q].rec = r
    <3>1. m[o].rec.id <= c /\ m[o].rec.id \in Nat
      BY Zenon, <1>2, <2>2, SlotType DEF Tagged
    <3> QED BY <3>1, <1>1, <1>2, <2>2
  <2>3. CASE n[o].rec = r /\ n[q] = m[q]
    <3>1. m[q].rec.id <= c /\ m[q].rec.id \in Nat
      BY Zenon, <1>2, <2>3, SlotType DEF Tagged
    <3> QED BY <3>1, <1>1, <1>2, <2>3
  <2>4. CASE n[o].rec = r /\ n[q].rec = r /\ n[o].part = o - w + 1 /\ n[q].part = q - w + 1
    BY <1>1, <2>4, SizesAssumption DEF Offsets
  <2> QED BY Zenon, <1>4, <2>1, <2>2, <2>3, <2>4
<1>3. ASSUME NEW o \in Offsets, NEW q \in Offsets, n[o] # Zero, d[q] # Zero, n[o].rec.id = d[q].rec.id
      PROVE  n[o].rec = d[q].rec /\ o - n[o].part = q - d[q].part
  <2>1. CASE n[o] = m[o]
    BY <1>3, <2>1 DEF OnePlace
  <2>2. CASE n[o].rec = r
    <3>1. d[q].rec.id <= c /\ d[q].rec.id \in Nat
      BY <1>3, SlotType DEF Tagged
    <3> QED BY <3>1, <1>1, <1>3, <2>2
  <2> QED BY Zenon, <1>4, <2>1, <2>2
<1> QED
  BY <1>2, <1>3 DEF OnePlace

-----------------------------------------------------------------------------
(* Pages that reach the disk in order *)

Starts(m, o) == m[o] # Zero /\ m[o].part = 1

\* Nothing behind the end of the log looks like the start of a record.
Clean(m) == \A q \in Offsets : FindEnd(m) < q => ~Starts(m, q)

\* How the disk d may differ from the mapping m.  A record of the mapping has
\* no other slots on the disk than in the mapping; behind a slot that was not
\* written back no record starts on the disk; what starts on the disk starts
\* in the mapping; and no record that parses on the disk starts with a slot
\* that differs.
Ordered(m, d) ==
  /\ \A o, q \in Offsets : Starts(m, o) /\ d[q] # Zero /\ d[q].rec = m[o].rec => m[q] = d[q]
  /\ \A p, q \in Offsets : p < q /\ d[p] # m[p] => ~Starts(d, q)
  /\ \A q \in Offsets : Starts(d, q) => Starts(m, q)
  /\ \A o \in Offsets : d[o] # m[o] => ~Parses(d, o)

LEMMA ParsesStarts ==
  ASSUME NEW m \in File, NEW o \in 0..Capacity, Parses(m, o)
  PROVE  o \in Offsets /\ Starts(m, o)
<1>1. o \in Offsets /\ m[o].rec.size \in Nat \ {0}
  BY ParsesType
<1>2. m[o] = [rec |-> m[o].rec, part |-> o - o + 1]
  <2>1. o \in Int /\ o <= o /\ o < o + m[o].rec.size
    BY <1>1
  <2> QED BY <2>1, ParsesSlots
<1>3. m[o].part = 1
  BY <1>2
<1> QED
  BY <1>1, <1>3 DEF Starts, Parses

\* In front of the end, what starts a record parses.
LEMMA StartsParses ==
  ASSUME NEW m \in File, NEW q \in Offsets, q < FindEnd(m), Starts(m, q)
  PROVE  Parses(m, q) /\ q + m[q].rec.size <= FindEnd(m)
<1>1. Full(m, 0, Replay(m), FindEnd(m)) /\ FindEnd(m) \in 0..Capacity
  BY ReplayFull
<1>2. Chain(m, 0, <<>>, 0) /\ q \in Int /\ 0 <= q
  BY ChainEmpty, SizesAssumption DEF Offsets
<1>3. PICK o \in 0..q : /\ o \in 0..Capacity /\ Parses(m, o) /\ q < o + m[o].rec.size
                        /\ o + m[o].rec.size <= FindEnd(m)
  BY <1>1, <1>2, Cover
<1>4. m[q] = [rec |-> m[o].rec, part |-> q - o + 1]
  BY <1>2, <1>3, ParsesSlots
<1>5. q = o
  BY <1>2, <1>3, <1>4 DEF Starts
<1> QED
  BY <1>3, <1>5

\* Append and the end of the log: the new record is the last.
LEMMA CopyReplay ==
  ASSUME NEW m \in File, NEW n \in File, NEW r, NEW w, NEW c \in Nat,
         Copy(m, n, r, w, r.size, c), w = FindEnd(m), Clean(m)
  PROVE  Replay(n) = Append(Replay(m), r) /\ FindEnd(n) = w + r.size /\ Clean(n)
<1>1. /\ r \in Record /\ w \in 0..Capacity /\ w + r.size <= Capacity
      /\ Holds(n, r, w, r.size) /\ SameOutside(m, n, w, r.size) /\ r.size \in Nat \ {0}
  BY DEF Copy, Record
<1>2. Chain(m, 0, Replay(m), w)
  BY ReplayFull DEF Full
<1>3. \A q \in Offsets : q < w => n[q] = m[q]
  BY <1>1 DEF SameOutside
<1>4. Chain(n, 0, Replay(m), w)
  BY Zenon, <1>2, <1>3, ChainAgree
<1>5. Parses(n, w) /\ n[w].rec = r
  BY Zenon, <1>1, HoldsParses
<1>6. Chain(n, 0, Append(Replay(m), r), w + r.size)
  BY Zenon, <1>4, <1>5, ChainSnoc
<1>7. ASSUME NEW q \in Offsets, w + r.size <= q PROVE ~Starts(n, q)
  <2>1. n[q] = m[q] /\ w < q
    BY <1>1, <1>7 DEF SameOutside, Offsets
  <2> QED BY <2>1 DEF Clean, Starts
<1>8. ~Parses(n, w + r.size)
  <2> SUFFICES ASSUME Parses(n, w + r.size) PROVE FALSE
    OBVIOUS
  <2>1. w + r.size \in 0..Capacity
    BY <1>1, SizesAssumption
  <2>2. w + r.size \in Offsets /\ Starts(n, w + r.size)
    BY <2>1, ParsesStarts
  <2>3. w + r.size <= w + r.size
    BY <1>1
  <2> QED BY <2>2, <2>3, <1>7
<1>9. Append(Replay(m), r) = Replay(n) /\ w + r.size = FindEnd(n)
  BY Zenon, <1>6, <1>8, ChainIsReplayed
<1>10. Clean(n)
  <2>1. ASSUME NEW q \in Offsets, FindEnd(n) < q PROVE ~Starts(n, q)
    <3>1. w + r.size <= q
      BY <1>1, <1>9, <2>1 DEF Offsets
    <3> QED BY <3>1, <1>7
  <2> QED BY <2>1 DEF Clean
<1> QED
  BY <1>9, <1>10

\* A record copied in part is not replayed.
LEMMA TornReplay ==
  ASSUME NEW m \in File, NEW n \in File, NEW r, NEW w, NEW k, NEW c \in Nat,
         Copy(m, n, r, w, k, c), k < r.size, Tagged(m, c)
  PROVE  ~Parses(n, w)
<1>1. /\ r \in Record /\ w \in 0..Capacity /\ w + r.size <= Capacity /\ k \in 1..r.size
      /\ r.size \in Nat \ {0} /\ r.id = c + 1
  BY DEF Copy, Record
<1>2. w \in Offsets /\ w + k \in Offsets
  BY <1>1, SizesAssumption DEF Offsets
<1>3. Holds(n, r, w, k) /\ SameOutside(m, n, w, k)
  BY DEF Copy
<1>4. n[w].rec = r
  <2>2. w <= w /\ w < w + k
    BY <1>1
  <2>1. n[w] = [rec |-> r, part |-> w - w + 1]
    BY <2>2, <1>2, <1>3 DEF Holds
  <2> QED BY <2>1
<1>5. n[w + k] = m[w + k]
  BY <1>1, <1>2, <1>3 DEF SameOutside
<1> SUFFICES ASSUME Parses(n, w) PROVE FALSE
  OBVIOUS
<1>6. n[w + k] = [rec |-> r, part |-> (w + k) - w + 1]
  <2>1. w + k \in Int /\ w <= w + k /\ w + k < w + n[w].rec.size
    BY <1>1, <1>4
  <2>2. n[w + k] = [rec |-> n[w].rec, part |-> (w + k) - w + 1]
    BY Zenon, <2>1, <1>1, ParsesSlots
  <2> QED BY <2>2, <1>4
<1>7. m[w + k].rec.id = c + 1
  BY <1>1, <1>5, <1>6
<1>8. m[w + k] # Zero
  <2>1. r.size \in 1..MaxSize
    BY <1>1 DEF Record
  <2>2. (w + k) - w + 1 \in 1..MaxSize
    BY <2>1, <1>1, SizesAssumption
  <2>3. [rec |-> r, part |-> (w + k) - w + 1] \in Slot
    BY <2>2, <1>1 DEF Slot
  <2> QED BY <2>3, <1>5, <1>6, ZeroAssumption
<1> QED
  BY <1>2, <1>7, <1>8 DEF Tagged

\* A torn record at the end leaves the end where it is.
LEMMA TornEnd ==
  ASSUME NEW m \in File, NEW n \in File, NEW r, NEW w, NEW k, NEW c \in Nat,
         Copy(m, n, r, w, k, c), k < r.size, Tagged(m, c), w = FindEnd(m), Clean(m)
  PROVE  Replay(n) = Replay(m) /\ FindEnd(n) = w /\ Clean(n)
<1>1. w \in 0..Capacity /\ SameOutside(m, n, w, k) /\ Slots(m, n, r, w, k)
  BY Zenon, CopySlot DEF Copy
<1>2. Chain(m, 0, Replay(m), w)
  BY ReplayFull DEF Full
<1>3. \A q \in Offsets : q < w => n[q] = m[q]
  BY <1>1 DEF SameOutside
<1>4. Chain(n, 0, Replay(m), w)
  BY <1>2, <1>3, ChainAgree
<1>5. ~Parses(n, w)
  BY TornReplay
<1>6. Replay(m) = Replay(n) /\ w = FindEnd(n)
  BY Zenon, <1>4, <1>5, ChainIsReplayed
<1>7. ASSUME NEW q \in Offsets, w < q PROVE ~Starts(n, q)
  <2>1. n[q].part = q - w + 1 \/ n[q] = m[q]
    BY Zenon, <1>1 DEF Slots
  <2>2. q - w + 1 # 1
    BY <1>1, <1>7 DEF Offsets
  <2>3. ~Starts(m, q)
    BY Zenon, <1>7 DEF Clean
  <2> QED BY <2>1, <2>2, <2>3 DEF Starts
<1> QED
  BY <1>6, <1>7 DEF Clean

\* Copying a record to the end keeps the order of the disk.
LEMMA CopyOrdered ==
  ASSUME NEW m \in File, NEW n \in File, NEW d \in File, NEW r, NEW w, NEW k, NEW c \in Nat,
         Copy(m, n, r, w, k, c), w = FindEnd(m), Clean(m), Ordered(m, d),
         Tagged(m, c), Tagged(d, c), OnePlace(m, d)
  PROVE  Ordered(n, d)
<1>1. /\ w \in 0..Capacity /\ w + r.size <= Capacity /\ k \in 1..r.size /\ k \in Nat \ {0}
      /\ r.size \in Nat /\ r.id = c + 1 /\ r \in Record
  BY DEF Copy, Record
<1>2. Slots(m, n, r, w, k)
  BY Zenon, CopySlot
<1>3. w \in Offsets /\ n[w] = [rec |-> r, part |-> 1]
  <2>1. w \in Offsets /\ w <= w /\ w < w + k
    BY <1>1, SizesAssumption DEF Offsets
  <2>2. n[w] = [rec |-> r, part |-> w - w + 1]
    BY Zenon, <2>1 DEF Copy, Holds
  <2> QED BY <2>1, <2>2, <1>1
<1>4. Starts(n, w)
  <2>1. [rec |-> r, part |-> 1] \in Slot
    BY <1>1, SizesAssumption DEF Slot
  <2>2. n[w] # Zero
    BY <1>3, <2>1, ZeroAssumption
  <2> QED BY <1>3, <2>2 DEF Starts
<1>5. ASSUME NEW o \in Offsets, NEW q \in Offsets, Starts(n, o), d[q] # Zero, d[q].rec = n[o].rec
      PROVE  n[q] = d[q]
  <2>1. d[q].rec.id <= c /\ d[q].rec.id \in Nat
    BY Zenon, <1>5, SlotType DEF Tagged
  <2>2. n[o].rec # r
    BY <2>1, <1>1, <1>5
  <2>3. n[o] = m[o] /\ (o < w \/ w + k <= o)
    BY Zenon, <2>2, <1>2 DEF Slots
  <2>4. Starts(m, o) /\ m[o] # Zero /\ m[o].part = 1
    BY Zenon, <2>3, <1>5 DEF Starts
  <2>5. m[q] = d[q]
    BY Zenon, <2>3, <2>4, <1>5 DEF Ordered
  <2>6. o < w
    BY <2>3, <2>4, <1>1 DEF Clean, Offsets
  <2>7. o + m[o].rec.size <= w
    BY Zenon, <2>4, <2>6, StartsParses
  <2>8. o - m[o].part = q - d[q].part
    BY Zenon, <2>3, <2>4, <1>5 DEF OnePlace
  <2>9. d[q].part <= m[o].rec.size
    BY Zenon, <1>5, <2>3 DEF Tagged
  <2>10. q < w
    <3>1. m[o].rec.size \in Nat /\ d[q].part \in Nat
      BY Zenon, <2>4, <1>5, SlotType
    <3> QED BY <3>1, <2>4, <2>7, <2>8, <2>9, <1>1 DEF Offsets
  <2>11. n[q] = m[q]
    BY <2>10, <1>1 DEF Copy, SameOutside
  <2> QED BY Zenon, <2>5, <2>11
<1>6. ASSUME NEW q \in Offsets, w < q PROVE ~Starts(d, q)
  BY <1>6 DEF Ordered, Clean
<1>7. ASSUME NEW p \in Offsets, NEW q \in Offsets, p < q, d[p] # n[p] PROVE ~Starts(d, q)
  <2>1. CASE n[p] = m[p]
    BY <1>7, <2>1 DEF Ordered
  <2>2. CASE w <= p
    <3>1. w < q
      BY <2>2, <1>1, <1>7 DEF Offsets
    <3> QED BY <3>1, <1>6
  <2> QED BY Zenon, <1>2, <2>1, <2>2 DEF Slots
<1>8. ASSUME NEW q \in Offsets, Starts(d, q) PROVE Starts(n, q)
  <2>1. Starts(m, q) /\ (q < w \/ q = w)
    <3>1. Starts(m, q) /\ ~(w < q)
      BY Zenon, <1>6, <1>8 DEF Ordered
    <3> QED BY <3>1, <1>1 DEF Offsets
  <2>2. CASE q < w
    <3>1. n[q] = m[q]
      BY <2>2 DEF Copy, SameOutside
    <3> QED BY <2>1, <3>1 DEF Starts
  <2> QED BY <2>1, <2>2, <1>4
<1>9. ASSUME NEW o \in Offsets, d[o] # n[o], Parses(d, o) PROVE FALSE
  <2>0. o \in 0..Capacity
    BY SizesAssumption DEF Offsets
  <2>1. Starts(d, o)
    BY <1>9, <2>0, ParsesStarts
  <2>2. d[o] = m[o]
    BY <1>9 DEF Ordered
  <2>3. o = w
    <3>1. n[o] # m[o]
      BY <2>2, <1>9
    <3>2. w <= o
      BY Zenon, <3>1, <1>2 DEF Slots
    <3> QED BY <3>2, <2>1, <1>6, <1>1 DEF Offsets
  <2>4. Starts(m, o)
    BY <2>1, <2>2 DEF Starts
  <2>5. ASSUME NEW q \in Offsets, o <= q, q < o + d[o].rec.size PROVE m[q] = d[q]
    <3>0. q \in Int
      BY DEF Offsets
    <3>1. d[q] = [rec |-> d[o].rec, part |-> q - o + 1]
      BY Zenon, <3>0, <2>0, <2>5, <1>9, ParsesSlots
    <3>4. d[q].rec = d[o].rec
      BY <3>1
    <3>2. d[q].rec = m[o].rec
      BY Zenon, <3>4, <2>2
    <3>3. d[q] # Zero
      BY Zenon, <2>0, <2>5, <1>9, ParsesNotZero
    <3> QED BY <3>2, <3>3, <2>4 DEF Ordered
  <2>6. Parses(m, o)
    BY Zenon, <2>0, <2>5, <1>9, ParsesAgree
  <2>7. ~Parses(m, w)
    BY Zenon, ReplayFull DEF Full
  <2> QED BY <2>3, <2>6, <2>7
<1> QED
  BY <1>5, <1>7, <1>8, <1>9 DEF Ordered

\* So does writing back the start of the file.
LEMMA FlushOrdered ==
  ASSUME NEW m \in File, NEW d \in File, NEW f \in File, NEW b \in Int, Ordered(m, d),
         \A q \in Offsets : (q < b => f[q] = m[q]) /\ (b <= q => f[q] = d[q])
  PROVE  Ordered(m, f)
<1>1. \A q \in Offsets : f[q] = m[q] \/ (b <= q /\ f[q] = d[q])
  BY DEF Offsets
<1>2. \A o, q \in Offsets : Starts(m, o) /\ f[q] # Zero /\ f[q].rec = m[o].rec => m[q] = f[q]
  BY <1>1 DEF Ordered
<1>3. ASSUME NEW p \in Offsets, NEW q \in Offsets, p < q, f[p] # m[p] PROVE ~Starts(f, q)
  <2>1. b <= p /\ f[p] = d[p]
    BY <1>1, <1>3
  <2>2. f[q] = d[q]
    BY <2>1, <1>3 DEF Offsets
  <2>3. ~Starts(d, q)
    BY Zenon, <2>1, <1>3 DEF Ordered
  <2> QED BY <2>2, <2>3 DEF Starts
<1>4. \A q \in Offsets : Starts(f, q) => Starts(m, q)
  BY <1>1 DEF Ordered, Starts
<1>5. ASSUME NEW o \in Offsets, f[o] # m[o], Parses(f, o) PROVE FALSE
  <2>1. b <= o /\ f[o] = d[o] /\ o \in 0..Capacity
    BY <1>1, <1>5, SizesAssumption DEF Offsets
  <2>2. \A q \in Offsets : o <= q /\ q < o + f[o].rec.size => d[q] = f[q]
    BY <2>1 DEF Offsets
  <2>3. Parses(d, o)
    BY <2>1, <2>2, <1>5, ParsesAgree
  <2> QED BY <2>1, <2>3, <1>5 DEF Ordered
<1> QED
  BY Zenon, <1>2, <1>3, <1>4, <1>5 DEF Ordered

LEMMA SameOrdered ==
  ASSUME NEW d \in File
  PROVE  Ordered(d, d)
BY DEF Ordered

\* The disk holds the start of the log, and is clean itself.
LEMMA DiskReplay ==
  ASSUME NEW m \in File, NEW d \in File, Ordered(m, d), Clean(m)
  PROVE  Chain(m, 0, Replay(d), FindEnd(d)) /\ Clean(d)
<1> DEFINE e == FindEnd(d)
<1>1. Full(d, 0, Replay(d), e) /\ e \in 0..Capacity
  BY ReplayFull
<1>2. Full(m, 0, Replay(m), FindEnd(m)) /\ FindEnd(m) \in 0..Capacity
  BY ReplayFull
<1> HIDE DEF e
<1>3. ASSUME NEW q \in Offsets, q < e PROVE m[q] = d[q]
  <2>1. Chain(d, 0, <<>>, 0) /\ q \in Int /\ 0 <= q
    BY ChainEmpty, SizesAssumption DEF Offsets
  <2>2. PICK o \in 0..q : o \in 0..Capacity /\ Parses(d, o) /\ q < o + d[o].rec.size
    BY Zenon, <1>1, <1>3, <2>1, Cover
  <2>3. o \in Offsets /\ Starts(d, o) /\ o <= q
    BY <2>2, ParsesStarts, <2>1
  <2>4. d[o] = m[o]
    BY <2>2, <2>3 DEF Ordered
  <2>5. Starts(m, o)
    BY Zenon, <2>3, <2>4 DEF Starts
  <2>6. d[q] = [rec |-> d[o].rec, part |-> q - o + 1]
    BY Zenon, <2>1, <2>2, <2>3, ParsesSlots
  <2>7. d[q].rec = m[o].rec
    BY <2>4, <2>6
  <2>8. d[q] # Zero
    BY Zenon, <2>2, <2>3, ParsesNotZero
  <2> QED BY <2>3, <2>5, <2>7, <2>8 DEF Ordered
<1>4. Chain(m, 0, Replay(d), e)
  BY Zenon, <1>1, <1>3, ChainAgree DEF Full
<1>5. ASSUME NEW q \in Offsets, e < q, Starts(d, q) PROVE FALSE
  <2>1. \A p \in Offsets : p < q => d[p] = m[p]
    BY <1>5 DEF Ordered
  <2>2. Starts(m, q)
    BY <1>5 DEF Ordered
  <2>3. e < FindEnd(m)
    BY <2>2, <1>1, <1>2, <1>5 DEF Clean, Offsets
  <2>4. e \in Int /\ e <= e
    BY <1>1
  <2>5. PICK o \in e..e : o \in 0..Capacity /\ Parses(m, o)
    BY Zenon, <1>2, <1>4, <2>3, <2>4, Cover
  <2>6. Parses(m, e) /\ e \in Offsets
    BY <2>4, <2>5, ParsesType
  <2>7. CASE q < e + m[e].rec.size
    <3>1. q \in Int /\ e <= q
      BY <1>1, <1>5 DEF Offsets
    <3>2. m[q] = [rec |-> m[e].rec, part |-> q - e + 1]
      BY Zenon, <1>1, <2>6, <2>7, <3>1, ParsesSlots
    <3>3. m[q].part # 1
      BY <3>1, <3>2, <1>1, <1>5
    <3> QED BY <2>2, <3>3 DEF Starts
  <2>8. CASE e + m[e].rec.size <= q
    <3>0. m[e].rec.size \in Nat
      BY Zenon, <1>1, <2>6, ParsesType
    <3>1. \A p \in Offsets : e <= p /\ p < e + m[e].rec.size => d[p] = m[p]
      BY <2>1, <2>8, <3>0, <1>1 DEF Offsets
    <3>2. Parses(d, e)
      BY Zenon, <1>1, <2>6, <3>1, ParsesAgree
    <3> QED BY Zenon, <3>2, <1>1 DEF Full
  <2>9. m[e].rec.size \in Nat /\ q \in Int
    BY <1>1, <2>6, ParsesType DEF Offsets
  <2> QED BY <2>7, <2>8, <2>9, <1>1
<1>6. Clean(d)
  BY <1>5 DEF Clean, e
<1> QED
  BY <1>4, <1>6 DEF e

-----------------------------------------------------------------------------
(* Records kept in order *)

Injective(s) == \A a, b \in 1..Len(s) : s[a] = s[b] => a = b

\* A record is read once.
LEMMA ReplayInjective ==
  ASSUME NEW m \in File, OnePlace(m, m)
  PROVE  Injective(Replay(m))
<1> DEFINE s == Replay(m)
<1>1. s \in Seq(Record) /\ Len(s) \in Nat
  BY ReplayFull, LenProperties
<1>2. PICK at : Reads(m, s, at)
  BY ReplayFull DEF Full, Chain
<1> HIDE DEF s
<1>3. ASSUME NEW a \in 1..Len(s), NEW b \in 1..Len(s), s[a] = s[b] PROVE a = b
  <2>1. ASSUME NEW i \in 1..Len(s)
        PROVE  at[i] \in 0..Capacity /\ Parses(m, at[i]) /\ s[i] = m[at[i]].rec
    <3>1. i \in 1..Len(s) + 1
      BY <1>1
    <3>2. at[i] \in 0..Capacity
      BY Zenon, <3>1, <1>2 DEF Reads
    <3> QED BY <3>2, <1>2 DEF Reads
  <2>2. \A i \in 1..Len(s) : at[i] \in Offsets /\ Starts(m, at[i])
    BY Zenon, <2>1, ParsesStarts
  <2>3. at[a] - m[at[a]].part = at[b] - m[at[b]].part
    <3>1. m[at[a]] # Zero /\ m[at[b]] # Zero /\ m[at[a]].rec.id = m[at[b]].rec.id
      BY <2>1, <2>2, <1>3 DEF Starts
    <3> QED BY <3>1, <2>2 DEF OnePlace
  <2>4. at[a] = at[b]
    <3>1. m[at[a]].part = 1 /\ m[at[b]].part = 1
      BY <2>2 DEF Starts
    <3>2. at[a] \in Int /\ at[b] \in Int
      BY <2>1
    <3>3. at[a] - 1 = at[b] - 1
      BY <2>3, <3>1
    <3> QED BY <3>2, <3>3
  <2>5. a \in 1..Len(s) + 1 /\ b \in 1..Len(s) + 1 /\ at[a] \in Int
    BY <1>1, <2>1
  <2>6. ~(a < b) /\ ~(b < a)
    BY <1>1, <1>2, <2>4, <2>5, ReadsUp
  <2> QED BY <2>6
<1> QED
  BY <1>3 DEF Injective, s

LEMMA EmbeddedSelf ==
  ASSUME NEW s \in Seq(Record), Injective(s)
  PROVE  Embedded(s, s)
BY DEF Embedded, Injective

\* An embedding goes over to another sequence with the same start, when the
\* start holds all of it.
LEMMA EmbeddedMove ==
  ASSUME NEW k \in Seq(Record), NEW s \in Seq(Record), NEW t \in Seq(Record), NEW u \in Seq(Record),
         Range(k) \subseteq Range(s), StartOf(s, t), StartOf(s, u), Embedded(k, t), Injective(u)
  PROVE  Embedded(k, u)
<1>1. Len(k) \in Nat /\ Len(s) \in Nat /\ Len(t) \in Nat /\ Len(u) \in Nat
  BY LenProperties
<1>2. ASSUME NEW i \in 1..Len(k)
      PROVE  \E a \in 1..Len(s) : s[a] = k[i]
  <2>1. k[i] \in Range(k)
    BY RangeOf
  <2>2. k[i] \in Range(s)
    BY <2>1
  <2> QED BY <2>2, RangeOf
<1>3. Range(k) \subseteq Range(u)
  <2> SUFFICES ASSUME NEW x \in Range(s) PROVE x \in Range(u)
    OBVIOUS
  <2>1. PICK i \in 1..Len(s) : s[i] = x
    BY RangeOf
  <2>2. i \in 1..Len(u) /\ u[i] = x
    BY <1>1, <2>1 DEF StartOf
  <2> QED BY <2>2, RangeOf
<1>4. ASSUME NEW i \in 1..Len(k), NEW a \in 1..Len(u), u[a] = k[i]
      PROVE  a \in 1..Len(t) /\ t[a] = k[i]
  <2>1. PICK c \in 1..Len(s) : s[c] = k[i]
    BY Zenon, <1>2
  <2>2. c \in 1..Len(u) /\ u[c] = k[i] /\ c \in 1..Len(t) /\ t[c] = k[i]
    BY <1>1, <2>1 DEF StartOf
  <2>3. a = c
    BY Zenon, <2>2, <1>4 DEF Injective
  <2> QED BY <2>2, <2>3
<1>5. ASSUME NEW i \in 1..Len(k), NEW j \in 1..Len(k), NEW a \in 1..Len(u), NEW b \in 1..Len(u),
             u[a] = k[i], u[b] = k[j]
      PROVE  i < j <=> a < b
  BY <1>4, <1>5 DEF Embedded
<1> QED
  BY <1>3, <1>5 DEF Embedded

\* A record added to both.
LEMMA EmbeddedAppend ==
  ASSUME NEW k \in Seq(Record), NEW s \in Seq(Record), NEW u \in Seq(Record), NEW r \in Record,
         Range(k) \subseteq Range(s), StartOf(Append(s, r), u), Embedded(k, u), Injective(u)
  PROVE  Embedded(Append(k, r), u)
<1> DEFINE h == Append(k, r)
           v == Append(s, r)
<1>1. Len(k) \in Nat /\ Len(s) \in Nat /\ Len(u) \in Nat
  BY Zenon, LenProperties
<1>2. h \in Seq(Record) /\ Len(h) = Len(k) + 1 /\ h[Len(k) + 1] = r /\ \A i \in 1..Len(k) : h[i] = k[i]
  OBVIOUS
<1>3. v \in Seq(Record) /\ Len(v) = Len(s) + 1 /\ v[Len(s) + 1] = r /\ \A i \in 1..Len(s) : v[i] = s[i]
  OBVIOUS
<1>4. StartOf(v, u)
  BY Zenon
<1> HIDE DEF h, v
<1>5. Len(s) + 1 \in 1..Len(u) /\ u[Len(s) + 1] = r /\ \A i \in 1..Len(s) : i \in 1..Len(u) /\ u[i] = s[i]
  BY <1>1, <1>3, <1>4 DEF StartOf
<1>6. ASSUME NEW i \in 1..Len(k), NEW a \in 1..Len(u), u[a] = k[i] PROVE a < Len(s) + 1
  <2>1. k[i] \in Range(k)
    BY RangeOf
  <2>2. k[i] \in Range(s)
    BY <2>1
  <2>3. PICK c \in 1..Len(s) : s[c] = k[i]
    BY Zenon, <2>2, RangeOf
  <2>4. c \in 1..Len(u) /\ u[a] = u[c]
    BY Zenon, <2>3, <1>5, <1>6
  <2>5. a = c
    BY Zenon, <2>4 DEF Injective
  <2> QED BY <2>3, <2>5, <1>1
<1>7. ASSUME NEW a \in 1..Len(u), u[a] = r PROVE a = Len(s) + 1
  BY <1>5, <1>7 DEF Injective
<1>8. Range(h) \subseteq Range(u)
  <2> SUFFICES ASSUME NEW i \in 1..Len(h) PROVE h[i] \in Range(u)
    BY <1>2, RangeOf
  <2>1. CASE i = Len(k) + 1
    <3>1. u[Len(s) + 1] \in Range(u)
      BY Zenon, <1>5, RangeOf
    <3> QED BY Zenon, <2>1, <3>1, <1>2, <1>5
  <2>2. CASE i \in 1..Len(k)
    <3>1. k[i] \in Range(k)
      BY Zenon, <2>2, RangeOf
    <3> QED BY Zenon, <2>2, <3>1, <1>2 DEF Embedded
  <2> QED BY <2>1, <2>2, <1>1, <1>2
<1>9. ASSUME NEW i \in 1..Len(h), NEW j \in 1..Len(h), NEW a \in 1..Len(u), NEW b \in 1..Len(u),
             u[a] = h[i], u[b] = h[j]
      PROVE  i < j <=> a < b
  <2>1. CASE i \in 1..Len(k) /\ j \in 1..Len(k)
    BY Zenon, <2>1, <1>2, <1>9 DEF Embedded
  <2>2. CASE i \in 1..Len(k) /\ j = Len(k) + 1
    <3>1. a < Len(s) + 1 /\ b = Len(s) + 1
      BY Zenon, <2>2, <1>2, <1>6, <1>7, <1>9
    <3> QED BY <3>1, <2>2, <1>1
  <2>3. CASE i = Len(k) + 1 /\ j \in 1..Len(k)
    <3>1. b < Len(s) + 1 /\ a = Len(s) + 1
      BY Zenon, <2>3, <1>2, <1>6, <1>7, <1>9
    <3> QED BY <3>1, <2>3, <1>1
  <2>4. CASE i = Len(k) + 1 /\ j = Len(k) + 1
    <3>1. a = b
      BY Zenon, <2>4, <1>2, <1>7, <1>9
    <3> QED BY <3>1, <2>4, <1>1
  <2> QED BY <2>1, <2>2, <2>3, <2>4, <1>1, <1>2
<1>10. Embedded(h, u)
  BY Zenon, <1>8, <1>9 DEF Embedded
<1> QED
  BY <1>10 DEF h

-----------------------------------------------------------------------------
(* Types, and the place of records *)

Places ==
  /\ Tagged(mapped, count) /\ Tagged(disk, count)
  /\ OnePlace(mapped, mapped) /\ OnePlace(mapped, disk) /\ OnePlace(disk, disk)

WalTyped ==
  /\ open \in BOOLEAN /\ inOrder \in BOOLEAN
  /\ mapped \in File /\ disk \in File
  /\ writeOffset \in 0..Capacity
  /\ count \in 0..MaxAppends /\ lastSeq \in 0..count
  /\ acked \in Seq(Record) /\ kept \in Seq(Record) /\ synced \in Seq(Record)
  /\ Places

LEMMA ChainRecord ==
  ASSUME NEW m \in File, NEW s, NEW e, Chain(m, 0, s, e), NEW i \in 1..Len(s)
  PROVE  \E o \in Offsets : Parses(m, o) /\ s[i] = m[o].rec
<1>1. PICK at : Reads(m, s, at)
  BY DEF Chain
<1>2. Len(s) \in Nat
  BY Zenon, LenProperties DEF Chain
<1>3. at[i] \in 0..Capacity /\ Parses(m, at[i]) /\ s[i] = m[at[i]].rec
  BY <1>1, <1>2 DEF Reads
<1>4. at[i] \in Offsets
  BY <1>3, ParsesType
<1> QED
  BY <1>3, <1>4

LEMMA LastSeqType ==
  ASSUME NEW m \in File, NEW c \in Nat, Tagged(m, c)
  PROVE  FindLastSeq(m) \in 0..c
<1>1. Full(m, 0, Replay(m), FindEnd(m)) /\ Replay(m) \in Seq(Record) /\ Len(Replay(m)) \in Nat
  BY ReplayFull, LenProperties
<1>2. CASE Replay(m) = <<>>
  BY <1>2 DEF FindLastSeq
<1>3. CASE Replay(m) # <<>>
  <2>1. Len(Replay(m)) \in 1..Len(Replay(m))
    BY <1>1, <1>3
  <2>2. PICK o \in Offsets : Parses(m, o) /\ Replay(m)[Len(Replay(m))] = m[o].rec
    BY <2>1, <1>1, ChainRecord DEF Full
  <2>3. m[o] # Zero
    BY <2>2 DEF Parses
  <2>4. m[o].rec.seq <= c /\ m[o].rec.seq \in Nat
    BY <2>3, SlotType DEF Tagged
  <2>5. FindLastSeq(m) = m[o].rec.seq
    BY Zenon, <1>3, <2>2 DEF FindLastSeq
  <2> QED BY <2>4, <2>5
<1> QED
  BY <1>2, <1>3

\* Append and a kill inside it copy a new record.
LEMMA StepCopies ==
  ASSUME WalTyped, NEW size \in 1..MaxSize, NEW n \in 1..size, open, count < MaxAppends, Fits(size),
         mapped' = Copied(Serialize(size), n)
  PROVE  /\ Serialize(size) \in Record /\ Serialize(size).size = size
         /\ Serialize(size).seq = lastSeq + 1
         /\ mapped' \in File
         /\ Copy(mapped, mapped', Serialize(size), writeOffset, n, count)
<1> DEFINE r == Serialize(size)
<1>1. /\ writeOffset \in 0..Capacity /\ count \in Nat /\ lastSeq \in 0..count /\ mapped \in File
      /\ writeOffset + size <= Capacity /\ size \in Nat \ {0} /\ count + 1 \in 1..MaxAppends
      /\ lastSeq + 1 \in 1..MaxAppends
  BY SizesAssumption DEF WalTyped, Fits
<1>2. r \in Record /\ r.size = size /\ r.id = count + 1 /\ r.seq = lastSeq + 1
  BY Zenon, <1>1 DEF Serialize, Record
<1> HIDE DEF r
<1>3. mapped' = [o \in Offsets |-> IF o \in writeOffset..writeOffset + n - 1
                                   THEN [rec |-> r, part |-> o - writeOffset + 1] ELSE mapped[o]]
  BY DEF Copied, r
<1>4. ASSUME NEW o \in Offsets, o \in writeOffset..writeOffset + n - 1
      PROVE  [rec |-> r, part |-> o - writeOffset + 1] \in Slot
  <2>1. o - writeOffset + 1 \in 1..MaxSize
    BY <1>1, <1>4, SizesAssumption DEF Offsets
  <2> QED BY <2>1, <1>2 DEF Slot
<1>5. mapped' \in File
  <2>1. ASSUME NEW o \in Offsets PROVE mapped'[o] \in Slot \cup {Zero}
    <3>1. CASE o \in writeOffset..writeOffset + n - 1
      <4>1. mapped'[o] = [rec |-> r, part |-> o - writeOffset + 1]
        BY Zenon, <3>1, <1>3
      <4> QED BY Zenon, <4>1, <3>1, <1>4
    <3>2. CASE o \notin writeOffset..writeOffset + n - 1
      BY Zenon, <3>2, <1>1, <1>3 DEF File
    <3> QED BY Zenon, <3>1, <3>2
  <2> QED BY <2>1, <1>3 DEF File
<1>6. Holds(mapped', r, writeOffset, n)
  <2> SUFFICES ASSUME NEW q \in Offsets, writeOffset <= q, q < writeOffset + n
               PROVE  mapped'[q] = [rec |-> r, part |-> q - writeOffset + 1]
    BY DEF Holds
  <2>1. q \in writeOffset..writeOffset + n - 1
    BY <1>1 DEF Offsets
  <2> QED BY Zenon, <2>1, <1>3
<1>7. SameOutside(mapped, mapped', writeOffset, n)
  <2> SUFFICES ASSUME NEW q \in Offsets, q < writeOffset \/ writeOffset + n <= q
               PROVE  mapped'[q] = mapped[q]
    BY DEF SameOutside
  <2>1. q \notin writeOffset..writeOffset + n - 1
    BY <1>1 DEF Offsets
  <2> QED BY <2>1, <1>3
<1>8. Copy(mapped, mapped', r, writeOffset, n, count)
  BY <1>1, <1>2, <1>6, <1>7 DEF Copy
<1> QED
  BY <1>2, <1>5, <1>8 DEF r

LEMMA WalTypedInit == Init => WalTyped
<1> SUFFICES ASSUME Init PROVE WalTyped
  OBVIOUS
<1>1. mapped \in File /\ disk = mapped /\ \A o \in Offsets : mapped[o] = Zero
  BY Zenon DEF Init, File
<1>2. Places
  BY <1>1 DEF Places, Tagged, OnePlace
<1>3. <<>> \in Seq(Record)
  OBVIOUS
<1>4. open \in BOOLEAN /\ inOrder \in BOOLEAN
  BY Zenon DEF Init
<1>5. writeOffset \in 0..Capacity /\ count \in 0..MaxAppends /\ lastSeq \in 0..count
  BY SizesAssumption DEF Init
<1>6. acked \in Seq(Record) /\ kept \in Seq(Record) /\ synced \in Seq(Record)
  BY <1>3 DEF Init
<1> QED
  BY Zenon, <1>1, <1>2, <1>4, <1>5, <1>6 DEF WalTyped

\* The copy of a new record keeps the records in place.
LEMMA CopyPlaces ==
  ASSUME WalTyped, NEW r, NEW n, mapped' \in File, Copy(mapped, mapped', r, writeOffset, n, count),
         count' = count + 1, disk' = disk
  PROVE  Places'
<1>1. mapped \in File /\ disk \in File /\ count \in Nat /\ Places
  BY SizesAssumption DEF WalTyped
<1>2. Tagged(mapped', count')
  BY Zenon, <1>1, CopyTagged DEF Places
<1>3. Tagged(disk, count + 1)
  <2>1. ASSUME NEW o \in Offsets, disk[o] # Zero
        PROVE  /\ disk[o].rec.id <= count + 1 /\ disk[o].rec.seq <= count + 1
               /\ disk[o].part <= disk[o].rec.size
    <3>1. disk[o].rec.id \in Nat /\ disk[o].rec.seq \in Nat
      BY Zenon, <1>1, <2>1, SlotType
    <3> QED BY <1>1, <2>1, <3>1 DEF Places, Tagged
  <2> QED BY Zenon, <2>1 DEF Tagged
<1>4. OnePlace(mapped', mapped') /\ OnePlace(mapped', disk)
  BY Zenon, <1>1, CopyOnePlace DEF Places
<1>5. OnePlace(disk', disk') /\ OnePlace(mapped', disk') /\ Tagged(disk', count')
  BY <1>1, <1>3, <1>4 DEF Places
<1> QED
  BY <1>2, <1>4, <1>5 DEF Places

\* A disk made of slots of the mapping and of the disk keeps them, too.
LEMMA MixedPlaces ==
  ASSUME WalTyped, disk' \in File, \A o \in Offsets : disk'[o] \in {disk[o], mapped[o]},
         mapped' = mapped, count' = count
  PROVE  Places'
<1>1. mapped \in File /\ disk \in File /\ Places
  BY Zenon DEF WalTyped
<1>2. Tagged(disk', count)
  <2> SUFFICES ASSUME NEW o \in Offsets, disk'[o] # Zero
               PROVE  /\ disk'[o].rec.id <= count /\ disk'[o].rec.seq <= count
                      /\ disk'[o].part <= disk'[o].rec.size
    BY DEF Tagged
  <2>1. disk'[o] = disk[o] \/ disk'[o] = mapped[o]
    BY Zenon
  <2>2. CASE disk'[o] = disk[o]
    BY Zenon, <2>2, <1>1 DEF Places, Tagged
  <2>3. CASE disk'[o] = mapped[o]
    BY <2>3, <1>1 DEF Places, Tagged
  <2> QED BY Zenon, <2>1, <2>2, <2>3
<1>3. OnePlace(disk, mapped)
  BY Zenon, <1>1, OnePlaceSym DEF Places
<1>4. OnePlace(mapped, disk')
  <2> SUFFICES ASSUME NEW o \in Offsets, NEW q \in Offsets, mapped[o] # Zero, disk'[q] # Zero,
                      mapped[o].rec.id = disk'[q].rec.id
               PROVE  mapped[o].rec = disk'[q].rec /\ o - mapped[o].part = q - disk'[q].part
    BY Zenon DEF OnePlace
  <2>1. CASE disk'[q] = disk[q]
    BY <2>1, <1>1 DEF Places, OnePlace
  <2>2. CASE disk'[q] = mapped[q]
    BY <2>2, <1>1 DEF Places, OnePlace
  <2> QED BY Zenon, <2>1, <2>2
<1>5. OnePlace(disk, disk')
  <2> SUFFICES ASSUME NEW o \in Offsets, NEW q \in Offsets, disk[o] # Zero, disk'[q] # Zero,
                      disk[o].rec.id = disk'[q].rec.id
               PROVE  disk[o].rec = disk'[q].rec /\ o - disk[o].part = q - disk'[q].part
    BY Zenon DEF OnePlace
  <2>1. CASE disk'[q] = disk[q]
    BY <2>1, <1>1 DEF Places, OnePlace
  <2>2. CASE disk'[q] = mapped[q]
    BY <2>2, <1>3 DEF OnePlace
  <2> QED BY Zenon, <2>1, <2>2
<1>6. OnePlace(disk', disk')
  <2> SUFFICES ASSUME NEW o \in Offsets, NEW q \in Offsets, disk'[o] # Zero, disk'[q] # Zero,
                      disk'[o].rec.id = disk'[q].rec.id
               PROVE  disk'[o].rec = disk'[q].rec /\ o - disk'[o].part = q - disk'[q].part
    BY Zenon DEF OnePlace
  <2>1. CASE disk'[o] = disk[o]
    BY <2>1, <1>5 DEF OnePlace
  <2>2. CASE disk'[o] = mapped[o]
    BY <2>2, <1>4 DEF OnePlace
  <2> QED BY Zenon, <2>1, <2>2
<1> QED
  BY <1>1, <1>2, <1>4, <1>6 DEF Places

\* What Close and WriteBack leave on the disk.
LEMMA DiskSteps ==
  ASSUME WalTyped
  PROVE  /\ Close => disk' \in File /\ \A o \in Offsets : disk'[o] = IF o < writeOffset THEN mapped[o] ELSE disk[o]
         /\ \A p \in Offsets : WriteBack(p) =>
              disk' \in File /\ \A o \in Offsets : disk'[o] = IF o = p THEN mapped[o] ELSE disk[o]
<1>1. mapped \in File /\ disk \in File
  BY DEF WalTyped
<1>2. Close => disk' \in File /\ \A o \in Offsets : disk'[o] = IF o < writeOffset THEN mapped[o] ELSE disk[o]
  BY <1>1 DEF Close, Synced, File
<1>3. ASSUME NEW p \in Offsets, WriteBack(p)
      PROVE  disk' \in File /\ \A o \in Offsets : disk'[o] = IF o = p THEN mapped[o] ELSE disk[o]
  BY <1>1, <1>3 DEF WriteBack, File
<1> QED
  BY <1>2, <1>3

LEMMA WalTypedStep == WalTyped /\ [Next]_vars => WalTyped'
<1> SUFFICES ASSUME WalTyped, [Next]_vars PROVE WalTyped'
  OBVIOUS
<1>0. /\ mapped \in File /\ disk \in File /\ count \in Nat /\ Places
      /\ lastSeq \in 0..count /\ writeOffset \in 0..Capacity /\ MaxAppends \in Nat
  BY SizesAssumption DEF WalTyped
<1>1. CASE Open
  <2>1. FindEnd(mapped) \in 0..Capacity
    BY <1>0, ReplayFull
  <2>2. FindLastSeq(mapped) \in 0..count
    BY <1>0, LastSeqType DEF Places
  <2> QED BY <1>0, <1>1, <2>1, <2>2 DEF Open, WalTyped, Places
<1>2. CASE Close
  <2>1. disk' \in File /\ \A o \in Offsets : disk'[o] \in {disk[o], mapped[o]}
    BY Zenon, <1>2, DiskSteps
  <2>2. Places'
    BY <1>2, <2>1, MixedPlaces DEF Close
  <2>3. Replay(mapped) \in Seq(Record)
    BY <1>0, ReplayFull
  <2> QED BY Zenon, <1>0, <1>2, <2>1, <2>2, <2>3 DEF Close, WalTyped
<1>3. CASE Kill
  BY Zenon, <1>3 DEF Kill, WalTyped, Places
<1>4. CASE PowerLoss
  <2>1. Replay(disk) \in Seq(Record)
    BY Zenon, <1>0, ReplayFull
  <2> QED BY Zenon, <1>4, <2>1 DEF PowerLoss, WalTyped, Places
<1>5. ASSUME NEW size \in 1..MaxSize, Append1(size) PROVE WalTyped'
  <2> DEFINE r == Serialize(size)
  <2>0. size \in 1..size
    OBVIOUS
  <2>1. r \in Record /\ mapped' \in File /\ Copy(mapped, mapped', r, writeOffset, size, count)
    BY Zenon, <1>5, <2>0, StepCopies DEF Append1
  <2>2. Places'
    BY <1>5, <2>1, CopyPlaces DEF Append1
  <2>3. Append(acked, r) \in Seq(Record) /\ Append(kept, r) \in Seq(Record)
    BY <2>1 DEF WalTyped
  <2>4. writeOffset' \in 0..Capacity /\ count' \in 0..MaxAppends /\ lastSeq' \in 0..count'
    BY <1>0, <1>5, SizesAssumption DEF Append1, Fits
  <2> HIDE DEF r
  <2>5. acked' = Append(acked, r) /\ kept' = Append(kept, r)
    BY <1>5 DEF Append1, r
  <2> QED BY <1>5, <2>1, <2>2, <2>3, <2>4, <2>5 DEF Append1, WalTyped
<1>6. ASSUME NEW size \in 1..MaxSize, NEW n \in 1..size, KillInAppend(size, n) PROVE WalTyped'
  <2> DEFINE r == Serialize(size)
  <2>1. mapped' \in File /\ Copy(mapped, mapped', r, writeOffset, n, count)
    BY Zenon, <1>6, StepCopies DEF KillInAppend
  <2>2. Places'
    BY Zenon, <1>6, <2>1, CopyPlaces DEF KillInAppend
  <2>4. count' \in 0..MaxAppends /\ lastSeq' \in 0..count'
    BY <1>0, <1>6 DEF KillInAppend
  <2> QED BY Zenon, <1>6, <2>1, <2>2, <2>4 DEF KillInAppend, WalTyped
<1>7. ASSUME NEW o \in Offsets, WriteBack(o) PROVE WalTyped'
  <2>1. disk' \in File /\ \A q \in Offsets : disk'[q] \in {disk[q], mapped[q]}
    BY Zenon, <1>7, DiskSteps
  <2>2. Places'
    BY Zenon, <1>7, <2>1, MixedPlaces DEF WriteBack
  <2> QED BY Zenon, <1>7, <2>1, <2>2 DEF WriteBack, WalTyped
<1>8. CASE UNCHANGED vars
  BY <1>8 DEF vars, WalTyped, Places
<1> QED
  BY Zenon, <1>1, <1>2, <1>3, <1>4, <1>5, <1>6, <1>7, <1>8 DEF Next

\* The log is well typed, its write offset inside the file and its numbers
\* within the records appended, however kills, power losses and write-backs
\* interleave with Open, Append and Close: TypeOK of src/wal.cpp's state.
THEOREM WalTypeCorrect == Spec => []TypeOK
<1>1. WalTyped => TypeOK
  <2> SUFFICES ASSUME WalTyped PROVE TypeOK
    OBVIOUS
  <2>1. \A o \in Offsets : mapped[o] \in Slot \cup {Zero} /\ disk[o] \in Slot \cup {Zero}
    BY DEF WalTyped, File
  <2>2. lastSeq \in 0..MaxAppends
    BY SizesAssumption DEF WalTyped
  <2> QED BY <2>1, <2>2 DEF WalTyped, TypeOK
<1> QED
  BY <1>1, WalTypedInit, WalTypedStep, PTL DEF Spec

-----------------------------------------------------------------------------
(* What survives, in whatever order pages reach the disk *)

\* Every record that parses at w or behind is on the disk.
Written(m, d, w) ==
  \A o \in Offsets : w <= o /\ Parses(m, o) =>
    \A q \in Offsets : o <= q /\ q < o + m[o].rec.size => d[q] = m[q]

\* The records are read at least up to the write offset; the kept ones lie in
\* front of it, and what lies behind it was there after a power loss.
Frontier ==
  \E s, w : /\ Chain(mapped, 0, s, w) /\ Written(mapped, disk, w)
            /\ open => w = writeOffset /\ Range(kept) \subseteq Range(s)

\* The records of the last Close lie on the disk and in the mapping, in front
\* of the write offset.
Stable ==
  \E e : /\ Chain(mapped, 0, synced, e) /\ Chain(disk, 0, synced, e)
         /\ open => e <= writeOffset

LEMMA CopyChain ==
  ASSUME NEW m \in File, NEW n \in File, NEW r, NEW w, NEW k, NEW c, Copy(m, n, r, w, k, c),
         NEW s, NEW e, Chain(m, 0, s, e), e <= w
  PROVE  Chain(n, 0, s, e)
<1>1. e \in 0..Capacity /\ w \in 0..Capacity
  BY Zenon, ChainIsReplayed DEF Copy
<1>2. \A q \in Offsets : q < e => n[q] = m[q]
  BY <1>1 DEF Copy, SameOutside, Offsets
<1> QED
  BY Zenon, <1>2, ChainAgree

\* Behind the copy nothing new parses.
LEMMA CopyWritten ==
  ASSUME NEW m \in File, NEW n \in File, NEW d \in File, NEW r, NEW w, NEW k, NEW c \in Nat,
         Copy(m, n, r, w, k, c), Written(m, d, w)
  PROVE  Written(n, d, w + k)
<1>1. w \in 0..Capacity /\ k \in Nat
  BY DEF Copy, Record
<1> SUFFICES ASSUME NEW o \in Offsets, w + k <= o, Parses(n, o),
                    NEW q \in Offsets, o <= q, q < o + n[o].rec.size
             PROVE  d[q] = n[q]
  BY Zenon DEF Written
<1>2. o \in 0..Capacity /\ w <= o /\ \A p \in Offsets : o <= p => w + k <= p
  BY <1>1, SizesAssumption DEF Offsets
<1>3. \A p \in Offsets : o <= p => m[p] = n[p]
  BY Zenon, <1>2 DEF Copy, SameOutside
<1>4. Parses(m, o) /\ m[o] = n[o]
  BY Zenon, <1>2, <1>3, ParsesAgree
<1>5. d[q] = m[q]
  BY Zenon, <1>2, <1>4 DEF Written
<1> QED
  BY Zenon, <1>3, <1>5

LEMMA TornWritten ==
  ASSUME NEW m \in File, NEW n \in File, NEW d \in File, NEW r, NEW w, NEW k, NEW c \in Nat,
         Copy(m, n, r, w, k, c), k < r.size, Tagged(m, c), Written(m, d, w)
  PROVE  Written(n, d, w)
<1>1. w \in 0..Capacity /\ k \in Nat /\ Slots(m, n, r, w, k)
  BY CopySlot DEF Copy, Record
<1>2. Written(n, d, w + k)
  BY CopyWritten
<1>3. ASSUME NEW o \in Offsets, w <= o, o < w + k, Parses(n, o) PROVE FALSE
  <2>1. o \in 0..Capacity
    BY SizesAssumption DEF Offsets
  <2>2. n[o].part = o - w + 1
    <3>1. ~(o < w \/ w + k <= o)
      BY <1>1, <1>3 DEF Offsets
    <3> QED BY Zenon, <3>1, <1>1 DEF Slots
  <2>3. n[o].part = 1
    BY Zenon, <2>1, <1>3, ParsesStarts DEF Starts
  <2>4. o = w
    BY <2>1, <2>2, <2>3, <1>1
  <2> QED BY Zenon, <2>4, <1>3, TornReplay
<1>4. \A o \in Offsets : w <= o /\ Parses(n, o) => w + k <= o
  BY <1>1, <1>3 DEF Offsets
<1> QED
  BY Zenon, <1>2, <1>4 DEF Written

\* A disk that has the file up to w has the whole log.
LEMMA FlushChain ==
  ASSUME NEW m \in File, NEW d \in File, NEW f \in File, NEW s, NEW w, Chain(m, 0, s, w),
         Written(m, d, w),
         \A q \in Offsets : f[q] = IF q < w THEN m[q] ELSE d[q]
  PROVE  Chain(f, 0, Replay(m), FindEnd(m))
<1>1. Full(m, 0, Replay(m), FindEnd(m)) /\ FindEnd(m) \in 0..Capacity
  BY Zenon, ReplayFull
<1>2. w \in 0..Capacity
  BY ChainIsReplayed
<1>3. ASSUME NEW q \in Offsets, q < FindEnd(m) PROVE f[q] = m[q]
  <2>1. CASE q < w
    BY <2>1
  <2>2. CASE w <= q
    <3>1. q \in Int
      BY DEF Offsets
    <3>2. PICK o \in w..q : o \in 0..Capacity /\ Parses(m, o) /\ q < o + m[o].rec.size
      BY Zenon, <1>1, <1>3, <2>2, <3>1, Cover
    <3>6. o \in Offsets
      BY Zenon, <3>2, ParsesType
    <3>3. o \in Offsets /\ w <= o /\ o <= q
      BY <3>6, <3>2, <1>2, <3>1
    <3>4. d[q] = m[q]
      BY Zenon, <3>2, <3>3 DEF Written
    <3>5. ~(q < w)
      BY <2>2, <3>1, <1>2
    <3> QED BY <3>4, <3>5
  <2> QED BY <2>1, <2>2, <1>2 DEF Offsets
<1> QED
  BY Zenon, <1>1, <1>3, ChainAgree DEF Full

\* The same records in two files fill the same slots.
LEMMA SameSlots ==
  ASSUME NEW m \in File, NEW d \in File, NEW s, NEW e, Chain(m, 0, s, e), Chain(d, 0, s, e)
  PROVE  \A q \in Offsets : q < e => d[q] = m[q]
<1>1. PICK at : Reads(m, s, at) /\ at[1] = 0 /\ at[Len(s) + 1] = e
  BY DEF Chain
<1>2. PICK bt : Reads(d, s, bt) /\ bt[1] = 0
  BY DEF Chain
<1>3. s \in Seq(Record) /\ Len(s) \in Nat
  BY Zenon, LenProperties DEF Chain
<1>4. \A i \in 1..Len(s) + 1 : at[i] = bt[i]
  <2> DEFINE S == {i \in 1..Len(s) + 1 : at[i] = bt[i]}
  <2>1. 1 \in S
    BY <1>1, <1>2, <1>3
  <2>2. ASSUME NEW i \in 1..Len(s), i \in S PROVE i + 1 \in S
    BY <1>1, <1>2, <1>3, <2>2 DEF Reads
  <2>3. \A i \in 1..Len(s) + 1 : i \in S
    <3> HIDE DEF S
    <3> QED BY Zenon, <1>3, <2>1, <2>2, Forward
  <2> QED BY <2>3
<1>5. ASSUME NEW q \in Offsets, q < e PROVE d[q] = m[q]
  <2> DEFINE T == {j \in 1..Len(s) + 1 : q < at[j]}
  <2>1. Len(s) + 1 \in T /\ T \in SUBSET Nat
    BY <1>1, <1>3, <1>5
  <2>2. PICK j \in T : \A i \in T : j <= i
    <3> HIDE DEF T
    <3> QED BY Zenon, <2>1, LeastOf
  <2>3. j # 1
    BY <1>1 DEF Offsets
  <2> DEFINE i == j - 1
  <2>4. i \in 1..Len(s) /\ i + 1 = j /\ i \in 1..Len(s) + 1 /\ i \notin T /\ q < at[j] /\ j \in 1..Len(s) + 1
    BY <1>3, <2>2, <2>3
  <2>5. ~(q < at[i])
    BY Zenon, <2>4
  <2> HIDE DEF i, T
  <2>6. /\ at[i] \in 0..Capacity /\ Parses(m, at[i]) /\ s[i] = m[at[i]].rec
        /\ at[j] = at[i] + s[i].size
    BY Zenon, <1>1, <2>4 DEF Reads
  <2>7. Parses(d, at[i]) /\ s[i] = d[at[i]].rec
    <3>1. at[i] = bt[i]
      BY Zenon, <1>4, <2>4
    <3> QED BY Zenon, <3>1, <1>2, <2>4 DEF Reads
  <2>8. q \in Int /\ at[i] <= q /\ q < at[i] + m[at[i]].rec.size /\ q < at[i] + d[at[i]].rec.size
    <3>1. q \in Int
      BY DEF Offsets
    <3>2. at[i] <= q
      BY <3>1, <2>5, <2>6
    <3> QED BY Zenon, <3>1, <3>2, <2>4, <2>6, <2>7
  <2>9. m[q] = [rec |-> m[at[i]].rec, part |-> q - at[i] + 1]
    BY Zenon, <2>6, <2>8, ParsesSlots
  <2>10. d[q] = [rec |-> d[at[i]].rec, part |-> q - at[i] + 1]
    BY Zenon, <2>6, <2>7, <2>8, ParsesSlots
  <2> QED BY Zenon, <2>6, <2>7, <2>9, <2>10
<1> QED
  BY <1>5

\* Slots written back take nothing from what is on the disk.
LEMMA MixedWritten ==
  ASSUME NEW m \in File, NEW d \in File, NEW f \in File, NEW w, Written(m, d, w),
         \A q \in Offsets : f[q] \in {d[q], m[q]}
  PROVE  Written(m, f, w)
BY DEF Written

LEMMA MixedChain ==
  ASSUME NEW m \in File, NEW d \in File, NEW f \in File, NEW s, NEW e,
         Chain(m, 0, s, e), Chain(d, 0, s, e),
         \A q \in Offsets : f[q] \in {d[q], m[q]}
  PROVE  Chain(f, 0, s, e)
<1>1. ASSUME NEW q \in Offsets, q < e PROVE d[q] = m[q]
  BY <1>1, SameSlots
<1>2. \A q \in Offsets : q < e => f[q] = m[q]
  BY <1>1
<1> QED
  BY Zenon, <1>2, ChainAgree

Survives == WalTyped /\ Frontier /\ Stable /\ KeptIsReplayed

LEMMA SurvivesInit == Init => Survives
<1> SUFFICES ASSUME Init PROVE Survives
  OBVIOUS
<1>1. WalTyped
  BY WalTypedInit
<1>2. mapped \in File /\ disk = mapped /\ open = FALSE /\ synced = <<>> /\ kept = <<>>
  BY <1>1 DEF Init, WalTyped
<1>3. Chain(mapped, 0, <<>>, 0) /\ Chain(disk, 0, <<>>, 0)
  BY ChainEmpty, SizesAssumption
<1>4. Written(mapped, disk, 0)
  BY <1>2 DEF Written
<1>5. Frontier
  BY <1>2, <1>3, <1>4 DEF Frontier
<1>6. Stable
  BY <1>2, <1>3 DEF Stable
<1>7. Embedded(<<>>, Replay(mapped))
  BY DEF Embedded, Range
<1> QED
  BY Zenon, <1>1, <1>2, <1>5, <1>6, <1>7 DEF Survives, KeptIsReplayed

\* What a copied record, whole or torn, leaves of the log.
LEMMA SurvivesCopy ==
  ASSUME Survives, WalTyped', open, NEW r, NEW n, Copy(mapped, mapped', r, writeOffset, n, count),
         disk' = disk, synced' = synced
  PROVE  /\ writeOffset <= writeOffset' => Stable'
         /\ \E s : /\ Chain(mapped, 0, s, writeOffset) /\ Chain(mapped', 0, s, writeOffset)
                   /\ Written(mapped, disk, writeOffset)
                   /\ s \in Seq(Record) /\ Range(kept) \subseteq Range(s)
                   /\ Embedded(kept, Replay(mapped'))
<1>1. /\ mapped \in File /\ disk \in File /\ mapped' \in File /\ writeOffset \in 0..Capacity
      /\ writeOffset' \in 0..Capacity /\ kept \in Seq(Record)
  BY DEF Survives, WalTyped
<1>2. PICK s : /\ Chain(mapped, 0, s, writeOffset) /\ Written(mapped, disk, writeOffset)
               /\ Range(kept) \subseteq Range(s)
  BY DEF Survives, Frontier
<1>3. writeOffset <= writeOffset
  BY <1>1
<1>4. Chain(mapped', 0, s, writeOffset)
  BY Zenon, <1>1, <1>2, <1>3, CopyChain
<1>5. Embedded(kept, Replay(mapped'))
  <2>1. s \in Seq(Record) /\ StartOf(s, Replay(mapped)) /\ StartOf(s, Replay(mapped'))
    BY Zenon, <1>1, <1>2, <1>4, ChainIsReplayed DEF StartOf
  <2>2. Replay(mapped) \in Seq(Record) /\ Replay(mapped') \in Seq(Record)
    BY Zenon, <1>1, ReplayFull
  <2>3. OnePlace(mapped', mapped')
    BY DEF WalTyped, Places
  <2>4. Injective(Replay(mapped'))
    BY Zenon, <2>3, <1>1, ReplayInjective
  <2>5. Embedded(kept, Replay(mapped))
    BY DEF Survives, KeptIsReplayed
  <2> QED BY Zenon, <1>1, <1>2, <2>1, <2>2, <2>4, <2>5, EmbeddedMove
<1>6. PICK e : Chain(mapped, 0, synced, e) /\ Chain(disk, 0, synced, e) /\ e <= writeOffset
  BY Zenon DEF Survives, Stable
<1>7. Chain(mapped', 0, synced', e) /\ Chain(disk', 0, synced', e) /\ e \in 0..Capacity
  BY Zenon, <1>1, <1>6, CopyChain, ChainIsReplayed
<1>8. writeOffset <= writeOffset' => Stable'
  BY <1>1, <1>6, <1>7 DEF Stable
<1> QED
  BY Zenon, <1>2, <1>4, <1>5, <1>8, ChainIsReplayed, <1>1

LEMMA SurvivesAppend ==
  ASSUME Survives, WalTyped', NEW size \in 1..MaxSize, Append1(size)
  PROVE  Survives'
<1> DEFINE r == Serialize(size)
<1>0. size \in 1..size /\ size \in Nat \ {0}
  OBVIOUS
<1>1. r \in Record /\ r.size = size /\ Copy(mapped, mapped', r, writeOffset, size, count) /\ mapped' \in File
  BY Zenon, <1>0, StepCopies DEF Append1, Survives
<1>2. /\ open /\ open' = open /\ disk' = disk /\ synced' = synced /\ kept' = Append(kept, r)
      /\ writeOffset' = writeOffset + size
  BY Zenon DEF Append1
<1> HIDE DEF r
<1>3. /\ mapped \in File /\ disk \in File /\ writeOffset \in 0..Capacity /\ kept \in Seq(Record) /\ count \in Nat
      /\ OnePlace(mapped', mapped')
  BY SizesAssumption DEF Survives, WalTyped, Places
<1>4. writeOffset <= writeOffset'
  BY <1>0, <1>2, <1>3
<1>5. PICK s : /\ Chain(mapped', 0, s, writeOffset) /\ Written(mapped, disk, writeOffset)
               /\ s \in Seq(Record) /\ Range(kept) \subseteq Range(s)
               /\ Embedded(kept, Replay(mapped'))
  BY Zenon, <1>1, <1>2, SurvivesCopy
<1>6. Stable'
  BY Zenon, <1>1, <1>2, <1>4, SurvivesCopy
<1>7. Parses(mapped', writeOffset) /\ mapped'[writeOffset].rec = r
  BY Zenon, <1>1, <1>3, HoldsParses DEF Copy
<1>8. Chain(mapped', 0, Append(s, r), writeOffset')
  BY Zenon, <1>1, <1>2, <1>5, <1>7, ChainSnoc
<1>9. Written(mapped', disk', writeOffset')
  BY Zenon, <1>1, <1>2, <1>3, <1>5, CopyWritten
<1>10. StartOf(Append(s, r), Replay(mapped'))
  BY Zenon, <1>1, <1>8, ChainIsReplayed DEF StartOf
<1>11. Embedded(kept', Replay(mapped'))
  <2>1. Replay(mapped') \in Seq(Record) /\ Injective(Replay(mapped'))
    BY Zenon, <1>1, <1>3, ReplayFull, ReplayInjective
  <2> QED BY Zenon, <1>1, <1>2, <1>3, <1>5, <1>10, <2>1, EmbeddedAppend
<1>12. Range(kept') \subseteq Range(Append(s, r))
  <2>1. Range(Append(kept, r)) = Range(kept) \cup {r} /\ Range(Append(s, r)) = Range(s) \cup {r}
    BY <1>1, <1>3, <1>5, RangeAppend
  <2> QED BY Zenon, <2>1, <1>2, <1>5
<1>13. Frontier'
  BY Zenon, <1>8, <1>9, <1>12 DEF Frontier
<1> QED
  BY Zenon, <1>6, <1>11, <1>13 DEF Survives, KeptIsReplayed

\* A kill inside Append: the record is torn, or whole and the last.
LEMMA SurvivesKilled ==
  ASSUME Survives, WalTyped', NEW size \in 1..MaxSize, NEW n \in 1..size, KillInAppend(size, n)
  PROVE  Survives'
<1> DEFINE r == Serialize(size)
<1>0. size \in Nat /\ n \in Nat /\ n <= size
  OBVIOUS
<1>1. /\ r \in Record /\ r.size = size /\ Copy(mapped, mapped', r, writeOffset, n, count)
      /\ mapped' \in File
  BY Zenon, StepCopies DEF KillInAppend, Survives
<1>2. open /\ open' = FALSE /\ disk' = disk /\ synced' = synced /\ kept' = kept /\ writeOffset' = writeOffset
  BY Zenon DEF KillInAppend
<1> HIDE DEF r
<1>3. /\ mapped \in File /\ disk \in File /\ writeOffset \in 0..Capacity /\ count \in Nat
      /\ Tagged(mapped, count)
  BY SizesAssumption DEF Survives, WalTyped, Places
<1>4. PICK s : /\ Chain(mapped', 0, s, writeOffset) /\ Written(mapped, disk, writeOffset)
               /\ Embedded(kept, Replay(mapped'))
  BY Zenon, <1>1, <1>2, SurvivesCopy
<1>5. Stable'
  BY <1>1, <1>2, <1>3, SurvivesCopy
<1>6. ASSUME n < size PROVE Frontier'
  <2>1. Written(mapped', disk', writeOffset)
    BY Zenon, <1>1, <1>2, <1>3, <1>4, <1>6, TornWritten
  <2> QED BY Zenon, <1>2, <1>4, <2>1 DEF Frontier
<1>7. ASSUME n = size PROVE Frontier'
  <2>1. Parses(mapped', writeOffset) /\ mapped'[writeOffset].rec = r
    BY Zenon, <1>1, <1>3, <1>7, HoldsParses DEF Copy
  <2>2. Chain(mapped', 0, Append(s, r), writeOffset + size)
    BY Zenon, <1>1, <1>4, <2>1, ChainSnoc
  <2>3. Written(mapped', disk', writeOffset + size)
    BY Zenon, <1>1, <1>2, <1>3, <1>4, <1>7, CopyWritten
  <2> QED BY Zenon, <1>2, <2>2, <2>3 DEF Frontier
<1>8. Frontier'
  BY <1>0, <1>6, <1>7
<1> QED
  BY Zenon, <1>2, <1>4, <1>5, <1>8 DEF Survives, KeptIsReplayed

LEMMA SurvivesClose ==
  ASSUME Survives, WalTyped', Close
  PROVE  Survives'
<1>1. /\ mapped \in File /\ disk \in File /\ mapped' = mapped /\ kept' = kept /\ open /\ open' = FALSE
      /\ synced' = Replay(mapped)
  BY Zenon DEF Survives, WalTyped, Close
<1>2. disk' \in File /\ \A o \in Offsets : disk'[o] = IF o < writeOffset THEN mapped[o] ELSE disk[o]
  BY Zenon, DiskSteps DEF Survives
<1>3. PICK s : Chain(mapped, 0, s, writeOffset) /\ Written(mapped, disk, writeOffset)
  BY Zenon, <1>1 DEF Survives, Frontier
<1>4. Chain(disk', 0, Replay(mapped), FindEnd(mapped))
  BY Zenon, <1>1, <1>2, <1>3, FlushChain
<1>5. Chain(mapped, 0, Replay(mapped), FindEnd(mapped))
  BY Zenon, <1>1, ReplayFull DEF Full
<1>6. Stable'
  BY Zenon, <1>1, <1>4, <1>5 DEF Stable
<1>7. \A o \in Offsets : disk'[o] \in {disk[o], mapped[o]}
  BY Zenon, <1>2
<1>8. Written(mapped', disk', writeOffset)
  BY Zenon, <1>1, <1>2, <1>3, <1>7, MixedWritten
<1>9. Frontier'
  BY Zenon, <1>1, <1>3, <1>8 DEF Frontier
<1> QED
  BY Zenon, <1>1, <1>6, <1>9 DEF Survives, KeptIsReplayed

LEMMA SurvivesStep == Survives /\ [Next]_vars => Survives'
<1> SUFFICES ASSUME Survives, [Next]_vars PROVE Survives'
  BY Zenon
<1>0. WalTyped /\ WalTyped' /\ mapped \in File /\ disk \in File /\ kept \in Seq(Record)
  BY Zenon, WalTypedStep DEF Survives, WalTyped
<1>1. CASE Open
  <2>1. /\ mapped' = mapped /\ disk' = disk /\ kept' = kept /\ synced' = synced
        /\ writeOffset' = FindEnd(mapped)
    BY <1>1 DEF Open
  <2>2. Chain(mapped, 0, Replay(mapped), FindEnd(mapped))
    BY Zenon, <1>0, ReplayFull DEF Full
  <2>3. Written(mapped, disk, FindEnd(mapped))
    <3>1. PICK s, w : Chain(mapped, 0, s, w) /\ Written(mapped, disk, w)
      BY Zenon DEF Survives, Frontier
    <3>2. w <= FindEnd(mapped) /\ w \in 0..Capacity /\ FindEnd(mapped) \in 0..Capacity
      BY Zenon, <1>0, <3>1, ChainIsReplayed, ReplayFull
    <3>3. \A o \in Offsets : FindEnd(mapped) <= o => w <= o
      BY <3>2 DEF Offsets
    <3> QED BY Zenon, <3>1, <3>3 DEF Written
  <2>4. Range(kept) \subseteq Range(Replay(mapped))
    BY Zenon DEF Survives, KeptIsReplayed, Embedded
  <2>5. Frontier'
    BY Zenon, <2>1, <2>2, <2>3, <2>4 DEF Frontier
  <2>6. PICK e : Chain(mapped, 0, synced, e) /\ Chain(disk, 0, synced, e)
    BY Zenon DEF Survives, Stable
  <2>7. e <= FindEnd(mapped)
    BY Zenon, <1>0, <2>6, ChainIsReplayed
  <2>8. Stable'
    BY Zenon, <2>1, <2>6, <2>7 DEF Stable
  <2> QED BY Zenon, <1>0, <2>1, <2>5, <2>8 DEF Survives, KeptIsReplayed
<1>2. CASE Close
  BY Zenon, <1>0, <1>2, SurvivesClose
<1>3. CASE Kill
  <2>1. mapped' = mapped /\ disk' = disk /\ kept' = kept /\ synced' = synced /\ open' = FALSE
    BY Zenon, <1>3 DEF Kill
  <2>2. Frontier'
    BY Zenon, <2>1 DEF Survives, Frontier
  <2>3. Stable'
    BY Zenon, <2>1 DEF Survives, Stable
  <2> QED BY Zenon, <1>0, <2>1, <2>2, <2>3 DEF Survives, KeptIsReplayed
<1>4. CASE PowerLoss
  <2>1. mapped' = disk /\ disk' = disk /\ kept' = Replay(disk) /\ synced' = synced /\ open' = FALSE
    BY <1>4 DEF PowerLoss
  <2>2. Chain(mapped', 0, <<>>, 0)
    BY ChainEmpty, SizesAssumption
  <2>3. Written(mapped', disk', 0)
    BY Zenon, <2>1 DEF Written
  <2>4. Frontier'
    BY Zenon, <2>1, <2>2, <2>3 DEF Frontier
  <2>5. Stable'
    BY Zenon, <2>1 DEF Survives, Stable
  <2>6. Replay(disk) \in Seq(Record) /\ OnePlace(disk, disk)
    BY Zenon, <1>0, ReplayFull DEF WalTyped, Places
  <2>7. Embedded(Replay(disk), Replay(disk))
    BY Zenon, <1>0, <2>6, ReplayInjective, EmbeddedSelf
  <2> QED BY Zenon, <1>0, <2>1, <2>4, <2>5, <2>7 DEF Survives, KeptIsReplayed
<1>5. ASSUME NEW size \in 1..MaxSize, Append1(size) PROVE Survives'
  BY Zenon, <1>0, <1>5, SurvivesAppend
<1>6. ASSUME NEW size \in 1..MaxSize, NEW n \in 1..size, KillInAppend(size, n) PROVE Survives'
  BY Zenon, <1>0, <1>6, SurvivesKilled
<1>7. ASSUME NEW p \in Offsets, WriteBack(p) PROVE Survives'
  <2>1. disk' \in File /\ \A o \in Offsets : disk'[o] \in {disk[o], mapped[o]}
    BY Zenon, <1>0, <1>7, DiskSteps
  <2>2. mapped' = mapped /\ kept' = kept /\ synced' = synced /\ open' = open /\ writeOffset' = writeOffset
    BY Zenon, <1>7 DEF WriteBack
  <2>3. PICK s, w : /\ Chain(mapped, 0, s, w) /\ Written(mapped, disk, w)
                    /\ open => w = writeOffset /\ Range(kept) \subseteq Range(s)
    BY Zenon DEF Survives, Frontier
  <2>4. Written(mapped, disk', w)
    BY Zenon, <1>0, <2>1, <2>3, MixedWritten
  <2>5. Frontier'
    BY Zenon, <2>2, <2>3, <2>4 DEF Frontier
  <2>6. PICK e : /\ Chain(mapped, 0, synced, e) /\ Chain(disk, 0, synced, e)
                 /\ open => e <= writeOffset
    BY Zenon DEF Survives, Stable
  <2>7. Chain(disk', 0, synced, e)
    BY Zenon, <1>0, <2>1, <2>6, MixedChain
  <2>8. Stable'
    BY Zenon, <2>2, <2>6, <2>7 DEF Stable
  <2> QED BY Zenon, <1>0, <2>2, <2>5, <2>8 DEF Survives, KeptIsReplayed
<1>8. CASE UNCHANGED vars
  <2>1. /\ mapped' = mapped /\ disk' = disk /\ kept' = kept /\ synced' = synced /\ open' = open
        /\ writeOffset' = writeOffset
    BY Zenon, <1>8 DEF vars
  <2>2. Frontier'
    BY Zenon, <2>1 DEF Survives, Frontier
  <2>3. Stable'
    BY <2>1 DEF Survives, Stable
  <2> QED BY Zenon, <1>0, <2>1, <2>2, <2>3 DEF Survives, KeptIsReplayed
<1> QED
  BY Zenon, <1>1, <1>2, <1>3, <1>4, <1>5, <1>6, <1>7, <1>8 DEF Next

\* No kill, not even one inside Append, costs a record that Append returned
\* for: what the last power loss left and what was appended since is replayed,
\* once and in order, in whatever order the kernel writes pages back.
THEOREM WalKeepsKept == Spec => []KeptIsReplayed
<1>1. Survives => KeptIsReplayed
  BY DEF Survives
<1> QED
  BY <1>1, SurvivesInit, SurvivesStep, PTL DEF Spec

\* Without a loss of power every record that Append returned for is replayed,
\* once and in order, however often the process is killed, wherever in Append,
\* and started again: what src/replication.cpp calls "already durable" holds
\* of kills.
THEOREM WalAckedSurvivesKills == ASSUME ~PowerMayFail PROVE Spec => []AckedIsReplayed
<1>1. Init => acked = kept
  BY Zenon DEF Init
<1>2. acked = kept /\ [Next]_vars => (acked = kept)'
  BY DEF Next, vars, Open, Close, Kill, PowerLoss, Append1, KillInAppend, WriteBack
<1>3. acked = kept /\ KeptIsReplayed => AckedIsReplayed
  BY DEF KeptIsReplayed, AckedIsReplayed
<1> QED
  BY <1>1, <1>2, <1>3, WalKeepsKept, PTL DEF Spec

\* What the log held at its last clean Close is the start of every later
\* replay, in whatever order the kernel writes pages back and however often
\* the power fails.
THEOREM WalKeepsSynced == Spec => []SyncedIsReplayed
<1>1. Survives => SyncedIsReplayed
  <2> SUFFICES ASSUME Survives PROVE SyncedIsReplayed
    OBVIOUS
  <2>1. mapped \in File
    BY DEF Survives, WalTyped
  <2>2. PICK e : Chain(mapped, 0, synced, e)
    BY DEF Survives, Stable
  <2> QED BY <2>1, <2>2, ChainIsReplayed DEF SyncedIsReplayed
<1> QED
  BY <1>1, SurvivesInit, SurvivesStep, PTL DEF Spec

-----------------------------------------------------------------------------
(* The log when pages reach the disk in order *)

Numbered(s) == \A i \in 1..Len(s) : s[i].seq = i

\* The disk is ordered, the log ends where nothing starts behind it, records
\* are numbered by their place, and an open log writes at its end.
InSequence ==
  /\ Ordered(mapped, disk) /\ Clean(mapped) /\ Numbered(Replay(mapped))
  /\ open => writeOffset = FindEnd(mapped) /\ lastSeq = Len(Replay(mapped))

Sequenced == Survives /\ (inOrder => InSequence)

LEMMA SequencedInit == Init => Sequenced
<1> SUFFICES ASSUME Init PROVE Sequenced
  OBVIOUS
<1>1. Survives
  BY Zenon, SurvivesInit
<1>2. mapped \in File /\ disk = mapped /\ open = FALSE /\ \A o \in Offsets : mapped[o] = Zero
  BY <1>1 DEF Init, Survives, WalTyped
<1>3. Ordered(mapped, disk)
  BY Zenon, <1>2, SameOrdered
<1>4. Clean(mapped)
  BY Zenon, <1>2 DEF Clean, Starts
<1>5. ~Parses(mapped, 0)
  BY <1>2, SizesAssumption DEF Parses, Offsets
<1>6. Replay(mapped) = <<>>
  <2>1. Chain(mapped, 0, <<>>, 0)
    BY ChainEmpty, SizesAssumption
  <2> QED BY Zenon, <1>2, <1>5, <2>1, ChainIsReplayed
<1>7. Numbered(Replay(mapped))
  BY <1>6 DEF Numbered
<1> QED
  BY Zenon, <1>1, <1>2, <1>3, <1>4, <1>7 DEF Sequenced, InSequence

LEMMA NumberedAppend ==
  ASSUME NEW s \in Seq(Record), Numbered(s), NEW r \in Record, r.seq = Len(s) + 1
  PROVE  Numbered(Append(s, r)) /\ Len(Append(s, r)) = Len(s) + 1
<1>1. Len(s) \in Nat
  BY Zenon, LenProperties
<1> DEFINE t == Append(s, r)
<1>2. Len(t) = Len(s) + 1 /\ t[Len(s) + 1] = r /\ \A i \in 1..Len(s) : t[i] = s[i]
  BY AppendAt
<1> HIDE DEF t
<1>3. ASSUME NEW i \in 1..Len(s) + 1 PROVE t[i].seq = i
  <2>1. CASE i = Len(s) + 1
    BY Zenon, <2>1, <1>2
  <2>2. CASE i \in 1..Len(s)
    BY Zenon, <2>2, <1>2 DEF Numbered
  <2> QED BY <2>1, <2>2, <1>1
<1>4. Numbered(t)
  BY Zenon, <1>2, <1>3 DEF Numbered
<1> QED
  BY <1>2, <1>4 DEF t

\* What a whole copy of a record does to an ordered log: the record is the last.
LEMMA SequencedWhole ==
  ASSUME WalTyped, InSequence, open, NEW size \in 1..MaxSize, count < MaxAppends, Fits(size),
         mapped' = Copied(Serialize(size), size), disk' = disk
  PROVE  /\ Serialize(size) \in Record /\ Replay(mapped') = Append(Replay(mapped), Serialize(size))
         /\ FindEnd(mapped') = writeOffset + size /\ Len(Replay(mapped')) = lastSeq + 1
         /\ Ordered(mapped', disk') /\ Clean(mapped') /\ Numbered(Replay(mapped'))
<1> DEFINE r == Serialize(size)
<1>0. size \in 1..size
  OBVIOUS
<1>1. /\ r \in Record /\ r.size = size /\ r.seq = lastSeq + 1 /\ mapped' \in File
      /\ Copy(mapped, mapped', r, writeOffset, size, count)
  BY Zenon, <1>0, StepCopies
<1> HIDE DEF r
<1>3. /\ mapped \in File /\ disk \in File /\ count \in Nat /\ Places
  BY SizesAssumption DEF WalTyped
<1>4. /\ Ordered(mapped, disk) /\ Clean(mapped) /\ Numbered(Replay(mapped))
      /\ writeOffset = FindEnd(mapped) /\ lastSeq = Len(Replay(mapped))
  BY Zenon DEF InSequence
<1>5. Replay(mapped') = Append(Replay(mapped), r) /\ FindEnd(mapped') = writeOffset + size /\ Clean(mapped')
  BY <1>1, <1>3, <1>4, CopyReplay
<1>6. Ordered(mapped', disk')
  BY Zenon, <1>1, <1>3, <1>4, CopyOrdered DEF Places
<1>7. Replay(mapped) \in Seq(Record)
  BY Zenon, <1>3, ReplayFull
<1>8. /\ Numbered(Append(Replay(mapped), r))
      /\ Len(Append(Replay(mapped), r)) = Len(Replay(mapped)) + 1
  BY Zenon, <1>1, <1>4, <1>7, NumberedAppend
<1> QED
  BY Zenon, <1>1, <1>4, <1>5, <1>6, <1>8 DEF r

LEMMA SequencedAppend ==
  ASSUME WalTyped, InSequence, NEW size \in 1..MaxSize, Append1(size)
  PROVE  /\ InSequence'
         /\ Serialize(size) \in Record /\ Replay(mapped') = Append(Replay(mapped), Serialize(size))
<1>1. /\ open /\ count < MaxAppends /\ Fits(size) /\ mapped' = Copied(Serialize(size), size)
      /\ disk' = disk /\ writeOffset' = writeOffset + size /\ lastSeq' = lastSeq + 1
  BY Zenon DEF Append1
<1>2. /\ Serialize(size) \in Record /\ Replay(mapped') = Append(Replay(mapped), Serialize(size))
      /\ FindEnd(mapped') = writeOffset' /\ Len(Replay(mapped')) = lastSeq'
      /\ Ordered(mapped', disk') /\ Clean(mapped') /\ Numbered(Replay(mapped'))
  BY Zenon, <1>1, SequencedWhole
<1> QED
  BY Zenon, <1>2 DEF InSequence

\* A kill inside Append: the log is as it was, or has the record as its last.
LEMMA SequencedKilled ==
  ASSUME WalTyped, InSequence, NEW size \in 1..MaxSize, NEW n \in 1..size, KillInAppend(size, n)
  PROVE  /\ InSequence'
         /\ \/ Replay(mapped') = Replay(mapped)
            \/ /\ Serialize(size) \in Record
               /\ Replay(mapped') = Append(Replay(mapped), Serialize(size))
<1> DEFINE r == Serialize(size)
<1>0. size \in Nat /\ n \in Nat /\ n <= size
  OBVIOUS
<1>1. r.size = size /\ mapped' \in File /\ Copy(mapped, mapped', r, writeOffset, n, count)
  BY Zenon, StepCopies DEF KillInAppend
<1>2. /\ open /\ open' = FALSE /\ disk' = disk /\ count < MaxAppends /\ Fits(size)
      /\ mapped' = Copied(Serialize(size), n)
  BY Zenon DEF KillInAppend
<1>3. CASE n = size
  <2>1. /\ Serialize(size) \in Record /\ Replay(mapped') = Append(Replay(mapped), Serialize(size))
        /\ Ordered(mapped', disk') /\ Clean(mapped') /\ Numbered(Replay(mapped'))
    BY Zenon, <1>2, <1>3, SequencedWhole
  <2> QED BY Zenon, <1>2, <2>1 DEF InSequence
<1> HIDE DEF r
<1>4. CASE n < size
  <2>1. /\ mapped \in File /\ disk \in File /\ count \in Nat /\ Places
    BY SizesAssumption DEF WalTyped
  <2>2. Ordered(mapped, disk) /\ Clean(mapped) /\ Numbered(Replay(mapped)) /\ writeOffset = FindEnd(mapped)
    BY Zenon, <1>2 DEF InSequence
  <2>3. Replay(mapped') = Replay(mapped) /\ Clean(mapped')
    BY Zenon, <1>1, <1>4, <2>1, <2>2, TornEnd DEF Places
  <2>4. Ordered(mapped', disk')
    BY Zenon, <1>1, <1>2, <2>1, <2>2, CopyOrdered DEF Places
  <2> QED BY Zenon, <1>2, <2>2, <2>3, <2>4 DEF InSequence
<1> QED
  BY <1>0, <1>3, <1>4

\* A power loss cuts an ordered log to a prefix.
LEMMA SequencedLoss ==
  ASSUME WalTyped, InSequence, PowerLoss
  PROVE  /\ InSequence'
         /\ StartOf(Replay(disk), Replay(mapped))
<1>1. mapped \in File /\ disk \in File
  BY DEF WalTyped
<1>2. mapped' = disk /\ disk' = disk /\ open' = FALSE
  BY Zenon DEF PowerLoss
<1>3. Chain(mapped, 0, Replay(disk), FindEnd(disk)) /\ Clean(disk)
  BY Zenon, <1>1, DiskReplay DEF InSequence
<1>4. StartOf(Replay(disk), Replay(mapped)) /\ Len(Replay(disk)) \in Nat /\ Len(Replay(mapped)) \in Nat
  BY Zenon, <1>1, <1>3, ChainIsReplayed DEF StartOf
<1>5. Numbered(Replay(disk))
  BY <1>4 DEF InSequence, Numbered, StartOf
<1>6. Ordered(disk, disk)
  BY Zenon, <1>1, SameOrdered
<1> QED
  BY Zenon, <1>2, <1>3, <1>4, <1>5, <1>6 DEF InSequence

LEMMA SequencedStep == Sequenced /\ [Next]_vars => Sequenced'
<1> SUFFICES ASSUME Sequenced, [Next]_vars PROVE Sequenced'
  BY Zenon
<1>0. Survives /\ Survives' /\ WalTyped /\ WalTyped' /\ mapped \in File /\ disk \in File /\ writeOffset \in Int
  BY SurvivesStep DEF Sequenced, Survives, WalTyped
<1>i. inOrder' = inOrder
  BY DEF Next, vars, Open, Close, Kill, PowerLoss, Append1, KillInAppend, WriteBack
<1> SUFFICES ASSUME inOrder, InSequence PROVE InSequence'
  BY Zenon, <1>0, <1>i DEF Sequenced
<1>1. CASE Open
  <2>1. FindLastSeq(mapped) = Len(Replay(mapped))
    <3>1. Replay(mapped) \in Seq(Record) /\ Len(Replay(mapped)) \in Nat
      BY Zenon, <1>0, ReplayFull, LenProperties
    <3>2. CASE Replay(mapped) = <<>>
      BY Zenon, <3>2 DEF FindLastSeq
    <3>3. CASE Replay(mapped) # <<>>
      <4>1. Len(Replay(mapped)) \in 1..Len(Replay(mapped))
        BY <3>1, <3>3
      <4>2. Replay(mapped)[Len(Replay(mapped))].seq = Len(Replay(mapped))
        BY Zenon, <4>1 DEF InSequence, Numbered
      <4> QED BY Zenon, <4>2, <3>3 DEF FindLastSeq
    <3> QED BY Zenon, <3>2, <3>3
  <2>2. /\ mapped' = mapped /\ disk' = disk /\ writeOffset' = FindEnd(mapped)
        /\ lastSeq' = FindLastSeq(mapped)
    BY Zenon, <1>1 DEF Open
  <2> QED BY Zenon, <2>1, <2>2 DEF InSequence
<1>2. CASE Close
  <2>1. disk' \in File /\ \A o \in Offsets : disk'[o] = IF o < writeOffset THEN mapped[o] ELSE disk[o]
    BY Zenon, <1>0, <1>2, DiskSteps
  <2>2. \A q \in Offsets : (q < writeOffset => disk'[q] = mapped[q]) /\ (writeOffset <= q => disk'[q] = disk[q])
    BY <1>0, <2>1 DEF Offsets
  <2>3. Ordered(mapped, disk')
    BY <1>0, <2>1, <2>2, FlushOrdered DEF InSequence
  <2>4. mapped' = mapped /\ open' = FALSE
    BY Zenon, <1>2 DEF Close
  <2> QED BY Zenon, <2>3, <2>4 DEF InSequence
<1>3. CASE Kill
  BY Zenon, <1>3 DEF Kill, InSequence
<1>4. CASE PowerLoss
  BY Zenon, <1>0, <1>4, SequencedLoss
<1>5. ASSUME NEW size \in 1..MaxSize, Append1(size) PROVE InSequence'
  BY Zenon, <1>0, <1>5, SequencedAppend
<1>6. ASSUME NEW size \in 1..MaxSize, NEW n \in 1..size, KillInAppend(size, n) PROVE InSequence'
  BY Zenon, <1>0, <1>6, SequencedKilled
<1>7. ASSUME NEW p \in Offsets, WriteBack(p) PROVE InSequence'
  <2>1. disk' \in File /\ \A o \in Offsets : disk'[o] = IF o = p THEN mapped[o] ELSE disk[o]
    BY Zenon, <1>0, <1>7, DiskSteps
  <2>2. \A q \in Offsets : q < p => disk[q] = mapped[q]
    BY Zenon, <1>7 DEF WriteBack
  <2>3. \A q \in Offsets : (q < p + 1 => disk'[q] = mapped[q]) /\ (p + 1 <= q => disk'[q] = disk[q])
    BY <2>1, <2>2 DEF Offsets
  <2>4. p + 1 \in Int
    BY DEF Offsets
  <2>5. Ordered(mapped, disk')
    BY <1>0, <2>1, <2>3, <2>4, FlushOrdered DEF InSequence
  <2>6. mapped' = mapped /\ open' = open /\ writeOffset' = writeOffset /\ lastSeq' = lastSeq
    BY Zenon, <1>7 DEF WriteBack
  <2> QED BY Zenon, <2>5, <2>6 DEF InSequence
<1>8. CASE UNCHANGED vars
  BY <1>8 DEF vars, InSequence
<1> QED
  BY Zenon, <1>1, <1>2, <1>3, <1>4, <1>5, <1>6, <1>7, <1>8 DEF Next

\* When pages reach the disk in order, the i-th record of the log has the
\* sequence number i, across kills, power losses and restarts.
THEOREM WalSeqIsPosition == Spec => []SeqIsPosition
<1>1. Sequenced => SeqIsPosition
  BY Zenon DEF Sequenced, InSequence, Numbered, SeqIsPosition
<1> QED
  BY <1>1, SequencedInit, SequencedStep, PTL DEF Spec

\* A step of the log is a step of the durable log it promises to be: Append
\* puts one entry at the end, Close makes the entries permanent, and a failure
\* keeps a prefix with at least the permanent ones or, inside Append, the
\* entry that was being added.
LEMMA StepIsPromised ==
  Sequenced /\ [Next]_vars => [inOrder => Promise!LogNext]_(Promise!logVars)
<1> SUFFICES ASSUME Sequenced, [Next]_vars, inOrder
             PROVE  Promise!LogNext \/ UNCHANGED Promise!logVars
  BY Zenon
<1>0. /\ Survives /\ Survives' /\ WalTyped /\ WalTyped' /\ mapped \in File /\ disk \in File /\ InSequence
      /\ synced \in Seq(Record)
  BY Zenon, SurvivesStep DEF Sequenced, Survives, WalTyped
<1> DEFINE s == Replay(mapped)
<1>s. s \in Seq(Record) /\ Len(s) \in Nat /\ Len(synced) \in Nat
  BY Zenon, <1>0, ReplayFull, LenProperties
<1>f. ASSUME open' = FALSE, synced' = synced, NEW n \in Len(synced)..Len(s), Replay(mapped)' = SubSeq(s, 1, n)
      PROVE  Promise!LogNext
  BY <1>f DEF Promise!LogNext, Promise!Fail
<1>w. SubSeq(s, 1, Len(s)) = s /\ Len(synced) <= Len(s)
  <2>1. PICK e : Chain(mapped, 0, synced, e)
    BY Zenon, <1>0 DEF Survives, Stable
  <2>2. Len(synced) <= Len(s)
    BY Zenon, <2>1, <1>0, ChainIsReplayed
  <2> QED BY <2>2, <1>s
<1>1. CASE Open
  <2>1. ~open /\ open' = TRUE /\ mapped' = mapped /\ synced' = synced
    BY <1>1 DEF Open
  <2> QED BY Zenon, <2>1 DEF Promise!LogNext, Promise!Start
<1>2. CASE Close
  <2>1. open /\ open' = FALSE /\ mapped' = mapped /\ synced' = Replay(mapped)
    BY <1>2 DEF Close
  <2> QED BY Zenon, <2>1 DEF Promise!LogNext, Promise!Shutdown
<1>3. CASE Kill
  <2>1. open' = FALSE /\ mapped' = mapped /\ synced' = synced
    BY <1>3 DEF Kill
  <2>2. Len(s) \in Len(synced)..Len(s) /\ Replay(mapped)' = SubSeq(s, 1, Len(s))
    BY <2>1, <1>s, <1>w
  <2> QED BY Zenon, <2>1, <2>2, <1>f
<1>4. CASE PowerLoss
  <2>1. open' = FALSE /\ mapped' = disk /\ synced' = synced
    BY Zenon, <1>4 DEF PowerLoss
  <2>2. StartOf(Replay(disk), s)
    BY Zenon, <1>0, <1>4, SequencedLoss
  <2>3. Replay(disk) \in Seq(Record) /\ Len(Replay(disk)) \in Nat
    BY Zenon, <1>0, ReplayFull, LenProperties
  <2>4. Len(synced) <= Len(Replay(disk))
    <3>1. PICK e : Chain(disk, 0, synced, e)
      BY Zenon, <1>0 DEF Survives, Stable
    <3> QED BY Zenon, <3>1, <1>0, ChainIsReplayed
  <2> HIDE DEF s
  <2>5. Len(Replay(disk)) \in Len(synced)..Len(s)
    BY <2>2, <2>3, <2>4, <1>s DEF StartOf
  <2>6. Replay(disk) = SubSeq(s, 1, Len(Replay(disk)))
    <3> DEFINE d == Replay(disk)
    <3>1. d \in Seq(Record) /\ Len(d) \in Nat /\ Len(d) <= Len(s) /\ \A i \in 1..Len(d) : d[i] = s[i]
      BY Zenon, <2>2, <2>3 DEF StartOf
    <3> HIDE DEF d
    <3>2. SubSeq(s, 1, Len(d)) \in Seq(Record) /\ Len(SubSeq(s, 1, Len(d))) = Len(d)
          /\ \A i \in 1..Len(d) : SubSeq(s, 1, Len(d))[i] = s[i]
      BY <3>1, <1>s
    <3>3. d = SubSeq(s, 1, Len(d))
      BY Zenon, <3>1, <3>2, SeqEqual
    <3> QED BY Zenon, <3>3 DEF d
  <2>7. Replay(mapped)' = SubSeq(s, 1, Len(Replay(disk)))
    BY Zenon, <2>1, <2>6
  <2> QED BY Zenon, <2>1, <2>5, <2>7, <1>f
<1>5. ASSUME NEW size \in 1..MaxSize, Append1(size) PROVE Promise!LogNext
  <2>1. open /\ open' = open /\ synced' = synced
    BY Zenon, <1>5 DEF Append1
  <2>2. Serialize(size) \in Record /\ Replay(mapped') = Append(Replay(mapped), Serialize(size))
    BY Zenon, <1>0, <1>5, SequencedAppend
  <2> QED BY Zenon, <2>1, <2>2 DEF Promise!LogNext, Promise!Put
<1>6. ASSUME NEW size \in 1..MaxSize, NEW n \in 1..size, KillInAppend(size, n) PROVE Promise!LogNext
  <2>1. open /\ open' = FALSE /\ synced' = synced
    BY <1>6 DEF KillInAppend
  <2>2. CASE Replay(mapped') = s
    <3>1. Len(s) \in Len(synced)..Len(s) /\ Replay(mapped)' = SubSeq(s, 1, Len(s))
      BY <2>2, <1>s, <1>w
    <3> QED BY Zenon, <2>1, <3>1, <1>f
  <2>3. CASE Serialize(size) \in Record /\ Replay(mapped') = Append(Replay(mapped), Serialize(size))
    BY Zenon, <2>1, <2>3 DEF Promise!LogNext, Promise!FailInPut
  <2> QED BY Zenon, <1>0, <1>6, <2>2, <2>3, SequencedKilled
<1>7. ASSUME NEW p \in Offsets, WriteBack(p) PROVE UNCHANGED Promise!logVars
  BY Zenon, <1>7 DEF WriteBack, Promise!logVars
<1>8. CASE UNCHANGED vars
  BY <1>8 DEF vars, Promise!logVars
<1> QED
  BY Zenon, <1>1, <1>2, <1>3, <1>4, <1>5, <1>6, <1>7, <1>8 DEF Next

\* When pages reach the disk in order, the log of src/wal.cpp is a DurableLog:
\* a failure cuts it to a prefix that holds what the last Close left, or leaves
\* the record it met in Append, and nothing that was lost comes back.
THEOREM WalIsDurableLog == Spec => IsDurableLog
<1>1. Init => (inOrder => Promise!LogInit)
  <2> SUFFICES ASSUME Init PROVE Promise!LogInit
    OBVIOUS
  <2>1. mapped \in File /\ open = FALSE /\ synced = <<>> /\ \A o \in Offsets : mapped[o] = Zero
    BY Zenon DEF Init, File
  <2>2. ~Parses(mapped, 0)
    BY <2>1, SizesAssumption DEF Parses, Offsets
  <2>3. Chain(mapped, 0, <<>>, 0)
    BY ChainEmpty, SizesAssumption
  <2>4. Replay(mapped) = <<>>
    BY <2>1, <2>2, <2>3, ChainIsReplayed
  <2> QED BY <2>1, <2>4 DEF Promise!LogInit
<1> QED
  BY <1>1, SequencedInit, SequencedStep, StepIsPromised, PTL DEF Spec, IsDurableLog
=============================================================================
