------------------------------ MODULE AppProofs ------------------------------
(***************************************************************************)
(* Proofs about the console's pages (ConsoleApp), for any nodes, pages,    *)
(* queries, keys and limits: the types, the notices, the palette with its  *)
(* local storage, the trace runner and the explorer.                       *)
(***************************************************************************)
EXTENDS ConsoleApp, StoreProofs, NaturalsInduction, WellFoundedInduction

-----------------------------------------------------------------------------
(* Lists *)

\* A non-empty set of natural numbers has a least element.
LEMMA LeastOf ==
  ASSUME NEW S \in SUBSET Nat, S # {}
  PROVE  \E x \in S : \A y \in S : x <= y
<1>1. PICK x \in S : \A y \in S : ~(<<y, x>> \in OpToRel(<, Nat))
  BY Zenon, NatLessThanWellFounded, WFMin
<1>2. ASSUME NEW y \in S PROVE x <= y
  <2>1. y \in Nat /\ x \in Nat /\ <<y, x>> \in Nat \X Nat /\ (y < x => <<y, x>>[1] < <<y, x>>[2])
    OBVIOUS
  <2>2. ~(y < x)
    BY <1>1, <2>1 DEF OpToRel
  <2> QED BY <2>1, <2>2
<1> QED
  BY <1>2

\* What holds at 0 and is handed from each number to the next holds up to n.
LEMMA UpTo ==
  ASSUME NEW n \in Nat, NEW S, 0 \in S, \A i \in 1..n : i - 1 \in S => i \in S
  PROVE  n \in S
<1> SUFFICES ASSUME n \notin S PROVE FALSE
  OBVIOUS
<1> DEFINE T == {i \in 0..n : i \notin S}
<1>1. T \in SUBSET Nat /\ T # {}
  OBVIOUS
<1>2. PICK i \in T : \A j \in T : i <= j
  <2> HIDE DEF T
  <2> QED BY <1>1, LeastOf
<1>3. i \in 1..n /\ i - 1 \notin T
  BY <1>2
<1> QED
  BY <1>3

\* The function that Filter is defined by, on the first n elements.
Filters(f, s, S, n) ==
  f = [i \in 0..n |-> IF i = 0 THEN <<>> ELSE IF s[i] \in S THEN Append(f[i - 1], s[i]) ELSE f[i - 1]]

\* There is such a function for every list.
LEMMA FilterExists ==
  ASSUME NEW s, NEW S, NEW n \in Nat
  PROVE  \E f : Filters(f, s, S, n)
<1> DEFINE G == {m \in 0..n : \E f : Filters(f, s, S, m)}
<1>1. 0 \in G
  <2>1. Filters([i \in 0..0 |-> <<>>], s, S, 0)
    BY DEF Filters
  <2> QED BY <2>1
<1>2. ASSUME NEW m \in 1..n, m - 1 \in G PROVE m \in G
  <2>1. PICK f : Filters(f, s, S, m - 1)
    BY <1>2
  <2> DEFINE g == [i \in 0..m |-> IF i < m THEN f[i]
                                  ELSE IF s[m] \in S THEN Append(f[m - 1], s[m]) ELSE f[m - 1]]
  <2>2. ASSUME NEW i \in 0..m
        PROVE  g[i] = IF i = 0 THEN <<>> ELSE IF s[i] \in S THEN Append(g[i - 1], s[i]) ELSE g[i - 1]
    <3>1. CASE i = m
      BY <3>1
    <3>2. CASE i < m
      <4>1. i \in 0..m - 1
        BY <3>2
      <4>2. f[i] = IF i = 0 THEN <<>> ELSE IF s[i] \in S THEN Append(f[i - 1], s[i]) ELSE f[i - 1]
        BY Zenon, <4>1, <2>1 DEF Filters
      <4>3. g[i] = f[i] /\ (i # 0 => g[i - 1] = f[i - 1])
        BY <3>2
      <4> QED BY <4>2, <4>3
    <3> QED BY <3>1, <3>2
  <2>3. g = [i \in 0..m |-> g[i]]
    OBVIOUS
  <2> HIDE DEF g
  <2>4. Filters(g, s, S, m)
    BY Zenon, <2>2, <2>3 DEF Filters
  <2> QED BY <2>4
<1> HIDE DEF G
<1>3. n \in G
  BY Zenon, <1>1, <1>2, UpTo
<1> QED BY <1>3 DEF G

\* No element occurs twice in a list.
Distinct(s) == \A i, j \in 1..Len(s) : s[i] = s[j] => i = j

\* Filter keeps the elements in S and only them, and no more than there are;
\* it repeats none that the list does not repeat.
LEMMA FilterOf ==
  ASSUME NEW T, NEW s \in Seq(T), NEW S
  PROVE  /\ Filter(s, S) \in Seq(T) /\ Len(Filter(s, S)) <= Len(s)
         /\ \A j \in 1..Len(Filter(s, S)) : Filter(s, S)[j] \in S
         /\ \A i \in 1..Len(s) : s[i] \in S => \E j \in 1..Len(Filter(s, S)) : Filter(s, S)[j] = s[i]
         /\ Distinct(s) => Distinct(Filter(s, S))
<1>1. Len(s) \in Nat /\ \A i \in 1..Len(s) : s[i] \in T
  OBVIOUS
<1>2. PICK f : Filters(f, s, S, Len(s)) /\ Filter(s, S) = f[Len(s)]
  <2> DEFINE Is(f) == f = [i \in 0..Len(s) |-> IF i = 0 THEN <<>>
                                                ELSE IF s[i] \in S THEN Append(f[i - 1], s[i]) ELSE f[i - 1]]
  <2>1. \E f : Filters(f, s, S, Len(s))
    BY Zenon, <1>1, FilterExists
  <2>2. \E f : Is(f)
    BY Zenon, <2>1 DEF Filters
  <2>3. \E f : Is(f) /\ Filter(s, S) = f[Len(s)]
    BY Zenon, <2>2 DEF Filter
  <2> QED BY Zenon, <2>3 DEF Filters
<1> DEFINE Keeps(m) ==
             /\ f[m] \in Seq(T) /\ Len(f[m]) <= m
             /\ \A j \in 1..Len(f[m]) : f[m][j] \in S /\ \E i \in 1..m : f[m][j] = s[i]
             /\ \A i \in 1..m : s[i] \in S => \E j \in 1..Len(f[m]) : f[m][j] = s[i]
             /\ Distinct(s) => Distinct(f[m])
           G == {m \in 0..Len(s) : Keeps(m)}
<1>3. 0 \in G
  <2>1. f[0] = <<>>
    BY <1>1, <1>2 DEF Filters
  <2>2. <<>> \in Seq(T) /\ Len(<<>>) = 0
    OBVIOUS
  <2>3. Len(f[0]) = 0 /\ f[0] \in Seq(T) /\ \A j \in 1..0 : FALSE
    BY <2>1, <2>2
  <2>4. Keeps(0)
    BY <2>3 DEF Distinct
  <2> QED BY <1>1, <2>4
<1>4. ASSUME NEW m \in 1..Len(s), m - 1 \in G PROVE m \in G
  <2> DEFINE p == f[m - 1]
  <2>1. f[m] = IF s[m] \in S THEN Append(p, s[m]) ELSE p
    <3>1. m \in 0..Len(s) /\ m # 0
      BY <1>1
    <3> QED BY Zenon, <3>1, <1>2 DEF Filters
  <2>2. /\ p \in Seq(T) /\ Len(p) <= m - 1 /\ Len(p) \in Nat
        /\ \A j \in 1..Len(p) : p[j] \in S /\ \E i \in 1..m - 1 : p[j] = s[i]
        /\ \A i \in 1..m - 1 : s[i] \in S => \E j \in 1..Len(p) : p[j] = s[i]
        /\ Distinct(s) => Distinct(p)
    <3>1. Keeps(m - 1)
      BY Zenon, <1>4
    <3>2. p \in Seq(T) /\ Len(p) \in Nat
      BY Zenon, <3>1, ListType
    <3> QED BY Zenon, <3>1, <3>2
  <2> HIDE DEF p
  <2>3. CASE s[m] \notin S
    <3>1. f[m] = p
      BY <2>1, <2>3
    <3>2. \A i \in 1..m : i \in 1..m - 1 \/ i = m
      BY <1>1
    <3>3. \A i \in 1..m - 1 : i \in 1..m
      BY <1>1
    <3>4. Len(p) <= m
      BY <1>1, <2>2
    <3>5. Keeps(m)
      BY <2>2, <2>3, <3>1, <3>2, <3>3, <3>4
    <3> QED BY <1>1, <3>5
  <2>4. CASE s[m] \in S
    <3> DEFINE q == Append(p, s[m])
    <3>1. f[m] = q
      BY Zenon, <2>1, <2>4
    <3>2. /\ q \in Seq(T) /\ Len(q) = Len(p) + 1 /\ q[Len(p) + 1] = s[m]
          /\ \A j \in 1..Len(p) : q[j] = p[j]
      BY <1>1, <2>2
    <3> HIDE DEF q
    <3>3. \A j \in 1..Len(q) : j \in 1..Len(p) \/ j = Len(p) + 1
      BY <2>2, <3>2
    <3>4. \A j \in 1..Len(p) : j \in 1..Len(q)
      BY <2>2, <3>2
    <3>5. Len(p) + 1 \in 1..Len(q) /\ Len(q) <= m
      BY <1>1, <2>2, <3>2
    <3>6. \A i \in 1..m : i \in 1..m - 1 \/ i = m
      BY <1>1
    <3>7. (\A i \in 1..m - 1 : i \in 1..m) /\ m \in 1..m
      BY <1>1
    <3>8. \A j \in 1..Len(q) : q[j] \in S /\ \E i \in 1..m : q[j] = s[i]
      <4> SUFFICES ASSUME NEW j \in 1..Len(q) PROVE q[j] \in S /\ \E i \in 1..m : q[j] = s[i]
        OBVIOUS
      <4>1. CASE j = Len(p) + 1
        <5>1. q[j] = s[m] /\ m \in 1..m
          BY <3>2, <3>7, <4>1
        <5> QED BY <2>4, <5>1
      <4>2. CASE j \in 1..Len(p)
        <5>1. q[j] = p[j] /\ p[j] \in S
          BY <2>2, <3>2, <4>2
        <5>2. PICK i \in 1..m - 1 : p[j] = s[i]
          BY <2>2, <4>2
        <5> QED BY Zenon, <3>7, <5>1, <5>2
      <4> QED BY Zenon, <3>3, <4>1, <4>2
    <3>9. \A i \in 1..m : s[i] \in S => \E j \in 1..Len(q) : q[j] = s[i]
      BY Zenon, <2>2, <3>2, <3>4, <3>5, <3>6
    <3>10. ASSUME Distinct(s) PROVE Distinct(q)
      <4>1. \A j \in 1..Len(p) : p[j] # s[m]
        <5> SUFFICES ASSUME NEW j \in 1..Len(p), p[j] = s[m] PROVE FALSE
          OBVIOUS
        <5>1. PICK i \in 1..m - 1 : p[j] = s[i]
          BY <2>2
        <5>2. i \in 1..Len(s) /\ i # m
          BY <1>1
        <5> QED BY Zenon, <3>10, <5>1, <5>2 DEF Distinct
      <4>2. \A i, j \in 1..Len(p) : p[i] = p[j] => i = j
        BY Zenon, <2>2, <3>10 DEF Distinct
      <4> QED BY Zenon, <3>2, <3>3, <4>1, <4>2 DEF Distinct
    <3>11. Keeps(m)
      BY Zenon, <3>1, <3>2, <3>5, <3>8, <3>9, <3>10
    <3> QED BY <1>1, <3>11
  <2> QED BY <2>3, <2>4
<1>5. Len(s) \in G
  <2> HIDE DEF G
  <2> QED BY <1>1, <1>3, <1>4, UpTo
<1> QED
  BY <1>2, <1>5

-----------------------------------------------------------------------------
(* The explorer *)

\* A step of the explorer, whoever takes it.
ExplorerStep ==
  \/ UNCHANGED explorerVars
  \/ Execute
  \/ \E o \in Ops, k \in Key \cup {EmptyKey} : Choose(o, k)
  \/ ExplorerProgress
  \/ ExplorerUnmount
  \/ ExplorerInit'

ExplorerInv == ExplorerTypeOK /\ RowsAreTrue

LEMMA ExplorerKeepsInv ==
  ASSUME ExplorerInv, ExplorerStep
  PROVE  ExplorerInv'
<1> USE DEF ExplorerInv
<1>1. /\ rows \in Seq(Row) /\ Len(rows) \in Nat /\ DOMAIN rows = 1..Len(rows) /\ Len(rows) <= RowLimit
      /\ requests \in Seq(Request) /\ Len(requests) \in Nat /\ DOMAIN requests = 1..Len(requests)
      /\ RowLimit \in Nat \ {0}
  BY Zenon, ListType, ExplorerAssumption DEF ExplorerTypeOK
<1>2. CASE UNCHANGED explorerVars
  BY <1>2 DEF explorerVars, ExplorerTypeOK, RowsAreTrue
<1>3. CASE Execute
  <2> DEFINE r == [op |-> op, key |-> key, mounted |-> TRUE]
  <2>1. r \in Request
    BY DEF ExplorerTypeOK, Request
  <2>2. requests' = Append(requests, r) /\ UNCHANGED <<op, key, rows>>
    BY <1>3 DEF Execute
  <2> HIDE DEF r
  <2>3. requests' \in Seq(Request)
    BY <1>1, <2>1, <2>2
  <2> QED BY <2>2, <2>3 DEF ExplorerTypeOK, RowsAreTrue
<1>4. CASE \E o \in Ops, k \in Key \cup {EmptyKey} : Choose(o, k)
  BY <1>4 DEF Choose, ExplorerTypeOK, RowsAreTrue
<1>5. CASE ExplorerProgress
  <2>1. PICK ok \in BOOLEAN, i \in 1..Len(requests) : Response(i, ok)
    BY <1>1, <1>5 DEF ExplorerProgress
  <2> DEFINE r == requests[i]
             row == RowFor(r, ok)
  <2>2. r \in Request
    BY <1>1
  <2>3. requests' = SubSeq(requests, 1, i - 1) \o SubSeq(requests, i + 1, Len(requests))
    BY <2>1 DEF Response
  <2>4. requests' \in Seq(Request)
    BY Zenon, <1>1, <2>3, RemoveAt
  <2>5. row \in Row /\ row.answers = <<row.op, row.key>>
    BY <2>2 DEF RowFor, Row, Request
  <2>6. UNCHANGED <<op, key>>
    BY <2>1 DEF Response
  <2>7. CASE ~r.mounted
    <3>1. rows' = rows
      BY Zenon, <2>1, <2>7 DEF Response
    <3> QED BY <2>4, <2>6, <3>1 DEF ExplorerTypeOK, RowsAreTrue
  <2>8. CASE r.mounted
    <3>1. rows' = SubSeq(<<row>> \o rows, 1, IF Len(rows) < RowLimit THEN Len(rows) + 1 ELSE RowLimit)
      BY Zenon, <2>1, <2>8 DEF Response
    <3> HIDE DEF row
    <3>2. /\ rows' \in Seq(Row) /\ Len(rows') <= RowLimit /\ Len(rows') <= Len(rows) + 1
          /\ \A j \in 1..Len(rows') : rows'[j] = IF j = 1 THEN row ELSE rows[j - 1]
      BY <1>1, <2>5, <3>1, Pushed
    <3>3. Len(rows') \in Nat /\ DOMAIN rows' = 1..Len(rows')
      BY <3>2, ListType
    <3>4. ASSUME NEW j \in 1..Len(rows') PROVE rows'[j].answers = <<rows'[j].op, rows'[j].key>>
      <4>1. CASE j = 1
        BY <2>5, <3>2, <4>1
      <4>2. CASE j # 1
        <5>1. j - 1 \in DOMAIN rows /\ rows'[j] = rows[j - 1]
          BY <1>1, <3>2, <3>3, <4>2
        <5> QED BY <5>1 DEF RowsAreTrue
      <4> QED BY <4>1, <4>2
    <3> QED BY Zenon, <2>4, <2>6, <3>2, <3>3, <3>4 DEF ExplorerTypeOK, RowsAreTrue
  <2> QED BY <2>7, <2>8
<1>6. CASE ExplorerUnmount
  <2>1. \A i \in 1..Len(requests) : [requests[i] EXCEPT !.mounted = FALSE] \in Request
    <3>1. \A r \in Request : [r EXCEPT !.mounted = FALSE] \in Request
      BY Zenon DEF Request
    <3> QED BY <1>1, <3>1
  <2>2. requests' = [i \in 1..Len(requests) |-> [requests[i] EXCEPT !.mounted = FALSE]]
    BY <1>1, <1>6 DEF ExplorerUnmount
  <2>3. requests' \in Seq(Request)
    BY <1>1, <2>1, <2>2
  <2>4. op' = "GET" /\ key' = EmptyKey /\ rows' = <<>>
    BY <1>6 DEF ExplorerUnmount
  <2> QED BY <1>1, <2>3, <2>4 DEF ExplorerTypeOK, RowsAreTrue, Ops
<1>7. CASE ExplorerInit'
  BY <1>1, <1>7 DEF ExplorerInit, ExplorerTypeOK, RowsAreTrue, Ops
<1> QED
  BY <1>2, <1>3, <1>4, <1>5, <1>6, <1>7 DEF ExplorerStep, ExplorerProgress

-----------------------------------------------------------------------------
(* The trace runner *)

\* The screen shows a run in its stage k.
OnStage(k) ==
  /\ traceRunning /\ result = "none"
  /\ steps[k] = "running"
  /\ \A s \in Stage : (s < k => steps[s] = "success") /\ (s > k => steps[s] = "idle")

\* The screen shows no run, or one that has ended.
AtRest ==
  \/ steps = Idle /\ result = "none"
  \/ \E k \in 2..4 : /\ steps[k] = "error" /\ result = "failed"
                     /\ \A s \in Stage : (s < k => steps[s] = "success") /\ (s > k => steps[s] = "idle")
  \/ (\A s \in Stage : steps[s] = "success") /\ result = "ok"

RunIsShown == \A i \in DOMAIN runs : runs[i].mounted => OnStage(runs[i].stage)

\* Inductive: a run of the view on the screen is the only one and in the stage
\* that is shown; without one the view is at rest.
TraceInv ==
  /\ TraceTypeOK
  /\ FlagIsRun
  /\ RunIsShown
  /\ ~traceRunning => AtRest

TraceStep ==
  \/ UNCHANGED traceVars
  \/ \E shown \in Sight : RunTrace(shown)
  \/ Reset
  \/ \E b \in BOOLEAN : SetKey(b)
  \/ TraceProgress
  \/ TraceUnmount
  \/ TraceInit'

\* The stages shown follow from the invariant.
LEMMA TraceInvSound ==
  ASSUME TraceInv
  PROVE  StagesAreOneRun
<1>1. CASE traceRunning
  <2>1. PICK i \in DOMAIN runs : runs[i].mounted
    BY Zenon, <1>1 DEF TraceInv, FlagIsRun
  <2>2. runs[i] \in Run
    BY ListType DEF TraceInv, TraceTypeOK
  <2> DEFINE k == runs[i].stage
  <2>3. k \in 0..4 /\ OnStage(k)
    BY <2>1, <2>2 DEF TraceInv, RunIsShown, Run, Stage
  <2> HIDE DEF k
  <2>4. k \in 0..5 /\ k < 5
    BY <2>3
  <2> QED BY <1>1, <2>3, <2>4 DEF StagesAreOneRun, OnStage
<1>2. CASE ~traceRunning
  <2>1. CASE steps = Idle /\ result = "none"
    <3>1. \A s \in Stage : (s < 0 => steps[s] = "success") /\ (s > 0 => steps[s] = "idle")
      BY <2>1 DEF Idle, Stage
    <3>2. steps[0] = "idle" /\ 0 \in 0..5
      BY <2>1 DEF Idle, Stage
    <3> QED BY <1>2, <2>1, <3>1, <3>2 DEF StagesAreOneRun
  <2>2. CASE \E k \in 2..4 : /\ steps[k] = "error" /\ result = "failed"
                             /\ \A s \in Stage : (s < k => steps[s] = "success") /\ (s > k => steps[s] = "idle")
    <3>1. PICK k \in 2..4 : /\ steps[k] = "error" /\ result = "failed"
                            /\ \A s \in Stage : (s < k => steps[s] = "success") /\ (s > k => steps[s] = "idle")
      BY <2>2
    <3>2. k \in 0..5
      OBVIOUS
    <3> QED BY <1>2, <3>1, <3>2 DEF StagesAreOneRun
  <2>3. CASE (\A s \in Stage : steps[s] = "success") /\ result = "ok"
    <3>1. 5 \in 0..5 /\ \A s \in Stage : ~(s > 5)
      BY DEF Stage
    <3> QED BY <1>2, <2>3, <3>1 DEF StagesAreOneRun
  <2> QED BY <1>2, <2>1, <2>2, <2>3 DEF TraceInv, AtRest
<1> QED BY <1>1, <1>2

\* What the invariant says of the runs, in terms of their positions.
LEMMA RunType ==
  ASSUME TraceInv
  PROVE  /\ runs \in Seq(Run) /\ Len(runs) \in Nat /\ DOMAIN runs = 1..Len(runs)
         /\ \A i \in 1..Len(runs) : /\ runs[i] \in Run /\ runs[i].stage \in Stage
                                    /\ runs[i].saw \in Sight /\ runs[i].mounted \in BOOLEAN
         /\ traceRunning \in BOOLEAN /\ steps \in [Stage -> {"idle", "running", "success", "error"}]
<1>1. runs \in Seq(Run)
  BY DEF TraceInv, TraceTypeOK
<1>2. Len(runs) \in Nat /\ DOMAIN runs = 1..Len(runs) /\ \A i \in 1..Len(runs) : runs[i] \in Run
  BY <1>1, ListType
<1>3. \A r \in Run : r.stage \in Stage /\ r.saw \in Sight /\ r.mounted \in BOOLEAN
  BY DEF Run
<1> QED
  BY <1>1, <1>2, <1>3 DEF TraceInv, TraceTypeOK

\* A run that starts.
LEMMA RunTraceKeepsInv ==
  ASSUME TraceInv, NEW shown \in Sight, RunTrace(shown)
  PROVE  TraceInv'
<1> DEFINE r == [stage |-> 0, saw |-> shown, mounted |-> TRUE]
<1>1. r \in Run /\ r.stage = 0 /\ r.mounted = TRUE
  BY DEF Run, Stage
<1>2. /\ runs' = Append(runs, r) /\ traceRunning' = TRUE /\ result' = "none"
      /\ steps' = [Idle EXCEPT ![0] = "running"] /\ keyBlank' = keyBlank /\ ~traceRunning
  BY DEF RunTrace
<1> HIDE DEF r
<1>3. /\ runs' \in Seq(Run) /\ Len(runs') = Len(runs) + 1 /\ runs'[Len(runs) + 1] = r
      /\ \A i \in 1..Len(runs) : runs'[i] = runs[i]
  BY <1>1, <1>2, RunType
<1>4. \A i \in 1..Len(runs) : ~runs[i].mounted
  BY Zenon, <1>2, RunType DEF TraceInv, FlagIsRun
<1>5. DOMAIN runs' = 1..Len(runs) + 1 /\ Len(runs) + 1 \in DOMAIN runs'
  BY <1>3, RunType
<1>6. \A i \in DOMAIN runs' : i = Len(runs) + 1 \/ (i \in 1..Len(runs) /\ ~runs'[i].mounted)
  BY <1>3, <1>4, <1>5, RunType
<1>7. FlagIsRun'
  BY <1>1, <1>2, <1>3, <1>5, <1>6 DEF FlagIsRun
<1>8. steps' \in [Stage -> {"idle", "running", "success", "error"}] /\ OnStage(0)'
  BY <1>2 DEF OnStage, Idle, Stage
<1>9. \A i \in DOMAIN runs' : runs'[i].mounted => runs'[i].stage = 0
  BY Zenon, <1>1, <1>3, <1>6
<1>10. TraceTypeOK'
  BY Zenon, <1>2, <1>3, <1>8 DEF TraceInv, TraceTypeOK
<1> QED
  BY Zenon, <1>2, <1>7, <1>8, <1>9, <1>10 DEF TraceInv, RunIsShown

\* A run that ends, or whose stage changes, without a view leaves the others
\* as they are.
LEMMA RunGone ==
  ASSUME TraceInv, NEW i \in 1..Len(runs), runs' = Without(i)
  PROVE  /\ runs' \in Seq(Run) /\ DOMAIN runs' = 1..Len(runs) - 1
         /\ \A j \in DOMAIN runs' : /\ (IF j < i THEN j ELSE j + 1) \in 1..Len(runs) \ {i}
                                    /\ runs'[j] = runs[IF j < i THEN j ELSE j + 1]
         /\ \A j \in 1..Len(runs) \ {i} : \E l \in DOMAIN runs' : runs'[l] = runs[j]
<1>1. runs \in Seq(Run) /\ Len(runs) \in Nat
  BY RunType
<1>2. runs' = SubSeq(runs, 1, i - 1) \o SubSeq(runs, i + 1, Len(runs))
  BY DEF Without
<1>3. /\ runs' \in Seq(Run) /\ Len(runs') = Len(runs) - 1
      /\ \A j \in 1..Len(runs') : runs'[j] = runs[IF j < i THEN j ELSE j + 1]
  BY Zenon, <1>1, <1>2, RemoveAt
<1>4. DOMAIN runs' = 1..Len(runs) - 1
  BY <1>3, ListType
<1>5. \A j \in 1..Len(runs) - 1 : (IF j < i THEN j ELSE j + 1) \in 1..Len(runs) \ {i}
  BY <1>1
<1>6. ASSUME NEW j \in 1..Len(runs) \ {i} PROVE \E l \in DOMAIN runs' : runs'[l] = runs[j]
  <2>1. CASE j < i
    <3>1. j \in 1..Len(runs) - 1
      BY <1>1, <2>1
    <3> QED BY <1>3, <1>4, <2>1, <3>1
  <2>2. CASE ~(j < i)
    <3>1. j - 1 \in 1..Len(runs) - 1 /\ ~(j - 1 < i) /\ j - 1 + 1 = j
      BY <1>1, <2>2
    <3>2. runs'[j - 1] = runs[j - 1 + 1]
      BY Zenon, <1>3, <3>1
    <3> QED BY <1>4, <3>1, <3>2
  <2> QED BY Zenon, <2>1, <2>2
<1> QED
  BY Zenon, <1>3, <1>4, <1>5, <1>6

\* A run of the view ends: none is left.
LEMMA ShownRunEnds ==
  ASSUME TraceInv, NEW i \in 1..Len(runs), runs[i].mounted, runs' = Without(i),
         traceRunning' = FALSE, AtRest', keyBlank' = keyBlank,
         steps' \in [Stage -> {"idle", "running", "success", "error"}],
         result' \in {"none", "ok", "failed"}
  PROVE  TraceInv'
<1>1. \A j \in 1..Len(runs) \ {i} : ~runs[j].mounted
  BY RunType DEF TraceInv, FlagIsRun
<1>2. \A j \in DOMAIN runs' : ~runs'[j].mounted
  BY <1>1, RunGone
<1>3. TraceTypeOK'
  BY Zenon, RunGone DEF TraceInv, TraceTypeOK
<1> QED
  BY Zenon, <1>2, <1>3 DEF TraceInv, RunIsShown, FlagIsRun

\* A run of a view that is gone ends.
LEMMA HiddenRunEnds ==
  ASSUME TraceInv, NEW i \in 1..Len(runs), ~runs[i].mounted, runs' = Without(i),
         UNCHANGED <<keyBlank, steps, result, traceRunning>>
  PROVE  TraceInv'
<1> DEFINE old(j) == IF j < i THEN j ELSE j + 1
<1>1. \A j \in DOMAIN runs' : old(j) \in DOMAIN runs /\ runs'[j] = runs[old(j)]
  BY Zenon, RunGone, RunType
<1>2. \A j \in DOMAIN runs' : runs'[j].mounted => OnStage(runs'[j].stage)
  BY <1>1 DEF TraceInv, RunIsShown
<1>3. \A k : OnStage(k)' = OnStage(k)
  BY DEF OnStage
<1>4. \A j, l \in DOMAIN runs' : old(j) = old(l) => j = l
  <2>1. DOMAIN runs' \subseteq Nat
    BY RunGone, RunType
  <2> QED BY <2>1
<1>5. (\E j \in DOMAIN runs : runs[j].mounted) = (\E j \in DOMAIN runs' : runs'[j].mounted)
  <2>1. ASSUME NEW j \in DOMAIN runs, runs[j].mounted PROVE \E l \in DOMAIN runs' : runs'[l].mounted
    <3>1. j \in 1..Len(runs) \ {i}
      BY Zenon, <2>1, RunType
    <3>2. PICK l \in DOMAIN runs' : runs'[l] = runs[j]
      BY Zenon, <3>1, RunGone
    <3> QED BY Zenon, <2>1, <3>2
  <2> QED BY <2>1, <1>1
<1> HIDE DEF old
<1>6. FlagIsRun'
  <2>1. \A j, l \in DOMAIN runs' : runs'[j].mounted /\ runs'[l].mounted => old(j) = old(l)
    BY <1>1 DEF TraceInv, FlagIsRun
  <2> QED BY <1>4, <1>5, <2>1 DEF TraceInv, FlagIsRun
<1>7. TraceTypeOK'
  BY RunGone DEF TraceInv, TraceTypeOK
<1>8. AtRest' = AtRest
  BY Zenon DEF AtRest
<1>9. RunIsShown'
  BY <1>2, <1>3 DEF RunIsShown, OnStage
<1> QED
  BY Zenon, <1>6, <1>7, <1>8, <1>9 DEF TraceInv

\* A run whose next stage starts.
LEMMA StageStarts ==
  ASSUME TraceInv, NEW i \in 1..Len(runs), runs[i].stage < 4,
         runs' = [runs EXCEPT ![i].stage = runs[i].stage + 1],
         Show(runs[i], [steps EXCEPT ![runs[i].stage] = "success", ![runs[i].stage + 1] = "running"], "none", TRUE),
         keyBlank' = keyBlank
  PROVE  TraceInv'
<1> DEFINE k == runs[i].stage
           r == [runs[i] EXCEPT !.stage = k + 1]
<1>1. /\ k \in Stage /\ k + 1 \in Stage /\ runs[i] \in Run /\ runs \in Seq(Run) /\ Len(runs) \in Nat
      /\ DOMAIN runs = 1..Len(runs) /\ steps \in [Stage -> {"idle", "running", "success", "error"}]
  BY RunType DEF Stage
<1>2. r \in Run /\ r.stage = k + 1 /\ r.mounted = runs[i].mounted
  BY Zenon, <1>1 DEF Run
<1>3. runs' = [runs EXCEPT ![i] = r]
  OBVIOUS
<1> HIDE DEF r
<1>4. /\ runs' \in Seq(Run) /\ DOMAIN runs' = DOMAIN runs /\ runs'[i] = r
      /\ \A j \in DOMAIN runs : j # i => runs'[j] = runs[j]
  BY <1>1, <1>2, <1>3
<1>5. \A j \in DOMAIN runs : runs'[j].mounted = runs[j].mounted
  BY <1>2, <1>4
<1>6. CASE runs[i].mounted
  <2>1. /\ steps' = [steps EXCEPT ![k] = "success", ![k + 1] = "running"]
        /\ result' = "none" /\ traceRunning' = TRUE
    BY <1>6 DEF Show
  <2>2. OnStage(k)
    BY <1>1, <1>6 DEF TraceInv, RunIsShown
  <2> HIDE DEF k
  <2>3. /\ steps' \in [Stage -> {"idle", "running", "success", "error"}]
        /\ steps'[k + 1] = "running"
        /\ \A s \in Stage : (s < k + 1 => steps'[s] = "success") /\ (s > k + 1 => steps'[s] = "idle")
    BY <1>1, <2>1, <2>2 DEF OnStage, Stage
  <2>4. \A j \in DOMAIN runs' : runs'[j].mounted => runs'[j].stage = k + 1
    BY Zenon, <1>1, <1>2, <1>4, <1>5, <1>6 DEF TraceInv, FlagIsRun
  <2>5. RunIsShown'
    BY <2>1, <2>3, <2>4 DEF RunIsShown, OnStage
  <2>6. FlagIsRun'
    BY Zenon, <1>1, <1>4, <1>5, <1>6, <2>1 DEF TraceInv, FlagIsRun
  <2>7. TraceTypeOK'
    BY <1>4, <2>1, <2>3 DEF TraceInv, TraceTypeOK
  <2> QED BY Zenon, <2>1, <2>5, <2>6, <2>7 DEF TraceInv
<1>7. CASE ~runs[i].mounted
  <2>1. UNCHANGED <<steps, result, traceRunning>>
    BY <1>7 DEF Show
  <2>2. \A j \in DOMAIN runs' : runs'[j].mounted => runs'[j] = runs[j]
    BY Zenon, <1>2, <1>4, <1>7
  <2>3. RunIsShown'
    <3>1. \A j \in DOMAIN runs' : runs'[j].mounted => OnStage(runs'[j].stage)
      BY Zenon, <1>4, <1>5, <2>2 DEF TraceInv, RunIsShown
    <3> QED BY <2>1, <3>1 DEF RunIsShown, OnStage
  <2>4. FlagIsRun'
    BY <1>4, <1>5, <2>1 DEF TraceInv, FlagIsRun
  <2>5. TraceTypeOK'
    BY <1>4, <2>1 DEF TraceInv, TraceTypeOK
  <2>6. AtRest' = AtRest
    BY <2>1 DEF AtRest
  <2> QED BY <2>1, <2>3, <2>4, <2>5, <2>6 DEF TraceInv
<1> QED BY <1>6, <1>7

LEMMA AdvanceKeepsInv ==
  ASSUME TraceInv, NEW i \in 1..Len(runs), Advance(i)
  PROVE  TraceInv'
<1> DEFINE r == runs[i]
           k == r.stage
           done == [steps EXCEPT ![k] = "success"]
<1>1. /\ k \in Stage /\ k < 4 /\ k + 1 \in Stage /\ r.mounted \in BOOLEAN
      /\ steps \in [Stage -> {"idle", "running", "success", "error"}]
  BY RunType DEF Stage, Advance
<1>2. CASE Throws(r, k + 1)
  <2>1. /\ Show(r, [done EXCEPT ![k + 1] = "error"], "failed", FALSE)
        /\ runs' = Without(i) /\ keyBlank' = keyBlank
    BY Zenon, <1>2 DEF Advance
  <2>2. CASE r.mounted
    <3>1. steps' = [done EXCEPT ![k + 1] = "error"] /\ result' = "failed" /\ traceRunning' = FALSE
      BY Zenon, <2>1, <2>2 DEF Show
    <3>2. k + 1 \in 2..4
      BY <1>2 DEF Throws
    <3>3. OnStage(k)
      BY Zenon, <2>2, RunType DEF TraceInv, RunIsShown
    <3> HIDE DEF k
    <3>4. /\ steps' \in [Stage -> {"idle", "running", "success", "error"}]
          /\ steps'[k + 1] = "error"
          /\ \A s \in Stage : (s < k + 1 => steps'[s] = "success") /\ (s > k + 1 => steps'[s] = "idle")
      BY <1>1, <3>1, <3>3 DEF OnStage, Stage
    <3>5. AtRest'
      BY Zenon, <3>1, <3>2, <3>4 DEF AtRest
    <3> QED BY Zenon, <2>1, <2>2, <3>1, <3>4, <3>5, ShownRunEnds
  <2>3. CASE ~r.mounted
    <3>1. UNCHANGED <<steps, result, traceRunning>>
      BY <2>1, <2>3 DEF Show
    <3> QED BY Zenon, <2>1, <2>3, <3>1, HiddenRunEnds
  <2> QED BY <2>2, <2>3
<1>3. CASE ~Throws(r, k + 1)
  <2>1. /\ Show(r, [done EXCEPT ![k + 1] = "running"], "none", TRUE)
        /\ runs' = [runs EXCEPT ![i].stage = k + 1] /\ keyBlank' = keyBlank
    BY Zenon, <1>3 DEF Advance
  <2> QED BY Zenon, <1>1, <2>1, StageStarts
<1> QED BY <1>2, <1>3

LEMMA ReplyKeepsInv ==
  ASSUME TraceInv, NEW i \in 1..Len(runs), NEW ok \in BOOLEAN, Reply(i, ok)
  PROVE  TraceInv'
<1> DEFINE r == runs[i]
           end == IF ok THEN "success" ELSE "error"
           said == IF ok THEN "ok" ELSE "failed"
<1>1. /\ r.stage = 4 /\ runs' = Without(i) /\ keyBlank' = keyBlank
      /\ Show(r, [steps EXCEPT ![4] = end], said, FALSE)
  BY Zenon DEF Reply
<1>2. steps \in [Stage -> {"idle", "running", "success", "error"}]
  BY RunType
<1>3. CASE r.mounted
  <2>1. steps' = [steps EXCEPT ![4] = end] /\ result' = said /\ traceRunning' = FALSE
    BY Zenon, <1>1, <1>3 DEF Show
  <2>2. OnStage(4)
    BY <1>1, <1>3, RunType DEF TraceInv, RunIsShown
  <2>3. /\ steps' \in [Stage -> {"idle", "running", "success", "error"}]
        /\ steps'[4] = end /\ \A s \in Stage : s < 4 => steps'[s] = "success"
    BY <1>2, <2>1, <2>2 DEF OnStage, Stage
  <2>4. AtRest'
    <3>1. CASE ok
      BY <2>1, <2>3, <3>1 DEF AtRest, Stage
    <3>2. CASE ~ok
      <4>1. 4 \in 2..4 /\ \A s \in Stage : ~(s > 4)
        BY DEF Stage
      <4> QED BY Zenon, <2>1, <2>3, <3>2, <4>1 DEF AtRest
    <3> QED BY Zenon, <3>1, <3>2
  <2> QED BY Zenon, <1>1, <1>3, <2>1, <2>3, <2>4, ShownRunEnds
<1>4. CASE ~r.mounted
  <2>1. UNCHANGED <<steps, result, traceRunning>>
    BY Zenon, <1>1, <1>4 DEF Show
  <2> QED BY Zenon, <1>1, <1>4, <2>1, HiddenRunEnds
<1> QED BY <1>3, <1>4

LEMMA TraceKeepsInv ==
  ASSUME TraceInv, TraceStep
  PROVE  TraceInv'
<1>1. CASE UNCHANGED traceVars
  BY <1>1 DEF traceVars, TraceInv, TraceTypeOK, FlagIsRun, RunIsShown, OnStage, AtRest
<1>2. CASE \E shown \in Sight : RunTrace(shown)
  BY Zenon, <1>2, RunTraceKeepsInv
<1>3. CASE Reset
  <2>1. steps' = Idle /\ result' = "none" /\ UNCHANGED <<keyBlank, traceRunning, runs>> /\ ~traceRunning
    BY <1>3 DEF Reset
  <2>2. \A i \in DOMAIN runs : ~runs[i].mounted
    BY <2>1 DEF TraceInv, FlagIsRun
  <2>3. Idle \in [Stage -> {"idle", "running", "success", "error"}]
    BY DEF Idle
  <2>4. RunIsShown' /\ AtRest'
    BY Zenon, <2>1, <2>2 DEF RunIsShown, AtRest, Idle, Stage
  <2> QED BY <2>1, <2>3, <2>4 DEF TraceInv, TraceTypeOK, FlagIsRun
<1>4. CASE \E b \in BOOLEAN : SetKey(b)
  BY <1>4 DEF SetKey, TraceInv, TraceTypeOK, FlagIsRun, RunIsShown, OnStage, AtRest
<1>5. CASE TraceProgress
  BY Zenon, <1>5, RunType, AdvanceKeepsInv, ReplyKeepsInv DEF TraceProgress
<1>6. CASE TraceUnmount
  <2> DEFINE left == [i \in 1..Len(runs) |-> [runs[i] EXCEPT !.mounted = FALSE]]
  <2>1. /\ keyBlank' = FALSE /\ traceRunning' = FALSE /\ steps' = Idle /\ result' = "none"
        /\ runs' = left
    BY <1>6, RunType DEF TraceUnmount
  <2>2. \A r \in Run : [r EXCEPT !.mounted = FALSE] \in Run /\ ~[r EXCEPT !.mounted = FALSE].mounted
    BY Zenon DEF Run
  <2>3. left \in Seq(Run) /\ DOMAIN left = 1..Len(runs) /\ \A i \in 1..Len(runs) : ~left[i].mounted
    <3>1. \A i \in 1..Len(runs) : left[i] \in Run /\ ~left[i].mounted
      BY Zenon, <2>2, RunType
    <3>2. Len(runs) \in Nat /\ DOMAIN left = 1..Len(runs)
      BY RunType
    <3> QED BY <3>1, <3>2
  <2> HIDE DEF left
  <2>4. RunIsShown' /\ AtRest' /\ FlagIsRun'
    BY Zenon, <2>1, <2>3 DEF RunIsShown, AtRest, FlagIsRun, Idle, Stage
  <2>5. TraceTypeOK'
    BY Zenon, <2>1, <2>3 DEF TraceTypeOK, Idle
  <2> QED BY <2>4, <2>5 DEF TraceInv
<1>7. CASE TraceInit'
  <2>1. /\ keyBlank' = FALSE /\ traceRunning' = FALSE /\ steps' = Idle /\ result' = "none" /\ runs' = <<>>
    BY <1>7 DEF TraceInit
  <2>2. runs' \in Seq(Run) /\ DOMAIN runs' = {}
    <3>1. <<>> \in Seq(Run) /\ DOMAIN <<>> = {}
      OBVIOUS
    <3> QED BY <2>1, <3>1
  <2>3. RunIsShown' /\ AtRest' /\ FlagIsRun'
    BY Zenon, <2>1, <2>2 DEF RunIsShown, AtRest, FlagIsRun
  <2>4. TraceTypeOK'
    BY Zenon, <2>1, <2>2 DEF TraceTypeOK, Idle
  <2> QED BY Zenon, <2>3, <2>4 DEF TraceInv
<1> QED
  BY Zenon, <1>1, <1>2, <1>3, <1>4, <1>5, <1>6, <1>7 DEF TraceStep, TraceProgress

-----------------------------------------------------------------------------
(* The palette and local storage *)

PaletteInv == PaletteTypeOK /\ PaletteSound /\ StorageIsCurrent

PaletteStep ==
  \/ UNCHANGED paletteVars
  \/ ToggleSearch
  \/ CloseSearch
  \/ PaletteNext
  \/ Reload

\* Cutting a list at the limit.
LEMMA CutOf ==
  ASSUME NEW list \in Seq(Tab), Distinct(list)
  PROVE  /\ Cut(list) \in Seq(Tab) /\ Len(Cut(list)) <= RecentLimit /\ Distinct(Cut(list))
         /\ Len(list) <= RecentLimit => Cut(list) = list
         /\ list # <<>> => Cut(list) # <<>>
<1> DEFINE n == IF Len(list) < RecentLimit THEN Len(list) ELSE RecentLimit
<1>1. Len(list) \in Nat /\ n \in 0..Len(list) /\ n <= RecentLimit /\ RecentLimit \in Nat \ {0}
  BY PaletteAssumption
<1>2. Len(list) <= RecentLimit => n = Len(list)
  BY <1>1
<1>3. list # <<>> => n # 0
  BY <1>1
<1>4. Cut(list) = SubSeq(list, 1, n)
  BY DEF Cut
<1> HIDE DEF n
<1>5. /\ Cut(list) \in Seq(Tab) /\ Len(Cut(list)) = n
      /\ \A i \in 1..n : Cut(list)[i] = list[i]
  BY <1>1, <1>4, FirstOf
<1>6. Distinct(Cut(list))
  <2>1. \A i \in 1..n : i \in 1..Len(list)
    BY <1>1
  <2> QED BY <1>5, <2>1 DEF Distinct
<1>7. ASSUME Len(list) <= RecentLimit PROVE Cut(list) = list
  <2>1. Len(Cut(list)) = Len(list) /\ \A i \in 1..Len(list) : Cut(list)[i] = list[i]
    BY <1>2, <1>5, <1>7
  <2> QED BY <1>5, <2>1
<1>8. list # <<>> => Cut(list) # <<>>
  <2>1. Cut(list) = <<>> => n = 0
    BY <1>5
  <2> QED BY <1>3, <2>1
<1> QED
  BY Zenon, <1>1, <1>5, <1>6, <1>7, <1>8

\* The pages and the list the console starts out with.
LEMMA TabType ==
  /\ TabOrder \in Seq(Tab) /\ FirstTab \in Tab
  /\ DefaultRecents \in Seq(Tab) /\ Len(DefaultRecents) <= RecentLimit /\ Distinct(DefaultRecents)
<1>1. TabOrder \in Seq(Tab) /\ TabOrder # <<>> /\ Len(DefaultRecents) <= RecentLimit
  BY PaletteAssumption
<1>2. Len(TabOrder) \in Nat /\ DOMAIN TabOrder = 1..Len(TabOrder)
  BY <1>1, ListType
<1>3. 1 \in 1..Len(TabOrder)
  BY <1>1, <1>2
<1>4. FirstTab \in Tab
  BY Zenon, <1>1, <1>3, ListType DEF FirstTab
<1>5. \A i, j \in 1..Len(TabOrder) : TabOrder[i] = TabOrder[j] => i = j
  BY <1>2, PaletteAssumption
<1> DEFINE n == IF Len(TabOrder) < 3 THEN Len(TabOrder) ELSE 3
<1>6. n \in 0..Len(TabOrder)
  BY <1>2
<1>7. DefaultRecents = SubSeq(TabOrder, 1, n)
  BY DEF DefaultRecents
<1> HIDE DEF n
<1>8. /\ DefaultRecents \in Seq(Tab) /\ Len(DefaultRecents) = n
      /\ \A i \in 1..n : DefaultRecents[i] = TabOrder[i]
  BY Zenon, <1>1, <1>6, <1>7, FirstOf
<1>9. Distinct(DefaultRecents)
  <2>1. \A i \in 1..n : i \in 1..Len(TabOrder)
    BY <1>2, <1>6
  <2> QED BY <1>5, <1>8, <2>1 DEF Distinct
<1> QED
  BY Zenon, <1>1, <1>4, <1>8, <1>9

\* The list with a choice in front repeats nothing and stays within its limit.
LEMMA TouchedOf ==
  ASSUME NEW t \in Tab, recents \in Seq(Tab), Distinct(recents)
  PROVE  Touched(t) \in Seq(Tab) /\ Len(Touched(t)) <= RecentLimit /\ Distinct(Touched(t))
<1> DEFINE f == Filter(recents, Tab \ {t})
           g == <<t>>
<1>1. /\ f \in Seq(Tab) /\ Distinct(f) /\ \A j \in 1..Len(f) : f[j] \in Tab \ {t}
  BY FilterOf
<1>2. g \in Seq(Tab) /\ Len(g) = 1 /\ g[1] = t
  OBVIOUS
<1>3. Touched(t) = Cut(g \o f)
  BY DEF Touched
<1> HIDE DEF f, g
<1>4. /\ g \o f \in Seq(Tab) /\ Len(g \o f) = Len(g) + Len(f)
      /\ \A i \in 1..Len(g) + Len(f) : (g \o f)[i] = IF i <= Len(g) THEN g[i] ELSE f[i - Len(g)]
  <2>1. f \in Seq(Tab) /\ g \in Seq(Tab)
    BY Zenon, <1>1, <1>2
  <2> QED BY <2>1, Joined
<1>5. Len(f) \in Nat /\ Len(g \o f) = Len(f) + 1
  BY <1>1, <1>2, <1>4
<1>6. \A i \in 1..Len(f) + 1 : (g \o f)[i] = IF i = 1 THEN t ELSE f[i - 1]
  BY <1>2, <1>4, <1>5
<1>7. Distinct(g \o f)
  <2> SUFFICES ASSUME NEW i \in 1..Len(f) + 1, NEW j \in 1..Len(f) + 1, (g \o f)[i] = (g \o f)[j]
               PROVE  i = j
    BY <1>5 DEF Distinct
  <2>1. \A k \in 1..Len(f) + 1 : k # 1 => k - 1 \in 1..Len(f) /\ f[k - 1] # t
    BY <1>1, <1>5
  <2>2. CASE i = 1 \/ j = 1
    BY Zenon, <1>6, <2>1, <2>2
  <2>3. CASE i # 1 /\ j # 1
    <3>1. f[i - 1] = f[j - 1] /\ i - 1 \in 1..Len(f) /\ j - 1 \in 1..Len(f)
      BY Zenon, <1>6, <2>1, <2>3
    <3>2. i - 1 = j - 1
      BY Zenon, <1>1, <3>1 DEF Distinct
    <3> QED BY <1>5, <3>2
  <2> QED BY <2>2, <2>3
<1> QED
  BY Zenon, <1>3, <1>4, <1>7, CutOf

\* A choice: the list is saved as it is shown.
LEMMA SelectKeepsInv ==
  ASSUME PaletteInv, NEW t \in Tab, Select(t)
  PROVE  PaletteInv'
<1>1. /\ recents \in Seq(Tab) /\ Blank \in Query
      /\ storage \in [recents : Seq(Seq(Tab)), collapsed : Seq({"true", "false"}), corner : Seq(Corner)]
  BY PaletteAssumption DEF PaletteInv, PaletteTypeOK
<1>2. Distinct(recents)
  BY <1>1, ListType DEF PaletteInv, StorageIsCurrent, Distinct
<1>3. /\ tab' = t /\ recents' = Touched(t) /\ storage' = [storage EXCEPT !.recents = <<recents'>>]
      /\ searchOpen' = FALSE /\ searchQuery' = Blank /\ active' = 0 /\ UNCHANGED <<collapsed, corner>>
  BY DEF Select, Closed
<1>4. recents' \in Seq(Tab) /\ Len(recents') <= RecentLimit /\ Distinct(recents')
  BY Zenon, <1>1, <1>2, <1>3, TouchedOf
<1>5. /\ <<recents'>> \in Seq(Seq(Tab)) /\ <<recents'>> # <<>> /\ <<recents'>>[1] = recents'
  BY <1>4
<1>6. /\ storage' \in [recents : Seq(Seq(Tab)), collapsed : Seq({"true", "false"}), corner : Seq(Corner)]
      /\ storage'.recents = <<recents'>>
      /\ storage'.collapsed = storage.collapsed /\ storage'.corner = storage.corner
  BY Zenon, <1>1, <1>3, <1>5
<1>7. PaletteTypeOK'
  BY Zenon, <1>1, <1>3, <1>4, <1>6 DEF PaletteInv, PaletteTypeOK
<1>8. PaletteSound'
  BY <1>3 DEF PaletteSound
<1>9. recents' = LoadRecents'
  <2>1. LoadRecents' = Cut(recents')
    BY Zenon, <1>5, <1>6 DEF LoadRecents, Missing, Cut
  <2> QED BY <1>4, <2>1, CutOf
<1>10. collapsed' = LoadCollapsed' /\ corner' = LoadCorner'
  BY Zenon, <1>3, <1>6 DEF PaletteInv, StorageIsCurrent, LoadCollapsed, LoadCorner
<1>11. \A i, j \in DOMAIN recents' : recents'[i] = recents'[j] => i = j
  BY <1>4, ListType DEF Distinct
<1> QED
  BY Zenon, <1>7, <1>8, <1>9, <1>10, <1>11 DEF PaletteInv, StorageIsCurrent

\* Steps that leave the list and local storage alone.
LEMMA SearchKeepsInv ==
  ASSUME PaletteInv, UNCHANGED <<recents, collapsed, corner, storage>>,
         tab' \in Tab, searchOpen' \in BOOLEAN, searchQuery' \in Query, active' \in Nat, PaletteSound'
  PROVE  PaletteInv'
BY Zenon DEF PaletteInv, PaletteTypeOK, StorageIsCurrent, LoadRecents, LoadCollapsed, LoadCorner, Cut

\* The lines that a query finds.
LEMMA HitsType == Hits \in Seq(Tab) /\ Len(Hits) \in Nat
<1>1. Hits \in Seq(Tab)
  BY TabType, FilterOf DEF Hits
<1> QED BY <1>1, ListType

\* The arrow keys and the mouse stay within the lines.
LEMMA HighlightKeepsInv ==
  ASSUME PaletteInv, Highlight
  PROVE  PaletteInv'
<1> DEFINE n == Len(Hits)
<1>1. n \in Nat /\ n # 0
  BY HitsType DEF Highlight
<1>2. active \in Nat
  BY DEF PaletteInv, PaletteTypeOK
<1>3. \/ active' = (active + 1) % n
      \/ active' = (active + n - 1) % n
      \/ active' \in 0..n - 1
  BY DEF Highlight
<1> HIDE DEF n
<1>4. active' \in 0..n - 1
  <2>1. \A x \in Nat : x % n \in 0..n - 1
    BY <1>1
  <2>2. active + 1 \in Nat /\ active + n - 1 \in Nat
    BY <1>1, <1>2
  <2> QED BY <1>3, <2>1, <2>2
<1>5. Hits' = Hits /\ searchOpen /\ UNCHANGED <<tab, searchOpen, searchQuery, recents, collapsed, corner, storage>>
  BY DEF Highlight, Hits
<1>6. active' \in Nat /\ active' < n
  BY <1>1, <1>4
<1>7. PaletteSound'
  BY <1>5, <1>6 DEF PaletteSound, n
<1> QED
  BY Zenon, <1>5, <1>6, <1>7, SearchKeepsInv DEF PaletteInv, PaletteTypeOK

\* The choice that Enter takes is a page.
LEMMA EnterKeepsInv ==
  ASSUME PaletteInv, Enter
  PROVE  PaletteInv'
<1>1. CASE Hits # <<>>
  <2> DEFINE i == IF active < Len(Hits) THEN active + 1 ELSE 1
  <2>1. Select(Hits[i])
    BY <1>1 DEF Enter
  <2>2. active \in Nat /\ Len(Hits) \in Nat /\ Len(Hits) # 0
    BY <1>1, HitsType DEF PaletteInv, PaletteTypeOK
  <2>3. i \in 1..Len(Hits)
    BY <2>2
  <2> HIDE DEF i
  <2>4. Hits[i] \in Tab
    BY Zenon, <2>3, HitsType, ListType
  <2> QED BY Zenon, <2>1, <2>4, SelectKeepsInv
<1>2. CASE Hits = <<>>
  <2>1. recents # <<>> /\ Select(recents[1])
    BY <1>2 DEF Enter
  <2>2. recents \in Seq(Tab)
    BY DEF PaletteInv, PaletteTypeOK
  <2>3. recents[1] \in Tab
    BY <2>1, <2>2
  <2> QED BY <2>1, <2>3, SelectKeepsInv
<1> QED BY <1>1, <1>2

\* The graph: its place is saved with every change.
LEMMA GraphKeepsInv ==
  ASSUME PaletteInv, NEW b \in BOOLEAN, NEW c \in Corner,
         collapsed' = b, corner' = c, UNCHANGED recents,
         \/ storage' = [storage EXCEPT !.collapsed = <<StringOf(b)>>] /\ corner' = corner
         \/ storage' = [storage EXCEPT !.corner = <<c>>] /\ collapsed' = collapsed
         \/ storage' = [storage EXCEPT !.collapsed = <<StringOf(b)>>, !.corner = <<c>>],
         tab' \in Tab, searchOpen' \in BOOLEAN, searchQuery' \in Query, active' \in Nat, PaletteSound'
  PROVE  PaletteInv'
<1>1. storage \in [recents : Seq(Seq(Tab)), collapsed : Seq({"true", "false"}), corner : Seq(Corner)]
  BY DEF PaletteInv, PaletteTypeOK
<1>2. /\ <<StringOf(b)>> \in Seq({"true", "false"}) /\ <<StringOf(b)>> # <<>>
      /\ (<<StringOf(b)>> = <<"true">>) = b
  BY DEF StringOf
<1>3. <<c>> \in Seq(Corner) /\ <<c>> # <<>> /\ <<c>>[1] = c
  OBVIOUS
<1>4. /\ storage' \in [recents : Seq(Seq(Tab)), collapsed : Seq({"true", "false"}), corner : Seq(Corner)]
      /\ storage'.recents = storage.recents
      /\ storage'.collapsed = <<StringOf(b)>> \/ (storage'.collapsed = storage.collapsed /\ collapsed' = collapsed)
      /\ storage'.corner = <<c>> \/ (storage'.corner = storage.corner /\ corner' = corner)
  BY Zenon, <1>1, <1>2, <1>3
<1>5. PaletteTypeOK'
  BY <1>4 DEF PaletteInv, PaletteTypeOK
<1>6. collapsed' = LoadCollapsed'
  BY Zenon, <1>2, <1>4 DEF PaletteInv, StorageIsCurrent, LoadCollapsed, Missing
<1>7. corner' = LoadCorner'
  BY <1>3, <1>4 DEF PaletteInv, StorageIsCurrent, LoadCorner, Missing
<1>8. recents' = LoadRecents'
  BY Zenon, <1>4 DEF PaletteInv, StorageIsCurrent, LoadRecents, Cut
<1> QED
  BY Zenon, <1>5, <1>6, <1>7, <1>8 DEF PaletteInv, StorageIsCurrent

\* The corner that follows is a corner.
LEMMA NextCornerType ==
  ASSUME corner \in Corner, NextCorner
  PROVE  corner' \in Corner
<1> DEFINE at == CHOOSE i \in DOMAIN Corners : Corners[i] = corner
<1>1. DOMAIN Corners = 1..4 /\ Len(Corners) = 4
  BY DEF Corners
<1>2. \E i \in DOMAIN Corners : Corners[i] = corner
  BY DEF Corner
<1>3. at \in 1..4
  BY <1>1, <1>2
<1>4. corner' = Corners[(at % 4) + 1]
  BY <1>1 DEF NextCorner
<1> HIDE DEF at
<1>5. (at % 4) + 1 \in 1..4
  BY <1>3
<1> QED
  BY <1>1, <1>4, <1>5 DEF Corner

\* Loading the page again reads what is shown.
LEMMA ReloadKeepsInv ==
  ASSUME PaletteInv, Reload
  PROVE  PaletteInv'
<1>1. /\ tab' = FirstTab /\ searchOpen' = FALSE /\ searchQuery' = Blank /\ active' = 0
      /\ recents' = recents /\ collapsed' = collapsed /\ corner' = corner
      /\ storage' = [storage EXCEPT !.collapsed = <<StringOf(collapsed)>>, !.corner = <<corner>>]
  BY DEF Reload, Closed, PaletteInv, StorageIsCurrent
<1>2. PaletteSound' /\ tab' \in Tab /\ searchQuery' \in Query /\ 0 \in Nat
  BY Zenon, <1>1, TabType, PaletteAssumption DEF PaletteSound
<1>3. collapsed \in BOOLEAN /\ corner \in Corner
  BY DEF PaletteInv, PaletteTypeOK
<1> QED
  BY Zenon, <1>1, <1>2, <1>3, GraphKeepsInv

LEMMA PaletteKeepsInv ==
  ASSUME PaletteInv, PaletteStep
  PROVE  PaletteInv'
<1>1. /\ tab \in Tab /\ searchOpen \in BOOLEAN /\ searchQuery \in Query /\ active \in Nat
      /\ collapsed \in BOOLEAN /\ corner \in Corner /\ Blank \in Query
  BY Zenon, PaletteAssumption DEF PaletteInv, PaletteTypeOK
<1>2. CASE UNCHANGED paletteVars
  <2>1. PaletteSound'
    BY Zenon, <1>2 DEF paletteVars, PaletteInv, PaletteSound, Hits
  <2> QED BY Zenon, <1>1, <1>2, <2>1, SearchKeepsInv DEF paletteVars
<1>3. CASE ToggleSearch \/ CloseSearch \/ OpenSearch
  <2>1. /\ UNCHANGED <<tab, recents, collapsed, corner, storage>>
        /\ (searchQuery' = Blank /\ active' = 0) \/ (searchOpen' = TRUE /\ UNCHANGED <<searchQuery, active>>)
        /\ searchOpen' \in BOOLEAN
    BY Zenon, <1>3 DEF ToggleSearch, CloseSearch, OpenSearch, Closed
  <2>2. PaletteSound'
    BY <2>1 DEF PaletteInv, PaletteSound, Hits
  <2> QED BY <1>1, <2>1, <2>2, SearchKeepsInv
<1>4. CASE Highlight
  BY <1>4, HighlightKeepsInv
<1>5. CASE Enter
  BY Zenon, <1>5, EnterKeepsInv
<1>6. ASSUME NEW q \in Query, Type(q) PROVE PaletteInv'
  <2>1. /\ UNCHANGED <<tab, searchOpen, recents, collapsed, corner, storage>> /\ searchOpen
        /\ searchQuery' = q /\ active' = 0
    BY <1>6 DEF Type
  <2>2. PaletteSound'
    BY Zenon, <2>1 DEF PaletteSound
  <2> QED BY Zenon, <1>1, <2>1, <2>2, SearchKeepsInv
<1>7. ASSUME NEW t \in Tab, Pick(t) PROVE PaletteInv'
  BY Zenon, <1>7, SelectKeepsInv DEF Pick
<1>8. ASSUME NEW t \in Tab, Menu(t) PROVE PaletteInv'
  <2>1. tab' = t /\ UNCHANGED <<searchOpen, searchQuery, active, recents, collapsed, corner, storage>>
    BY <1>8 DEF Menu
  <2>2. PaletteSound'
    BY <2>1 DEF PaletteInv, PaletteSound, Hits
  <2> QED BY Zenon, <1>1, <2>1, <2>2, SearchKeepsInv
<1>9. ASSUME NEW b \in BOOLEAN, SetCollapsed(b) PROVE PaletteInv'
  <2>1. /\ collapsed' = b /\ storage' = [storage EXCEPT !.collapsed = <<StringOf(b)>>]
        /\ UNCHANGED <<tab, searchOpen, searchQuery, active, recents, corner>>
    BY <1>9 DEF SetCollapsed
  <2>2. PaletteSound'
    BY <2>1 DEF PaletteInv, PaletteSound, Hits
  <2> QED BY Zenon, <1>1, <2>1, <2>2, GraphKeepsInv
<1>10. CASE NextCorner
  <2>1. /\ storage' = [storage EXCEPT !.corner = <<corner'>>]
        /\ UNCHANGED <<tab, searchOpen, searchQuery, active, recents, collapsed>>
    BY <1>10 DEF NextCorner
  <2>2. PaletteSound'
    BY <2>1 DEF PaletteInv, PaletteSound, Hits
  <2>3. corner' \in Corner
    BY <1>1, <1>10, NextCornerType
  <2> QED BY Zenon, <1>1, <2>1, <2>2, <2>3, GraphKeepsInv
<1>11. CASE Reload
  BY Zenon, <1>11, ReloadKeepsInv
<1> QED
  BY Zenon, <1>2, <1>3, <1>4, <1>5, <1>6, <1>7, <1>8, <1>9, <1>10, <1>11 DEF PaletteStep, PaletteNext

-----------------------------------------------------------------------------
(* The notices *)

NoticeType == [about : Topics, says : SUBSET (Topics \cup Status), read : BOOLEAN]
Facts(view, status) == [topic \in Topics |-> Fact(topic, view, status)]

\* What the properties say of a list s of notices, when its newest ones tell
\* the facts F.
Newly(s, i) == \A j \in 1..i - 1 : s[j].about # s[i].about
Tell(s, F) == \A i \in 1..Len(s) : Newly(s, i) => s[i].says = F[s[i].about]
Alternate(s) ==
  \A i, j \in 1..Len(s) :
    /\ i < j /\ s[i].about = s[j].about /\ s[i].about # "start"
    /\ \A k \in i + 1..j - 1 : s[k].about # s[i].about
    => s[i].says # s[j].says
UnreadFirst(s) == \A i, j \in 1..Len(s) : i < j /\ ~s[j].read => ~s[i].read
Told(s, F) == s \in Seq(NoticeType) /\ Tell(s, F) /\ Alternate(s) /\ UnreadFirst(s)

\* Inductive: the newest notices tell what the effects saw last, whatever the
\* store shows by now.
NoticesInv == NoticesTypeOK /\ Told(notices, Facts(prevNodes, prevStatus))

\* Cutting the list at its end.
LEMMA CutTold ==
  ASSUME NEW F, NEW s, Told(s, F), NEW n \in 0..Len(s)
  PROVE  Told(SubSeq(s, 1, n), F)
<1> DEFINE r == SubSeq(s, 1, n)
<1>1. s \in Seq(NoticeType) /\ Len(s) \in Nat
  BY Zenon, ListType DEF Told
<1>2. r \in Seq(NoticeType) /\ Len(r) = n /\ \A i \in 1..n : r[i] = s[i]
  BY <1>1, FirstOf
<1> HIDE DEF r
<1>3. \A i \in 1..n : i \in 1..Len(s) /\ \A j \in 1..i - 1 : j \in 1..n
  BY <1>1
<1>4. Tell(r, F)
  <2>1. \A i \in 1..n : Newly(r, i) => Newly(s, i)
    BY Zenon, <1>2, <1>3 DEF Newly
  <2> QED BY Zenon, <1>2, <1>3, <2>1 DEF Told, Tell
<1>5. Alternate(r)
  <2> SUFFICES ASSUME NEW i \in 1..n, NEW j \in 1..n,
                      i < j, r[i].about = r[j].about, r[i].about # "start",
                      \A k \in i + 1..j - 1 : r[k].about # r[i].about
               PROVE  r[i].says # r[j].says
    BY Zenon, <1>2 DEF Alternate
  <2>1. \A k \in i + 1..j - 1 : k \in 1..n
    BY <1>1
  <2>2. \A k \in i + 1..j - 1 : s[k].about # s[i].about
    BY <1>2, <2>1
  <2>3. i \in 1..Len(s) /\ j \in 1..Len(s) /\ r[i] = s[i] /\ r[j] = s[j]
    BY <1>2, <1>3
  <2> QED BY Zenon, <2>2, <2>3 DEF Told, Alternate
<1>6. UnreadFirst(r)
  BY <1>2, <1>3 DEF Told, UnreadFirst
<1> QED
  BY Zenon, <1>2, <1>4, <1>5, <1>6 DEF Told, r

\* The list d has one unread notice for each topic whose fact has changed from
\* F to G.
Reports(d, F, G) ==
  /\ d \in Seq(NoticeType)
  /\ \A i \in 1..Len(d) : ~d[i].read /\ d[i].says = G[d[i].about] /\ G[d[i].about] # F[d[i].about]
  /\ \A i, j \in 1..Len(d) : d[i].about = d[j].about => i = j
  /\ \A t \in Topics : (\A i \in 1..Len(d) : d[i].about # t) => G[t] = F[t]

\* Such a list in front of the notices.
LEMMA PushTold ==
  ASSUME NEW F, NEW G, NEW s, Told(s, F), NEW d, Reports(d, F, G)
  PROVE  Told(d \o s, G)
<1> DEFINE u == d \o s
           m == Len(d)
<1>1. s \in Seq(NoticeType) /\ Len(s) \in Nat /\ d \in Seq(NoticeType) /\ m \in Nat
  BY ListType DEF Told, Reports
<1>2. /\ u \in Seq(NoticeType) /\ Len(u) = m + Len(s)
      /\ \A i \in 1..m + Len(s) : u[i] = IF i <= m THEN d[i] ELSE s[i - m]
  BY <1>1, Joined
<1> HIDE DEF u, m
<1>3. \A i \in 1..m : i \in 1..m + Len(s) /\ u[i] = d[i]
  BY <1>1, <1>2
<1>4. \A i \in 1..Len(s) : i + m \in 1..m + Len(s) /\ u[i + m] = s[i]
  BY <1>1, <1>2
<1>5. \A i \in 1..m + Len(s) : i \in 1..m \/ (i - m \in 1..Len(s) /\ i > m /\ i - m + m = i)
  BY <1>1
<1>6. \A i \in 1..m : ~d[i].read /\ d[i].says = G[d[i].about] /\ G[d[i].about] # F[d[i].about]
  BY DEF Reports, m
<1>7. \A i, j \in 1..m : d[i].about = d[j].about => i = j
  BY Zenon DEF Reports, m
<1>8. \A t \in Topics : (\A i \in 1..m : d[i].about # t) => G[t] = F[t]
  BY Zenon DEF Reports, m
<1>9. \A i \in 1..Len(s) : s[i].about \in Topics
  <2>1. \A x \in NoticeType : x.about \in Topics
    BY Zenon DEF NoticeType
  <2> QED BY Zenon, <1>1, <2>1, ListType
<1>10. Tell(u, G)
  <2> SUFFICES ASSUME NEW i \in 1..m + Len(s), Newly(u, i) PROVE u[i].says = G[u[i].about]
    BY Zenon, <1>2 DEF Tell
  <2>1. CASE i \in 1..m
    BY Zenon, <1>3, <1>6, <2>1
  <2>2. CASE i \notin 1..m
    <3> DEFINE l == i - m
    <3>1. l \in 1..Len(s) /\ u[i] = s[l] /\ i > m /\ l + m = i
      BY Zenon, <1>4, <1>5, <2>2
    <3> HIDE DEF l
    <3>2. \A j \in 1..m : j \in 1..i - 1
      BY <1>1, <3>1
    <3>3. \A j \in 1..m : d[j].about # s[l].about
      BY Zenon, <1>3, <3>1, <3>2 DEF Newly
    <3>4. \A j \in 1..l - 1 : j + m \in 1..i - 1 /\ j \in 1..Len(s)
      BY <1>1, <3>1
    <3>5. Newly(s, l)
      BY Zenon, <1>4, <3>1, <3>4 DEF Newly
    <3>6. s[l].says = F[s[l].about]
      BY Zenon, <3>1, <3>5 DEF Told, Tell
    <3> QED BY Zenon, <1>8, <1>9, <3>1, <3>3, <3>6
  <2> QED BY Zenon, <2>1, <2>2
<1>11. Alternate(u)
  <2> SUFFICES ASSUME NEW i \in 1..m + Len(s), NEW j \in 1..m + Len(s),
                      i < j, u[i].about = u[j].about, u[i].about # "start",
                      \A k \in i + 1..j - 1 : u[k].about # u[i].about
               PROVE  u[i].says # u[j].says
    BY <1>2 DEF Alternate
  <2>1. CASE j \in 1..m
    <3>1. i \in 1..m /\ i # j
      BY <1>1, <2>1
    <3> QED BY Zenon, <1>3, <1>7, <2>1, <3>1
  <2>2. CASE i \in 1..m /\ j \notin 1..m
    <3> DEFINE l == j - m
    <3>1. l \in 1..Len(s) /\ u[j] = s[l] /\ j > m /\ l + m = j
      BY Zenon, <1>4, <1>5, <2>2
    <3> HIDE DEF l
    <3>2. \A k \in 1..l - 1 : k + m \in i + 1..j - 1 /\ k \in 1..Len(s)
      BY <1>1, <2>2, <3>1
    <3>3. Newly(s, l)
      <4>1. ASSUME NEW k \in 1..l - 1 PROVE s[k].about # s[l].about
        <5>1. u[k + m] = s[k] /\ u[k + m].about # u[i].about
          BY Zenon, <1>4, <3>2
        <5> QED BY Zenon, <3>1, <5>1
      <4> QED BY Zenon, <4>1 DEF Newly
    <3>4. s[l].says = F[s[l].about]
      BY Zenon, <3>1, <3>3 DEF Told, Tell
    <3>5. u[i].says = G[u[i].about] /\ G[u[i].about] # F[u[i].about]
      BY Zenon, <1>3, <1>6, <2>2
    <3> QED BY Zenon, <3>1, <3>4, <3>5
  <2>3. CASE i \notin 1..m /\ j \notin 1..m
    <3> DEFINE l == i - m
               h == j - m
    <3>1. /\ l \in 1..Len(s) /\ u[i] = s[l] /\ l + m = i
          /\ h \in 1..Len(s) /\ u[j] = s[h] /\ h + m = j
      BY Zenon, <1>4, <1>5, <2>3
    <3> HIDE DEF l, h
    <3>2. l < h /\ \A k \in l + 1..h - 1 : k + m \in i + 1..j - 1 /\ k \in 1..Len(s)
      <4>1. l < h
        BY <1>1, <3>1
      <4>2. ASSUME NEW k \in l + 1..h - 1 PROVE k + m \in i + 1..j - 1 /\ k \in 1..Len(s)
        <5>1. k \in Nat /\ l + 1 <= k /\ k <= h - 1
          BY <3>1
        <5> QED BY <1>1, <3>1, <5>1
      <4> QED BY Zenon, <4>1, <4>2
    <3>3. \A k \in l + 1..h - 1 : s[k].about # s[l].about
      BY Zenon, <1>4, <3>1, <3>2
    <3>4. s[l].about = s[h].about /\ s[l].about # "start"
      BY Zenon, <3>1
    <3>5. s[l].says # s[h].says
      BY Zenon, <3>1, <3>2, <3>3, <3>4 DEF Told, Alternate
    <3> QED BY Zenon, <3>1, <3>5
  <2> QED BY Zenon, <1>1, <2>1, <2>2, <2>3
<1>12. UnreadFirst(u)
  <2> SUFFICES ASSUME NEW i \in 1..m + Len(s), NEW j \in 1..m + Len(s), i < j, ~u[j].read
               PROVE  ~u[i].read
    BY <1>2 DEF UnreadFirst
  <2>1. CASE i \in 1..m
    BY Zenon, <1>3, <1>6, <2>1
  <2>2. CASE i \notin 1..m
    <3>1. j \notin 1..m
      BY <1>1, <2>2
    <3>2. i - m \in 1..Len(s) /\ u[i] = s[i - m] /\ j - m \in 1..Len(s) /\ u[j] = s[j - m]
      BY Zenon, <1>4, <1>5, <2>2, <3>1
    <3>3. i - m < j - m
      BY <1>1
    <3> QED BY Zenon, <3>2, <3>3 DEF Told, UnreadFirst
  <2> QED BY Zenon, <2>1, <2>2
<1> QED
  BY <1>2, <1>10, <1>11, <1>12 DEF Told, u

\* What the facts of a topic depend on.
LEMMA FactOf ==
  ASSUME NEW view, NEW status
  PROVE  /\ Fact("start", view, status) = {"start"}
         /\ Fact("status", view, status) = {status}
         /\ Fact("leader", view, status) = Leader(view)
         /\ Fact("quorum", view, status) = IF HasQuorum(view) THEN {"quorum"} ELSE {}
         /\ \A n \in Node : Fact(n, view, status) = Healthy(view) \cap {n}
<1>1. \A n \in Node : n # "start" /\ n # "status" /\ n # "leader" /\ n # "quorum"
  BY Zenon, NoticesAssumption
<1> QED
  BY <1>1 DEF Fact

\* A leader is a node.
LEMMA LeaderType ==
  ASSUME NEW view
  PROVE  Leader(view) \subseteq Node
<1> DEFINE lead == {i \in DOMAIN NodeOrder : view[NodeOrder[i]].is_leader /\ view[NodeOrder[i]].healthy}
           first == CHOOSE i \in lead : \A j \in lead : i <= j
<1>1. NodeOrder \in Seq(Node) /\ DOMAIN NodeOrder = 1..Len(NodeOrder) /\ Len(NodeOrder) \in Nat
  BY Zenon, NoticesAssumption, ListType
<1>2. lead \in SUBSET Nat
  BY <1>1
<1>3. ASSUME lead # {} PROVE NodeOrder[first] \in Node
  <2>1. \E i \in lead : \A j \in lead : i <= j
    <3> HIDE DEF lead
    <3> QED BY Zenon, <1>2, <1>3, LeastOf
  <2>2. first \in lead
    <3> HIDE DEF lead
    <3> QED BY Zenon, <2>1
  <2>3. first \in 1..Len(NodeOrder)
    <3> HIDE DEF first
    <3> QED BY Zenon, <1>1, <2>2
  <2> HIDE DEF first
  <2> QED BY <1>1, <2>3, ListType
<1>4. Leader(view) = IF lead = {} THEN {} ELSE {NodeOrder[first]}
  BY DEF Leader
<1> HIDE DEF lead, first
<1> QED
  BY Zenon, <1>3, <1>4

\* The type of what a notice says.
LEMMA FactType ==
  ASSUME NEW topic \in Topics, NEW view, NEW status \in Status
  PROVE  Fact(topic, view, status) \in SUBSET (Topics \cup Status)
<1>1. CASE topic \in Node
  <2>1. Fact(topic, view, status) = Healthy(view) \cap {topic}
    BY Zenon, <1>1, FactOf
  <2> QED BY Zenon, <2>1
<1>2. CASE topic = "leader"
  <2>1. Fact(topic, view, status) = Leader(view)
    BY Zenon, <1>2, FactOf
  <2> QED BY Zenon, <2>1, LeaderType DEF Topics
<1>3. CASE topic \in {"start", "status", "quorum"}
  BY <1>3, FactOf DEF Topics
<1> QED
  BY Zenon, <1>1, <1>2, <1>3 DEF Topics

\* The topics of the nodes effect, and what the facts of the others and of
\* these do not depend on.
LEMMA NodesTopicsOf ==
  /\ NodesTopics \in Seq(Topics) /\ Distinct(NodesTopics)
  /\ \A t \in Topics : t \in {"start", "status"} \/ \E i \in 1..Len(NodesTopics) : NodesTopics[i] = t
  /\ \A i \in 1..Len(NodesTopics) : NodesTopics[i] \in Node \cup {"leader", "quorum"}
<1> DEFINE T == Node \cup {"leader", "quorum"}
           e == <<"leader", "quorum">>
           n == Len(NodeOrder)
<1>1. /\ NodeOrder \in Seq(Node) /\ n \in Nat /\ DOMAIN NodeOrder = 1..n
      /\ \A i \in 1..n : NodeOrder[i] \in Node
  BY Zenon, NoticesAssumption, ListType
<1>2. NodeOrder \in Seq(T) /\ e \in Seq(T) /\ Len(e) = 2 /\ e[1] = "leader" /\ e[2] = "quorum"
  BY <1>1
<1>3. \A i, j \in 1..n : NodeOrder[i] = NodeOrder[j] => i = j
  BY Zenon, <1>1, NoticesAssumption
<1>4. \A t \in Node : \E i \in 1..n : NodeOrder[i] = t
  BY Zenon, <1>1, NoticesAssumption
<1>5. "leader" \notin Node /\ "quorum" \notin Node
  BY NoticesAssumption
<1>6. NodesTopics = NodeOrder \o e
  BY DEF NodesTopics
<1> HIDE DEF T, e, n
<1>7. /\ NodesTopics \in Seq(T) /\ Len(NodesTopics) = Len(NodeOrder) + Len(e)
      /\ \A i \in 1..Len(NodeOrder) + Len(e) :
           NodesTopics[i] = IF i <= Len(NodeOrder) THEN NodeOrder[i] ELSE e[i - Len(NodeOrder)]
  BY Zenon, <1>2, <1>6, Joined
<1>8. Len(NodesTopics) = n + 2 /\ \A i \in 1..n : NodesTopics[i] = NodeOrder[i]
  BY <1>1, <1>2, <1>7 DEF n
<1>9. NodesTopics[n + 1] = "leader" /\ NodesTopics[n + 2] = "quorum"
  <2>1. \A i \in 1..n + 2 : NodesTopics[i] = IF i <= n THEN NodeOrder[i] ELSE e[i - n]
    BY Zenon, <1>2, <1>7 DEF n
  <2>2. NodesTopics[n + 1] = e[1]
    BY <1>1, <2>1
  <2>3. NodesTopics[n + 2] = e[2]
    BY <1>1, <2>1
  <2> QED BY Zenon, <1>2, <2>2, <2>3
<1>10. \A i \in 1..n + 2 : i \in 1..n \/ i = n + 1 \/ i = n + 2
  BY <1>1
<1>11. n + 1 \in 1..n + 2 /\ n + 2 \in 1..n + 2 /\ \A i \in 1..n : i \in 1..n + 2
  BY <1>1
<1>12. Distinct(NodesTopics)
  <2> SUFFICES ASSUME NEW i \in 1..n + 2, NEW j \in 1..n + 2, NodesTopics[i] = NodesTopics[j] PROVE i = j
    BY Zenon, <1>8 DEF Distinct
  <2>1. \A k \in 1..n : NodesTopics[k] # "leader" /\ NodesTopics[k] # "quorum"
    BY Zenon, <1>1, <1>5, <1>8
  <2> QED BY Zenon, <1>3, <1>8, <1>9, <1>10, <2>1
<1>13. \A t \in T : \E i \in 1..n + 2 : NodesTopics[i] = t
  BY Zenon, <1>4, <1>8, <1>9, <1>11 DEF T
<1>14. \A t \in Topics : t \in {"start", "status"} \/ \E i \in 1..n + 2 : NodesTopics[i] = t
  BY Zenon, <1>13 DEF T, Topics
<1>15. T \subseteq Topics /\ \A i \in 1..Len(NodesTopics) : NodesTopics[i] \in T
  BY Zenon, <1>7, ListType DEF T, Topics
<1>16. NodesTopics \in Seq(Topics)
  BY <1>7, <1>15
<1>17. \A i \in 1..Len(NodesTopics) : NodesTopics[i] \in Node \cup {"leader", "quorum"}
  BY Zenon, <1>15 DEF T
<1> QED
  BY Zenon, <1>8, <1>12, <1>14, <1>16, <1>17

\* pushNotification for each notice of such a list.
LEMMA PushAllTold ==
  ASSUME NEW F, NEW G, Told(notices, F), NEW list, Reports(list, F, G), PushAll(list)
  PROVE  Told(notices', G) /\ Len(notices') <= NoticeLimit
<1> DEFINE m == Len(list)
           d == [i \in 1..m |-> list[m + 1 - i]]
<1>1. m \in Nat /\ DOMAIN list = 1..m /\ \A i \in 1..m : list[i] \in NoticeType
  BY Zenon, ListType DEF Reports
<1>2. \A i \in 1..m : m + 1 - i \in 1..m
  BY <1>1
<1>3. d \in Seq(NoticeType) /\ Len(d) = m /\ \A i \in 1..m : d[i] = list[m + 1 - i]
  BY <1>1, <1>2
<1>4. notices' = Newest(d \o notices)
  BY Zenon, <1>1 DEF PushAll
<1> HIDE DEF d
<1>5. \A i \in 1..Len(d) : ~d[i].read /\ d[i].says = G[d[i].about] /\ G[d[i].about] # F[d[i].about]
  BY <1>2, <1>3 DEF Reports
<1>6. \A i, j \in 1..Len(d) : d[i].about = d[j].about => i = j
  <2> SUFFICES ASSUME NEW i \in 1..m, NEW j \in 1..m, d[i].about = d[j].about PROVE i = j
    BY Zenon, <1>3
  <2>1. list[m + 1 - i].about = list[m + 1 - j].about /\ m + 1 - i \in 1..m /\ m + 1 - j \in 1..m
    BY Zenon, <1>2, <1>3
  <2>2. m + 1 - i = m + 1 - j
    BY Zenon, <2>1 DEF Reports
  <2> QED BY <1>1, <2>2
<1>7. \A t \in Topics : (\A i \in 1..Len(d) : d[i].about # t) => G[t] = F[t]
  <2> SUFFICES ASSUME NEW t \in Topics, \A i \in 1..Len(d) : d[i].about # t PROVE G[t] = F[t]
    BY Zenon
  <2>1. ASSUME NEW i \in 1..m PROVE list[i].about # t
    <3>1. m + 1 - i \in 1..Len(d) /\ m + 1 - (m + 1 - i) = i
      BY <1>1, <1>3
    <3>2. d[m + 1 - i] = list[i]
      BY Zenon, <1>3, <3>1
    <3> QED BY Zenon, <3>1, <3>2
  <2> QED BY Zenon, <2>1 DEF Reports
<1>8. Told(d \o notices, G)
  <2>1. Reports(d, F, G)
    BY Zenon, <1>3, <1>5, <1>6, <1>7 DEF Reports
  <2> QED BY Zenon, <2>1, PushTold
<1> DEFINE u == d \o notices
           n == IF Len(u) < NoticeLimit THEN Len(u) ELSE NoticeLimit
<1> HIDE DEF u
<1>9. Told(u, G) /\ u \in Seq(NoticeType)
  BY Zenon, <1>8 DEF Told, u
<1>10. n \in 0..Len(u) /\ n <= NoticeLimit
  BY <1>9, NoticesAssumption
<1>11. notices' = SubSeq(u, 1, n)
  BY Zenon, <1>4 DEF Newest, u
<1> HIDE DEF n
<1>12. Len(SubSeq(u, 1, n)) = n
  BY Zenon, <1>9, <1>10, FirstOf
<1> QED
  BY Zenon, <1>9, <1>10, <1>11, <1>12, CutTold

\* d has a notice for every fact of the nodes that changed, and no other.
Changes(d, old, new) ==
  /\ d \in Seq(NoticeType)
  /\ \A i \in 1..Len(d) : /\ d[i].about \in Node \cup {"leader", "quorum"} /\ ~d[i].read
                          /\ d[i].says = Fact(d[i].about, new, wsStatus)
                          /\ Fact(d[i].about, new, wsStatus) # Fact(d[i].about, old, wsStatus)
  /\ \A i, j \in 1..Len(d) : d[i].about = d[j].about => i = j
  /\ \A t \in Topics \ {"start", "status"} :
       (\A i \in 1..Len(d) : d[i].about # t) => Fact(t, new, wsStatus) = Fact(t, old, wsStatus)


\* The notices of one run of the nodes effect.
LEMMA DifferencesOf ==
  ASSUME NEW old, NEW new, wsStatus \in Status
  PROVE  Changes(Differences(old, new), old, new)
<1> DEFINE differ == {topic \in Topics : Fact(topic, old, wsStatus) # Fact(topic, new, wsStatus)}
           topics == Filter(NodesTopics, differ)
           T == Node \cup {"leader", "quorum"}
           d == Differences(old, new)
<1>1. T \subseteq Topics /\ \A i \in 1..Len(NodesTopics) : NodesTopics[i] \in T
  BY Zenon, NodesTopicsOf DEF Topics
<1>2. NodesTopics \in Seq(T)
  BY <1>1, NodesTopicsOf
<1>3. d = [i \in DOMAIN topics |-> Notice(topics[i], Fact(topics[i], new, wsStatus))]
  BY Zenon DEF Differences
<1>4. \A t \in differ : t \in Topics /\ Fact(t, old, wsStatus) # Fact(t, new, wsStatus)
  OBVIOUS
<1>5. \A t \in Topics : t \notin differ => Fact(t, new, wsStatus) = Fact(t, old, wsStatus)
  BY Zenon
<1> HIDE DEF d, differ, T
<1>6. /\ topics \in Seq(T) /\ Distinct(topics)
      /\ \A j \in 1..Len(topics) : topics[j] \in differ
      /\ \A i \in 1..Len(NodesTopics) :
           NodesTopics[i] \in differ => \E j \in 1..Len(topics) : topics[j] = NodesTopics[i]
  BY <1>2, FilterOf, NodesTopicsOf
<1> HIDE DEF topics
<1>7. Len(topics) \in Nat /\ DOMAIN topics = 1..Len(topics) /\ \A i \in 1..Len(topics) : topics[i] \in T
  BY Zenon, <1>6, ListType
<1>8. \A i \in 1..Len(topics) : Fact(topics[i], new, wsStatus) \in SUBSET (Topics \cup Status)
  BY Zenon, <1>1, <1>7, FactType
<1>9. \A i \in 1..Len(topics) : Notice(topics[i], Fact(topics[i], new, wsStatus)) \in NoticeType
  BY Zenon, <1>1, <1>7, <1>8 DEF Notice, NoticeType
<1>10. d \in Seq(NoticeType) /\ Len(d) = Len(topics)
  BY <1>3, <1>7, <1>9
<1>11. \A i \in 1..Len(d) : /\ d[i].about = topics[i] /\ d[i].says = Fact(topics[i], new, wsStatus)
                            /\ d[i].read = FALSE
  BY Zenon, <1>3, <1>7, <1>10 DEF Notice
<1>12. \A i \in 1..Len(d) : /\ d[i].about \in T /\ ~d[i].read
                            /\ d[i].says = Fact(d[i].about, new, wsStatus)
                            /\ Fact(d[i].about, new, wsStatus) # Fact(d[i].about, old, wsStatus)
  BY Zenon, <1>4, <1>6, <1>7, <1>10, <1>11
<1>13. ASSUME NEW i \in 1..Len(d), NEW j \in 1..Len(d), d[i].about = d[j].about PROVE i = j
  <2>1. d[i].about = topics[i] /\ d[j].about = topics[j]
    BY <1>11
  <2>2. i \in 1..Len(topics) /\ j \in 1..Len(topics) /\ topics[i] = topics[j]
    BY Zenon, <1>10, <1>13, <2>1
  <2> QED BY Zenon, <1>6, <2>2 DEF Distinct
<1>14. ASSUME NEW t \in Topics \ {"start", "status"}, \A i \in 1..Len(d) : d[i].about # t
       PROVE  Fact(t, new, wsStatus) = Fact(t, old, wsStatus)
  <2>1. PICK i \in 1..Len(NodesTopics) : NodesTopics[i] = t
    BY Zenon, NodesTopicsOf
  <2>2. t \notin differ
    BY <1>6, <1>10, <1>11, <1>14, <2>1
  <2> QED BY Zenon, <1>5, <2>2
<1>15. Changes(d, old, new)
  BY Zenon, <1>10, <1>12, <1>13, <1>14 DEF T, Changes
<1> QED
  BY Zenon, <1>15 DEF d

NoticesStep ==
  \/ (StatusEffect \/ NodesEffect) /\ UNCHANGED wsStatus
  \/ (TogglePanel \/ HidePanel \/ Clear) /\ UNCHANGED wsStatus
  \/ UNCHANGED noticesVars /\ wsStatus' \in Status
  \/ NoticesInit'

\* The nodes effect reports the changes of the nodes.
LEMMA NodesReports ==
  ASSUME wsStatus \in Status
  PROVE  Reports(Differences(prevNodes, nodes), Facts(prevNodes, prevStatus), Facts(nodes, prevStatus))
<1> DEFINE d == Differences(prevNodes, nodes)
           F == Facts(prevNodes, prevStatus)
           G == Facts(nodes, prevStatus)
           T == Node \cup {"leader", "quorum"}
<1>1. /\ d \in Seq(NoticeType)
      /\ \A i \in 1..Len(d) : /\ d[i].about \in T /\ ~d[i].read
                              /\ d[i].says = Fact(d[i].about, nodes, wsStatus)
                              /\ Fact(d[i].about, nodes, wsStatus) # Fact(d[i].about, prevNodes, wsStatus)
      /\ \A i, j \in 1..Len(d) : d[i].about = d[j].about => i = j
      /\ \A t \in Topics \ {"start", "status"} :
           (\A i \in 1..Len(d) : d[i].about # t)
           => Fact(t, nodes, wsStatus) = Fact(t, prevNodes, wsStatus)
  <2>1. Changes(d, prevNodes, nodes)
    BY Zenon, DifferencesOf
  <2> HIDE DEF d
  <2> QED BY Zenon, <2>1 DEF Changes
<1>2. \A t \in T : F[t] = Fact(t, prevNodes, wsStatus) /\ G[t] = Fact(t, nodes, wsStatus) /\ t \in Topics
  <2> SUFFICES ASSUME NEW t \in T
               PROVE  F[t] = Fact(t, prevNodes, wsStatus) /\ G[t] = Fact(t, nodes, wsStatus) /\ t \in Topics
    BY Zenon
  <2>1. t \in Topics /\ F[t] = Fact(t, prevNodes, prevStatus) /\ G[t] = Fact(t, nodes, prevStatus)
    BY Zenon DEF Topics, Facts
  <2>2. ASSUME NEW view PROVE Fact(t, view, prevStatus) = Fact(t, view, wsStatus)
    <3>1. CASE t \in Node
      <4>1. Fact(t, view, prevStatus) = Healthy(view) \cap {t} /\ Fact(t, view, wsStatus) = Healthy(view) \cap {t}
        BY Zenon, <3>1, FactOf
      <4> QED BY <4>1
    <3>2. CASE t \in {"leader", "quorum"}
      BY <3>2, FactOf
    <3> QED BY Zenon, <3>1, <3>2
  <2> QED BY Zenon, <2>1, <2>2
<1>3. \A t \in {"start", "status"} : F[t] = G[t]
  <2>1. "start" \in Topics /\ "status" \in Topics
    BY Zenon DEF Topics
  <2>2. \A view : Fact("start", view, prevStatus) = {"start"} /\ Fact("status", view, prevStatus) = {prevStatus}
    BY FactOf
  <2> QED BY Zenon, <2>1, <2>2 DEF Facts
<1>4. \A t \in Topics : t \in {"start", "status"} \/ t \in T
  BY Zenon DEF Topics
<1> HIDE DEF d, F, G, T
<1>5. \A i \in 1..Len(d) : ~d[i].read /\ d[i].says = G[d[i].about] /\ G[d[i].about] # F[d[i].about]
  BY <1>1, <1>2
<1>6. ASSUME NEW t \in Topics, \A i \in 1..Len(d) : d[i].about # t PROVE G[t] = F[t]
  <2>1. CASE t \in {"start", "status"}
    BY Zenon, <1>3, <2>1
  <2>2. CASE t \notin {"start", "status"}
    BY <1>1, <1>2, <1>4, <1>6, <2>2
  <2> QED BY Zenon, <2>1, <2>2
<1>7. Reports(d, F, G)
  BY Zenon, <1>1, <1>5, <1>6 DEF Reports
<1> QED
  BY Zenon, <1>7 DEF d, F, G

\* The status effect reports the change of the status.
LEMMA StatusReports ==
  ASSUME wsStatus \in Status, prevStatus # wsStatus
  PROVE  Reports(<<Notice("status", {wsStatus})>>, Facts(prevNodes, prevStatus), Facts(prevNodes, wsStatus))
<1> DEFINE x == Notice("status", {wsStatus})
           d == <<x>>
           F == Facts(prevNodes, prevStatus)
           G == Facts(prevNodes, wsStatus)
<1>1. x \in NoticeType /\ x.about = "status" /\ x.says = {wsStatus} /\ ~x.read
  BY Zenon DEF Notice, NoticeType, Topics
<1>2. F["status"] = {prevStatus} /\ G["status"] = {wsStatus}
  BY FactOf DEF Facts, Topics
<1>3. ASSUME NEW t \in Topics, t # "status" PROVE G[t] = F[t]
  <2>1. F[t] = Fact(t, prevNodes, prevStatus) /\ G[t] = Fact(t, prevNodes, wsStatus)
    BY Zenon DEF Facts
  <2>2. CASE t \in Node
    <3>1. /\ Fact(t, prevNodes, prevStatus) = Healthy(prevNodes) \cap {t}
          /\ Fact(t, prevNodes, wsStatus) = Healthy(prevNodes) \cap {t}
      BY Zenon, <2>2, FactOf
    <3> QED BY Zenon, <2>1, <3>1
  <2>3. CASE t \in {"start", "leader", "quorum"}
    <3>1. Fact(t, prevNodes, prevStatus) = Fact(t, prevNodes, wsStatus)
      <4>1. /\ Fact("start", prevNodes, prevStatus) = Fact("start", prevNodes, wsStatus)
            /\ Fact("leader", prevNodes, prevStatus) = Fact("leader", prevNodes, wsStatus)
        BY FactOf
      <4>2. Fact("quorum", prevNodes, prevStatus) = Fact("quorum", prevNodes, wsStatus)
        BY FactOf
      <4> QED BY Zenon, <2>3, <4>1, <4>2
    <3> QED BY Zenon, <2>1, <3>1
  <2> QED BY Zenon, <1>3, <2>2, <2>3 DEF Topics
<1> HIDE DEF x, F, G
<1>4. d \in Seq(NoticeType) /\ Len(d) = 1 /\ d[1] = x
  BY <1>1
<1> HIDE DEF d
<1>5. \A i \in 1..Len(d) : i = 1
  BY <1>4
<1>6. 1 \in 1..Len(d)
  BY <1>4
<1>7. G["status"] # F["status"]
  BY Zenon, <1>2
<1>8. ASSUME NEW i \in 1..Len(d) PROVE ~d[i].read /\ d[i].says = G[d[i].about] /\ G[d[i].about] # F[d[i].about]
  <2>1. d[i] = x
    BY Zenon, <1>4, <1>5
  <2> QED BY Zenon, <1>1, <1>2, <1>7, <2>1
<1>9. ASSUME NEW i \in 1..Len(d), NEW j \in 1..Len(d) PROVE i = j
  BY Zenon, <1>5
<1>10. ASSUME NEW t \in Topics, \A i \in 1..Len(d) : d[i].about # t PROVE G[t] = F[t]
  <2>1. t # "status"
    BY Zenon, <1>1, <1>4, <1>6, <1>10
  <2> QED BY Zenon, <1>3, <2>1
<1>11. Reports(d, F, G)
  BY Zenon, <1>4, <1>8, <1>9, <1>10 DEF Reports
<1> QED
  BY Zenon, <1>11 DEF x, d, F, G

\* The first notices.
LEMMA FirstTold ==
  ASSUME NEW s \in FirstNotices, NEW view, NEW status
  PROVE  Told(s, Facts(view, status)) /\ Len(s) <= NoticeLimit
<1> DEFINE x == Notice("start", {"start"})
           F == Facts(view, status)
<1>1. x \in NoticeType /\ x.about = "start" /\ x.says = {"start"} /\ ~x.read
  BY DEF Notice, NoticeType, Topics
<1>2. F["start"] = {"start"}
  <2>1. "start" \in Topics /\ Fact("start", view, status) = {"start"}
    BY FactOf DEF Topics
  <2> QED BY <2>1 DEF Facts
<1>3. s = <<x>> \/ s = <<x, x>>
  BY Zenon DEF FirstNotices
<1> HIDE DEF x, F
<1>4. s \in Seq(NoticeType) /\ Len(s) \in {1, 2} /\ \A i \in 1..Len(s) : s[i] = x
  <2>1. CASE s = <<x>>
    BY <1>1, <2>1
  <2>2. CASE s = <<x, x>>
    BY <1>1, <2>2
  <2> QED BY Zenon, <1>3, <2>1, <2>2
<1>5. Len(s) <= NoticeLimit
  BY <1>4, NoticesAssumption
<1>6. Told(s, F)
  BY Zenon, <1>1, <1>2, <1>4 DEF Told, Tell, Alternate, UnreadFirst
<1> QED
  BY <1>5, <1>6 DEF F

\* Opening the panel changes nothing but the marks.
LEMMA ReadTold ==
  ASSUME NEW F, Told(notices, F)
  PROVE  Told(AllRead, F) /\ Len(AllRead) = Len(notices)
<1> DEFINE r == AllRead
<1>1. notices \in Seq(NoticeType) /\ Len(notices) \in Nat /\ DOMAIN notices = 1..Len(notices)
  BY ListType DEF Told
<1>2. \A x \in NoticeType : /\ [x EXCEPT !.read = TRUE] \in NoticeType
                            /\ [x EXCEPT !.read = TRUE].about = x.about
                            /\ [x EXCEPT !.read = TRUE].says = x.says
                            /\ [x EXCEPT !.read = TRUE].read
  BY Zenon DEF NoticeType
<1>3. r = [i \in 1..Len(notices) |-> [notices[i] EXCEPT !.read = TRUE]]
  BY <1>1 DEF AllRead
<1> HIDE DEF r
<1>4. \A i \in 1..Len(notices) : /\ r[i] \in NoticeType /\ r[i].read
                                 /\ r[i].about = notices[i].about /\ r[i].says = notices[i].says
  <2> SUFFICES ASSUME NEW i \in 1..Len(notices)
               PROVE  /\ r[i] \in NoticeType /\ r[i].read
                      /\ r[i].about = notices[i].about /\ r[i].says = notices[i].says
    OBVIOUS
  <2>1. notices[i] \in NoticeType /\ r[i] = [notices[i] EXCEPT !.read = TRUE]
    BY Zenon, <1>1, <1>3, ListType
  <2> QED BY Zenon, <1>2, <2>1
<1>5. r \in Seq(NoticeType) /\ Len(r) = Len(notices)
  BY <1>1, <1>3, <1>4
<1>6. \A i \in 1..Len(notices) : \A j \in 1..i - 1 : j \in 1..Len(notices)
  BY <1>1
<1>7. Tell(r, F)
  <2>1. \A i \in 1..Len(notices) : Newly(r, i) => Newly(notices, i)
    BY Zenon, <1>4, <1>6 DEF Newly
  <2> QED BY Zenon, <1>4, <1>5, <2>1 DEF Told, Tell
<1>8. Alternate(r)
  <2> SUFFICES ASSUME NEW i \in 1..Len(notices), NEW j \in 1..Len(notices),
                      i < j, r[i].about = r[j].about, r[i].about # "start",
                      \A k \in i + 1..j - 1 : r[k].about # r[i].about
               PROVE  r[i].says # r[j].says
    BY Zenon, <1>5 DEF Alternate
  <2>1. \A k \in i + 1..j - 1 : k \in 1..Len(notices)
    BY <1>1
  <2>2. \A k \in i + 1..j - 1 : notices[k].about # notices[i].about
    BY Zenon, <1>4, <2>1
  <2>3. notices[i].about = notices[j].about /\ notices[i].about # "start"
    BY Zenon, <1>4
  <2>4. notices[i].says # notices[j].says
    BY Zenon, <2>2, <2>3 DEF Told, Alternate
  <2> QED BY Zenon, <1>4, <2>4
<1>9. UnreadFirst(r)
  BY Zenon, <1>4, <1>5 DEF UnreadFirst
<1> QED
  BY Zenon, <1>5, <1>7, <1>8, <1>9 DEF Told, r

LEMMA NoticesKeepsInv ==
  ASSUME NoticesInv, nodes \in View, nodes' \in View, NoticesStep
  PROVE  NoticesInv'
<1> DEFINE F == Facts(prevNodes, prevStatus)
<1>1. /\ wsStatus \in Status /\ prevStatus \in Status /\ Len(notices) <= NoticeLimit
      /\ panel \in BOOLEAN /\ prevNodes \in View /\ Told(notices, F)
  BY DEF NoticesInv, NoticesTypeOK
<1>2. SUFFICES /\ wsStatus' \in Status /\ prevStatus' \in Status /\ Len(notices') <= NoticeLimit
               /\ panel' \in BOOLEAN /\ prevNodes' \in View /\ Told(notices', Facts(prevNodes', prevStatus'))
  <2>1. \A s : Told(s, Facts(prevNodes', prevStatus')) => s \in Seq(NoticeType)
    BY DEF Told
  <2>2. notices' \in Seq([about : Topics, says : SUBSET (Topics \cup Status), read : BOOLEAN])
    BY Zenon, <1>2, <2>1 DEF NoticeType
  <2>3. NoticesTypeOK'
    BY Zenon, <1>2, <2>2 DEF NoticesTypeOK
  <2> QED BY Zenon, <1>2, <2>3 DEF NoticesInv, Told, Tell, Newly, Alternate, UnreadFirst, Facts, Fact
<1>3. CASE StatusEffect /\ UNCHANGED wsStatus
  <2>1. /\ prevStatus # wsStatus /\ PushAll(<<Notice("status", {wsStatus})>>)
        /\ prevStatus' = wsStatus /\ UNCHANGED <<panel, prevNodes, wsStatus>>
    BY Zenon, <1>3 DEF StatusEffect
  <2>2. Told(notices', Facts(prevNodes, wsStatus)) /\ Len(notices') <= NoticeLimit
    BY Zenon, <1>1, <2>1, StatusReports, PushAllTold
  <2> QED BY Zenon, <1>1, <2>1, <2>2
<1>4. CASE NodesEffect /\ UNCHANGED wsStatus
  <2>1. /\ PushAll(Differences(prevNodes, nodes))
        /\ prevNodes' = nodes /\ UNCHANGED <<panel, prevStatus, wsStatus>>
    BY Zenon, <1>4 DEF NodesEffect
  <2>2. Told(notices', Facts(nodes, prevStatus)) /\ Len(notices') <= NoticeLimit
    BY <1>1, <2>1, NodesReports, PushAllTold
  <2> QED BY Zenon, <1>1, <2>1, <2>2
<1>5. CASE TogglePanel /\ UNCHANGED wsStatus
  <2>1. /\ panel' = ~panel /\ notices' = (IF panel THEN notices ELSE AllRead)
        /\ UNCHANGED <<prevStatus, prevNodes, wsStatus>>
    BY Zenon, <1>5 DEF TogglePanel
  <2>2. Told(notices', F) /\ Len(notices') <= NoticeLimit
    BY Zenon, <1>1, <2>1, ReadTold
  <2> QED BY Zenon, <1>1, <2>1, <2>2
<1>6. CASE HidePanel /\ UNCHANGED wsStatus
  BY Zenon, <1>1, <1>6 DEF HidePanel
<1>7. CASE Clear /\ UNCHANGED wsStatus
  <2>1. notices' = <<>> /\ UNCHANGED <<panel, prevStatus, prevNodes, wsStatus>>
    BY <1>7 DEF Clear
  <2>2. <<>> \in Seq(NoticeType) /\ Len(<<>>) = 0 /\ \A i \in 1..0 : FALSE
    OBVIOUS
  <2>3. Told(<<>>, F) /\ Len(<<>>) <= NoticeLimit
    BY <2>2, NoticesAssumption DEF Told, Tell, Alternate, UnreadFirst
  <2> QED BY Zenon, <1>1, <2>1, <2>3
<1>8. CASE UNCHANGED noticesVars /\ wsStatus' \in Status
  BY <1>1, <1>8 DEF noticesVars
<1>9. CASE NoticesInit'
  <2>1. /\ wsStatus' = "connecting" /\ notices' \in FirstNotices' /\ panel' = FALSE
        /\ prevStatus' = wsStatus' /\ prevNodes' = nodes'
    BY Zenon, <1>9 DEF NoticesInit
  <2>2. notices' \in FirstNotices
    BY Zenon, <2>1 DEF FirstNotices, Notice
  <2>3. Told(notices', Facts(prevNodes', prevStatus')) /\ Len(notices') <= NoticeLimit
    BY <2>2, FirstTold
  <2> QED BY Zenon, <2>1, <2>3 DEF Status
<1> QED
  BY Zenon, <1>3, <1>4, <1>5, <1>6, <1>7, <1>8, <1>9 DEF NoticesStep

\* What the invariant says of the notices is what the properties state.
LEMMA NoticesInvSound ==
  ASSUME NoticesInv
  PROVE  NewestNoticeIsTrue /\ NoticesAlternate /\ UnreadAreNewest
<1> DEFINE F == Facts(prevNodes, prevStatus)
<1>1. notices \in Seq(NoticeType) /\ Tell(notices, F) /\ Alternate(notices) /\ UnreadFirst(notices)
  BY Zenon DEF NoticesInv, Told
<1>2. DOMAIN notices = 1..Len(notices) /\ \A i \in 1..Len(notices) : notices[i].about \in Topics
  <2>1. \A x \in NoticeType : x.about \in Topics
    BY Zenon DEF NoticeType
  <2> QED BY Zenon, <1>1, <2>1, ListType
<1>3. NewestNoticeIsTrue
  <2> SUFFICES ASSUME prevStatus = wsStatus, prevNodes = nodes, NEW i \in 1..Len(notices), IsNewest(i)
               PROVE  notices[i].says = Fact(notices[i].about, nodes, wsStatus)
    BY Zenon, <1>2 DEF NewestNoticeIsTrue
  <2>1. Newly(notices, i)
    BY Zenon DEF IsNewest, Newly
  <2>2. notices[i].says = F[notices[i].about]
    BY Zenon, <1>1, <2>1 DEF Tell
  <2> QED BY Zenon, <1>2, <2>2 DEF Facts
<1>4. NoticesAlternate
  BY Zenon, <1>1, <1>2 DEF Alternate, NoticesAlternate
<1>5. UnreadAreNewest
  BY Zenon, <1>1, <1>2 DEF UnreadFirst, UnreadAreNewest
<1> QED
  BY Zenon, <1>3, <1>4, <1>5

-----------------------------------------------------------------------------
(* The pages together *)

AppInv ==
  /\ StoreTypeOK /\ NoticesInv /\ PaletteInv /\ TraceInv /\ ExplorerInv
  /\ page \in Tab

\* Every step of the console is a step, or none, of each of its parts.
StoreStep ==
  \/ UNCHANGED storeVars
  \/ \E o \in Op, n \in Node : Click(o, n)
  \/ \E a \in Answer : \E i \in DOMAIN calls : Settle(i, a)
  \/ RaftUnmount
  \/ \E view \in View : SetNodes(view) /\ UNCHANGED <<forcedDown, calls, events, clicks, wanted, race>>
  \/ /\ nodes' = FirstView /\ forcedDown' = {} /\ calls' = <<>> /\ events' = <<>>
     /\ wanted' = {} /\ race' = "none" /\ UNCHANGED clicks

\* What a trace sees of the cluster.
LEMMA SeenType == Seen \in Sight
<1>1. HasQuorum(nodes) \in BOOLEAN
  BY DEF HasQuorum
<1> QED
  BY Zenon, <1>1 DEF Seen, Sight


LEMMA StepParts ==
  ASSUME [Next]_vars, AppInv
  PROVE  /\ StoreStep /\ NoticesStep /\ PaletteStep /\ TraceStep /\ ExplorerStep
         /\ page' \in {page, tab, FirstTab}
<1>1. wsStatus \in Status
  BY Zenon DEF AppInv, NoticesInv, NoticesTypeOK
<1>2. CASE UNCHANGED vars
  <2>1. UNCHANGED <<storeVars, wsStatus, noticesVars, paletteVars, traceVars, explorerVars, page>>
    BY Zenon, <1>2 DEF vars, pagesVars
  <2> QED BY Zenon, <1>1, <2>1 DEF StoreStep, NoticesStep, PaletteStep, TraceStep, ExplorerStep
<1>3. CASE HotKey
  <2>1. UNCHANGED <<storeVars, wsStatus, traceVars, explorerVars, page>>
    BY Zenon, <1>3 DEF HotKey, pagesVars
  <2>2. NoticesStep /\ PaletteStep
    BY Zenon, <1>3, <2>1 DEF HotKey, NoticesStep, PaletteStep
  <2> QED BY Zenon, <2>1, <2>2 DEF StoreStep, TraceStep, ExplorerStep
<1>4. CASE Shell
  <2>1. UNCHANGED <<storeVars, wsStatus, noticesVars, traceVars, explorerVars, page>> /\ PaletteNext
    BY Zenon, <1>4 DEF Shell, pagesVars
  <2> QED BY Zenon, <1>1, <2>1 DEF StoreStep, NoticesStep, PaletteStep, TraceStep, ExplorerStep
<1>5. CASE Bell
  <2>1. UNCHANGED <<storeVars, wsStatus, paletteVars, traceVars, explorerVars, page>>
    BY <1>5 DEF Bell, pagesVars
  <2>2. NoticesStep
    BY Zenon, <1>5, <2>1 DEF Bell, NoticesStep
  <2> QED BY Zenon, <2>1, <2>2 DEF StoreStep, PaletteStep, TraceStep, ExplorerStep
<1>6. CASE OnRaft
  <2>1. UNCHANGED <<wsStatus, noticesVars, paletteVars, traceVars, explorerVars, page>>
    BY Zenon, <1>6 DEF OnRaft, pagesVars
  <2>2. StoreStep
    BY Zenon, <1>6 DEF OnRaft, StoreStep
  <2> QED BY Zenon, <1>1, <2>1, <2>2 DEF NoticesStep, PaletteStep, TraceStep, ExplorerStep
<1>7. CASE OnArchitecture
  <2>1. UNCHANGED <<storeVars, wsStatus, noticesVars, paletteVars, explorerVars, page>>
    BY <1>7 DEF OnArchitecture
  <2>2. Seen \in Sight
    BY Zenon, SeenType
  <2>3. TraceStep
    BY Zenon, <1>7, <2>2 DEF OnArchitecture, TraceStep
  <2> QED BY Zenon, <1>1, <2>1, <2>3 DEF StoreStep, NoticesStep, PaletteStep, ExplorerStep
<1>8. CASE OnExplorer
  <2>1. UNCHANGED <<storeVars, wsStatus, noticesVars, paletteVars, traceVars, page>>
    BY Zenon, <1>8 DEF OnExplorer
  <2>2. ExplorerStep
    BY Zenon, <1>8 DEF OnExplorer, ExplorerStep
  <2> QED BY Zenon, <1>1, <2>1, <2>2 DEF StoreStep, NoticesStep, PaletteStep, TraceStep
<1>9. CASE LoadAgain
  <2>1. StoreStep
    BY Zenon, <1>9 DEF LoadAgain, StoreStep
  <2>2. NoticesStep
    BY Zenon, <1>9 DEF LoadAgain, NoticesStep, NoticesInit, FirstNotices, Notice
  <2>3. PaletteStep
    BY Zenon, <1>9 DEF LoadAgain, PaletteStep
  <2>4. TraceStep
    BY Zenon, <1>9 DEF LoadAgain, TraceStep, TraceInit, Idle
  <2>5. ExplorerStep
    BY Zenon, <1>9 DEF LoadAgain, ExplorerStep, ExplorerInit
  <2>6. page' = FirstTab
    BY Zenon, <1>9 DEF LoadAgain
  <2> QED BY Zenon, <2>1, <2>2, <2>3, <2>4, <2>5, <2>6
<1>10. ASSUME NEW view \in GatewayViews, Snapshot(view)
       PROVE  /\ StoreStep /\ NoticesStep /\ PaletteStep /\ TraceStep /\ ExplorerStep
              /\ page' \in {page, tab, FirstTab}
  <2>1. UNCHANGED <<wsStatus, noticesVars, paletteVars, traceVars, explorerVars, page>>
    BY Zenon, <1>10 DEF Snapshot, pagesVars
  <2>2. StoreStep
    BY Zenon, <1>10, AppAssumption DEF Snapshot, StoreStep
  <2> QED BY Zenon, <1>1, <2>1, <2>2 DEF NoticesStep, PaletteStep, TraceStep, ExplorerStep
<1>11. ASSUME NEW s \in Status, SetStatus(s)
       PROVE  /\ StoreStep /\ NoticesStep /\ PaletteStep /\ TraceStep /\ ExplorerStep
              /\ page' \in {page, tab, FirstTab}
  <2>1. UNCHANGED <<storeVars, noticesVars, paletteVars, traceVars, explorerVars, page>> /\ wsStatus' = s
    BY Zenon, <1>11 DEF SetStatus, pagesVars
  <2> QED BY Zenon, <2>1 DEF StoreStep, NoticesStep, PaletteStep, TraceStep, ExplorerStep
<1>12. CASE Effects
  <2>1. UNCHANGED <<storeVars, wsStatus, paletteVars, traceVars, explorerVars, page>>
    BY Zenon, <1>12 DEF Effects, pagesVars
  <2>2. NoticesStep
    BY Zenon, <1>12, <2>1 DEF Effects, NoticesStep
  <2> QED BY Zenon, <2>1, <2>2 DEF StoreStep, PaletteStep, TraceStep, ExplorerStep
<1>13. CASE Swap
  <2>1. UNCHANGED <<wsStatus, noticesVars, paletteVars>> /\ page' = tab
    BY Zenon, <1>13 DEF Swap
  <2>2. StoreStep /\ TraceStep /\ ExplorerStep
    BY Zenon, <1>13 DEF Swap, StoreStep, TraceStep, ExplorerStep
  <2> QED BY Zenon, <1>1, <2>1, <2>2 DEF NoticesStep, PaletteStep
<1>14. CASE Trace
  <2>1. UNCHANGED <<storeVars, wsStatus, noticesVars, paletteVars, explorerVars, page>> /\ TraceProgress
    BY Zenon, <1>14 DEF Trace
  <2> QED BY Zenon, <1>1, <2>1 DEF StoreStep, NoticesStep, PaletteStep, TraceStep, ExplorerStep
<1>15. CASE Answered
  <2>1. UNCHANGED <<storeVars, wsStatus, noticesVars, paletteVars, traceVars, page>> /\ ExplorerProgress
    BY Zenon, <1>15 DEF Answered
  <2> QED BY Zenon, <1>1, <2>1 DEF StoreStep, NoticesStep, PaletteStep, TraceStep, ExplorerStep
<1>16. CASE Settled
  <2>1. UNCHANGED <<wsStatus, noticesVars, paletteVars, traceVars, explorerVars, page>>
    BY Zenon, <1>16 DEF Settled, pagesVars
  <2>2. StoreStep
    BY Zenon, <1>16 DEF Settled, StoreStep
  <2> QED BY Zenon, <1>1, <2>1, <2>2 DEF NoticesStep, PaletteStep, TraceStep, ExplorerStep
<1> QED
  BY Zenon, <1>2, <1>3, <1>4, <1>5, <1>6, <1>7, <1>8, <1>9, <1>10, <1>11, <1>12, <1>13, <1>14, <1>15, <1>16
  DEF Next, Move

\* The store keeps its types under the steps of the pages.
LEMMA StoreKeepsType ==
  ASSUME StoreTypeOK, StoreStep
  PROVE  StoreTypeOK'
<1>1. CASE UNCHANGED storeVars
  BY Zenon, <1>1 DEF storeVars, StoreTypeOK
<1>2. CASE \E o \in Op, n \in Node : Click(o, n)
  BY Zenon, <1>2, ClickType
<1>3. CASE \E a \in Answer : \E i \in DOMAIN calls : Settle(i, a)
  BY Zenon, <1>3, SettleType
<1>4. CASE RaftUnmount
  <2>1. calls \in Seq(Call) /\ Len(calls) \in Nat /\ DOMAIN calls = 1..Len(calls)
    BY ListType DEF StoreTypeOK
  <2>2. \A c \in Call : [c EXCEPT !.mounted = FALSE] \in Call
    BY Zenon DEF Call
  <2>3. calls' = [i \in 1..Len(calls) |-> [calls[i] EXCEPT !.mounted = FALSE]]
    BY <1>4, <2>1 DEF RaftUnmount
  <2>4. \A i \in 1..Len(calls) : [calls[i] EXCEPT !.mounted = FALSE] \in Call
    BY Zenon, <2>1, <2>2, ListType
  <2>5. calls' \in Seq(Call)
    BY <2>1, <2>3, <2>4
  <2>6. events' = <<>> /\ UNCHANGED <<nodes, forcedDown, clicks, wanted, race>>
    BY Zenon, <1>4 DEF RaftUnmount
  <2>7. events' \in Seq(Event) /\ Len(events') <= EventLimit
    BY <2>6, StoreBoundsAssumption
  <2> QED BY Zenon, <2>5, <2>6, <2>7 DEF StoreTypeOK
<1>5. ASSUME NEW view \in View, SetNodes(view), UNCHANGED <<forcedDown, calls, events, clicks, wanted, race>>
      PROVE  StoreTypeOK'
  <2>1. nodes' \in View
    BY Zenon, <1>5, ShownType DEF SetNodes
  <2> QED BY Zenon, <1>5, <2>1 DEF StoreTypeOK
<1>6. ASSUME nodes' = FirstView, forcedDown' = {}, calls' = <<>>, events' = <<>>,
             wanted' = {}, race' = "none", UNCHANGED clicks
      PROVE  StoreTypeOK'
  <2>1. FirstView \in View
    BY Zenon DEF FirstView, View, Shown
  <2>2. calls' \in Seq(Call) /\ events' \in Seq(Event) /\ Len(events') <= EventLimit
    BY <1>6, StoreBoundsAssumption
  <2> QED BY Zenon, <1>6, <2>1, <2>2 DEF StoreTypeOK
<1> QED
  BY Zenon, <1>1, <1>2, <1>3, <1>4, <1>5, <1>6 DEF StoreStep

LEMMA InitApp ==
  ASSUME Init
  PROVE  AppInv
<1>1. StoreTypeOK
  <2>1. FirstView \in View
    BY Zenon DEF FirstView, View, Shown
  <2>2. calls \in Seq(Call) /\ events \in Seq(Event) /\ Len(events) <= EventLimit /\ clicks \in 0..MaxClicks
    BY StoreBoundsAssumption DEF Init, StoreInit
  <2> QED BY Zenon, <2>1, <2>2 DEF Init, StoreInit, StoreTypeOK
<1>2. NoticesInv
  <2>1. /\ wsStatus = "connecting" /\ notices \in FirstNotices /\ panel = FALSE
        /\ prevStatus = wsStatus /\ prevNodes = nodes
    BY Zenon DEF Init, NoticesInit
  <2>2. Told(notices, Facts(prevNodes, prevStatus)) /\ Len(notices) <= NoticeLimit
    BY Zenon, <2>1, FirstTold
  <2>3. notices \in Seq([about : Topics, says : SUBSET (Topics \cup Status), read : BOOLEAN])
    BY Zenon, <2>2 DEF Told, NoticeType
  <2>4. prevNodes \in View
    BY <1>1, <2>1 DEF StoreTypeOK
  <2>5. NoticesTypeOK
    BY Zenon, <2>1, <2>2, <2>3, <2>4 DEF NoticesTypeOK, Status
  <2> QED BY Zenon, <2>2, <2>5 DEF NoticesInv
<1>3. PaletteInv
  <2>1. /\ tab = FirstTab /\ searchOpen = FALSE /\ searchQuery = Blank /\ active = 0
        /\ recents = DefaultRecents /\ collapsed = TRUE /\ corner = "bottom-right"
        /\ storage = [recents |-> <<>>, collapsed |-> <<"true">>, corner |-> <<"bottom-right">>]
    BY Zenon DEF Init, PaletteInit, Missing
  <2>2. "bottom-right" \in Corner
    <3>1. 1 \in DOMAIN Corners /\ Corners[1] = "bottom-right"
      BY DEF Corners
    <3> QED BY Zenon, <3>1 DEF Corner
  <2>3. /\ <<>> \in Seq(Seq(Tab)) /\ <<"true">> \in Seq({"true", "false"}) /\ <<"bottom-right">> \in Seq(Corner)
        /\ <<"true">> # <<>> /\ <<"bottom-right">> # <<>> /\ <<"bottom-right">>[1] = "bottom-right"
    BY <2>2
  <2>4. PaletteTypeOK
    BY Zenon, <2>1, <2>2, <2>3, TabType, PaletteAssumption DEF PaletteTypeOK
  <2>5. PaletteSound
    BY Zenon, <2>1 DEF PaletteSound
  <2>6. recents = LoadRecents /\ collapsed = LoadCollapsed /\ corner = LoadCorner
    BY Zenon, <2>1, <2>2, <2>3 DEF LoadRecents, LoadCollapsed, LoadCorner, Missing
  <2>7. \A i, j \in DOMAIN recents : recents[i] = recents[j] => i = j
    BY <2>1, TabType, ListType DEF Distinct
  <2> QED BY Zenon, <2>4, <2>5, <2>6, <2>7 DEF PaletteInv, StorageIsCurrent
<1>4. TraceInv
  <2>1. keyBlank = FALSE /\ traceRunning = FALSE /\ steps = Idle /\ result = "none" /\ runs = <<>>
    BY DEF Init, TraceInit
  <2>2. runs \in Seq(Run) /\ DOMAIN runs = {}
    BY <2>1
  <2>3. RunIsShown /\ AtRest /\ FlagIsRun
    BY Zenon, <2>1, <2>2 DEF RunIsShown, AtRest, FlagIsRun
  <2>4. TraceTypeOK
    BY Zenon, <2>1, <2>2 DEF TraceTypeOK, Idle
  <2> QED BY Zenon, <2>3, <2>4 DEF TraceInv
<1>5. ExplorerInv
  BY ExplorerAssumption DEF Init, ExplorerInit, ExplorerInv, ExplorerTypeOK, RowsAreTrue, Ops
<1>6. page \in Tab
  BY Zenon, TabType DEF Init
<1> QED
  BY Zenon, <1>1, <1>2, <1>3, <1>4, <1>5, <1>6 DEF AppInv

LEMMA NextApp ==
  ASSUME AppInv, [Next]_vars
  PROVE  AppInv'
<1>1. /\ StoreStep /\ NoticesStep /\ PaletteStep /\ TraceStep /\ ExplorerStep
      /\ page' \in {page, tab, FirstTab}
  BY Zenon, StepParts
<1>2. StoreTypeOK'
  BY Zenon, <1>1, StoreKeepsType DEF AppInv
<1>3. nodes \in View /\ nodes' \in View
  BY Zenon, <1>2 DEF AppInv, StoreTypeOK
<1>4. NoticesInv'
  BY Zenon, <1>1, <1>3, NoticesKeepsInv DEF AppInv
<1>5. PaletteInv'
  BY Zenon, <1>1, PaletteKeepsInv DEF AppInv
<1>6. TraceInv'
  BY Zenon, <1>1, TraceKeepsInv DEF AppInv
<1>7. ExplorerInv'
  BY Zenon, <1>1, ExplorerKeepsInv DEF AppInv
<1>8. page' \in Tab
  BY <1>1, TabType DEF AppInv, PaletteInv, PaletteTypeOK
<1> QED
  BY Zenon, <1>2, <1>4, <1>5, <1>6, <1>7, <1>8 DEF AppInv

\* The invariant that all the theorems below follow from holds of every page,
\* trace, notice and stored list of the console.
THEOREM AppKeepsInv == Spec => []AppInv
<1>1. Init => AppInv
  BY Zenon, InitApp
<1>2. AppInv /\ [Next]_vars => AppInv'
  BY NextApp
<1> QED BY <1>1, <1>2, PTL DEF Spec

\* The variables of App and its views keep their types: the lists stay within
\* the limits their slices set, and every notice is about a known topic.
THEOREM AppTypeCorrect == Spec => []TypeOK
<1>1. AppInv => TypeOK
  BY DEF AppInv, NoticesInv, PaletteInv, TraceInv, ExplorerInv, TypeOK
<1> QED BY <1>1, AppKeepsInv, PTL

\* Once App's two effects have run, the newest notice of every topic says what
\* the console shows.
THEOREM NewestNoticesAreTrue == Spec => []NewestNoticeIsTrue
<1>1. AppInv => NewestNoticeIsTrue
  BY NoticesInvSound DEF AppInv
<1> QED BY <1>1, AppKeepsInv, PTL

\* pushNotification never reports the same thing of a topic twice in a row.
THEOREM NoticesReportChanges == Spec => []NoticesAlternate
<1>1. AppInv => NoticesAlternate
  BY NoticesInvSound DEF AppInv
<1> QED BY <1>1, AppKeepsInv, PTL

\* The unread notices, which the bell counts, are the newest ones.
THEOREM UnreadStayNewest == Spec => []UnreadAreNewest
<1>1. AppInv => UnreadAreNewest
  BY NoticesInvSound DEF AppInv
<1> QED BY <1>1, AppKeepsInv, PTL

\* The palette highlights a line that exists, and opens empty.
THEOREM PaletteStaysSound == Spec => []PaletteSound
<1>1. AppInv => PaletteSound
  BY DEF AppInv, PaletteInv
<1> QED BY <1>1, AppKeepsInv, PTL

\* A reload at any moment reads from local storage what is shown.
THEOREM StorageStaysCurrent == Spec => []StorageIsCurrent
<1>1. AppInv => StorageIsCurrent
  BY DEF AppInv, PaletteInv
<1> QED BY <1>1, AppKeepsInv, PTL

\* The stages of the trace runner are those of one run, in order.
THEOREM StagesShowOneRun == Spec => []StagesAreOneRun
<1>1. AppInv => StagesAreOneRun
  BY TraceInvSound DEF AppInv
<1> QED BY <1>1, AppKeepsInv, PTL

\* traceRunning stands for exactly one run of the view on the screen.
THEOREM RunningIsOneRun == Spec => []FlagIsRun
<1>1. AppInv => FlagIsRun
  BY DEF AppInv, TraceInv
<1> QED BY <1>1, AppKeepsInv, PTL

\* Every row of the explorer shows an answer next to what it answers.
THEOREM RowsStayTrue == Spec => []RowsAreTrue
<1>1. AppInv => RowsAreTrue
  BY DEF AppInv, ExplorerInv
<1> QED BY <1>1, AppKeepsInv, PTL
=============================================================================
