----------------------------- MODULE StoreProofs -----------------------------
(***************************************************************************)
(* Lemmas about the console's store that the proofs about the feed         *)
(* (ConsoleProofs) and about the pages (AppProofs) share: what cutting and *)
(* shortening a list leaves, and the types that each operation keeps.      *)
(***************************************************************************)
EXTENDS ConsoleStore, TLAPS

(* Lists *)

\* Domain and elements of a list.
LEMMA ListType ==
  ASSUME NEW S, NEW s \in Seq(S)
  PROVE  Len(s) \in Nat /\ DOMAIN s = 1..Len(s) /\ \A i \in 1..Len(s) : s[i] \in S
  OBVIOUS

\* The first n elements of a list (slice).
LEMMA FirstOf ==
  ASSUME NEW S, NEW s \in Seq(S), NEW n \in 0..Len(s)
  PROVE  /\ SubSeq(s, 1, n) \in Seq(S) /\ Len(SubSeq(s, 1, n)) = n
         /\ \A i \in 1..n : SubSeq(s, 1, n)[i] = s[i]
  OBVIOUS

\* A list in front of another.
LEMMA Joined ==
  ASSUME NEW S, NEW s \in Seq(S), NEW t \in Seq(S)
  PROVE  /\ s \o t \in Seq(S) /\ Len(s \o t) = Len(s) + Len(t)
         /\ \A i \in 1..Len(s) + Len(t) : (s \o t)[i] = IF i <= Len(s) THEN s[i] ELSE t[i - Len(s)]
  OBVIOUS

\* A list with a new element in front, cut at a limit.
LEMMA Pushed ==
  ASSUME NEW S, NEW s \in Seq(S), NEW e \in S, NEW limit \in Nat \ {0}, Len(s) <= limit
  PROVE  LET r == SubSeq(<<e>> \o s, 1, IF Len(s) < limit THEN Len(s) + 1 ELSE limit)
         IN  /\ r \in Seq(S) /\ Len(r) <= limit /\ Len(r) <= Len(s) + 1
             /\ \A i \in 1..Len(r) : r[i] = IF i = 1 THEN e ELSE s[i - 1]
<1> DEFINE u == <<e>> \o s
           k == IF Len(s) < limit THEN Len(s) + 1 ELSE limit
<1>1. u \in Seq(S) /\ Len(u) = Len(s) + 1 /\ \A i \in 1..Len(u) : u[i] = IF i = 1 THEN e ELSE s[i - 1]
  <2>1. <<e>> \in Seq(S) /\ Len(<<e>>) = 1 /\ <<e>>[1] = e
    OBVIOUS
  <2>2. Len(s) \in Nat
    OBVIOUS
  <2> DEFINE f == <<e>>
  <2> HIDE DEF f
  <2>3. f \in Seq(S) /\ Len(f) = 1 /\ f[1] = e
    BY <2>1 DEF f
  <2>4. /\ f \o s \in Seq(S) /\ Len(f \o s) = Len(f) + Len(s)
        /\ \A i \in 1..Len(f) + Len(s) : (f \o s)[i] = IF i <= Len(f) THEN f[i] ELSE s[i - Len(f)]
    BY <2>3, Joined
  <2>5. u = f \o s
    BY DEF f
  <2> HIDE DEF u
  <2> QED BY <2>2, <2>3, <2>4, <2>5
<1>2. k \in 0..Len(u) /\ k <= limit /\ k <= Len(s) + 1
  <2>1. Len(s) \in Nat
    OBVIOUS
  <2> HIDE DEF u
  <2> QED BY <1>1, <2>1
<1> HIDE DEF u, k
<1>3. /\ SubSeq(u, 1, k) \in Seq(S) /\ Len(SubSeq(u, 1, k)) = k
      /\ \A i \in 1..k : SubSeq(u, 1, k)[i] = u[i]
  BY <1>1, <1>2, FirstOf
<1>4. \A i \in 1..k : i \in 1..Len(u)
  BY <1>2
<1>5. /\ SubSeq(u, 1, k) \in Seq(S) /\ Len(SubSeq(u, 1, k)) <= limit /\ Len(SubSeq(u, 1, k)) <= Len(s) + 1
      /\ \A i \in 1..Len(SubSeq(u, 1, k)) : SubSeq(u, 1, k)[i] = IF i = 1 THEN e ELSE s[i - 1]
  BY <1>1, <1>2, <1>3, <1>4
<1> QED BY <1>5 DEF u, k

\* A list without its i-th element.
LEMMA RemoveAt ==
  ASSUME NEW S, NEW s \in Seq(S), NEW i \in 1..Len(s)
  PROVE  LET r == SubSeq(s, 1, i - 1) \o SubSeq(s, i + 1, Len(s))
         IN  /\ r \in Seq(S)
             /\ Len(r) = Len(s) - 1
             /\ \A j \in 1..Len(r) : r[j] = s[IF j < i THEN j ELSE j + 1]
<1> DEFINE a == SubSeq(s, 1, i - 1)
           b == SubSeq(s, i + 1, Len(s))
<1>1. Len(s) \in Nat
  OBVIOUS
<1>2. a \in Seq(S) /\ Len(a) = i - 1 /\ \A j \in 1..i - 1 : a[j] = s[j]
  BY <1>1, FirstOf
<1>3. b \in Seq(S) /\ Len(b) = Len(s) - i /\ \A j \in 1..Len(s) - i : b[j] = s[i + j]
  OBVIOUS
<1> HIDE DEF a, b
<1>4. /\ a \o b \in Seq(S) /\ Len(a \o b) = Len(a) + Len(b)
      /\ \A j \in 1..Len(a) + Len(b) : (a \o b)[j] = IF j <= Len(a) THEN a[j] ELSE b[j - Len(a)]
  BY <1>2, <1>3, Joined
<1>5. Len(a \o b) = Len(s) - 1
  BY <1>1, <1>2, <1>3, <1>4
<1>6. ASSUME NEW j \in 1..Len(s) - 1 PROVE (a \o b)[j] = s[IF j < i THEN j ELSE j + 1]
  <2>1. CASE j < i
    BY <1>1, <1>2, <1>3, <1>4, <2>1
  <2>2. CASE ~(j < i)
    <3>1. j - (i - 1) \in 1..Len(s) - i /\ i + (j - (i - 1)) = j + 1
      BY <1>1, <2>2
    <3>2. b[j - (i - 1)] = s[j + 1]
      BY <1>3, <3>1
    <3>3. (a \o b)[j] = b[j - (i - 1)]
      BY <1>1, <1>2, <1>3, <1>4, <2>2
    <3> QED BY <2>2, <3>2, <3>3
  <2> QED BY <2>1, <2>2
<1>7. /\ a \o b \in Seq(S) /\ Len(a \o b) = Len(s) - 1
      /\ \A j \in 1..Len(a \o b) : (a \o b)[j] = s[IF j < i THEN j ELSE j + 1]
  BY <1>4, <1>5, <1>6
<1> QED BY <1>7 DEF a, b
-----------------------------------------------------------------------------
(* Types *)

\* The parts of the type invariant that a step of the store disturbs.
LEMMA CallType ==
  ASSUME StoreTypeOK, NEW i \in DOMAIN calls
  PROVE  /\ i \in 1..Len(calls) /\ calls[i] \in Call
         /\ calls[i].op \in Op /\ calls[i].id \in Node
         /\ calls[i].nodes \in View /\ calls[i].forced \in SUBSET Node
         /\ calls[i].overtaken \in BOOLEAN /\ calls[i].mounted \in BOOLEAN
<1>1. calls \in Seq(Call)
  BY DEF StoreTypeOK
<1>2. i \in 1..Len(calls) /\ calls[i] \in Call
  BY <1>1, ListType
<1> QED
  BY <1>2 DEF Call

\* A node's line as it is shown after a kill, a restart or a snapshot.
LEMMA ShownType ==
  /\ Down \in Shown
  /\ \A view \in View, n \in Node : [view EXCEPT ![n] = Down] \in View
  /\ \A view \in View, n \in Node : [view EXCEPT ![n].healthy = TRUE] \in View
  /\ \A view \in View : \A forced : ApplyForcedDown(view, forced) \in View
<1>1. Down \in Shown
  BY DEF Down, Shown
<1>2. ASSUME NEW view \in View, NEW n \in Node
      PROVE  [view EXCEPT ![n].healthy = TRUE] \in View
  <2>1. [view[n] EXCEPT !.healthy = TRUE] \in Shown
    BY DEF View, Shown
  <2> QED
    BY <2>1 DEF View
<1> QED
  BY <1>1, <1>2 DEF View, ApplyForcedDown

\* The calls after a click: the others are overtaken, the new one is last.
LEMMA ClickCalls ==
  ASSUME StoreTypeOK, NEW op \in Op, NEW n \in Node, Click(op, n)
  PROVE  /\ calls' \in Seq(Call) /\ Len(calls') = Len(calls) + 1
         /\ \A i \in 1..Len(calls) :
              /\ calls'[i].overtaken
              /\ calls'[i].nodes = calls[i].nodes /\ calls'[i].forced = calls[i].forced
         /\ calls'[Len(calls) + 1] = [op |-> op, id |-> n, nodes |-> nodes, forced |-> forcedDown,
                                      overtaken |-> FALSE, mounted |-> TRUE]
<1> DEFINE marked == [i \in DOMAIN calls |-> [calls[i] EXCEPT !.overtaken = TRUE]]
           new == [op |-> op, id |-> n, nodes |-> nodes, forced |-> forcedDown,
                   overtaken |-> FALSE, mounted |-> TRUE]
<1>1. calls \in Seq(Call) /\ Len(calls) \in Nat /\ DOMAIN calls = 1..Len(calls)
  BY ListType DEF StoreTypeOK
<1>2. new \in Call
  BY DEF StoreTypeOK, Call
<1>3. \A i \in 1..Len(calls) : [calls[i] EXCEPT !.overtaken = TRUE] \in Call
  BY <1>1, CallType DEF Call
<1>4. marked \in Seq(Call) /\ Len(marked) = Len(calls) /\ DOMAIN marked = 1..Len(calls)
  BY <1>1, <1>3
<1>5. calls' = Append(marked, new)
  BY DEF Click
<1>6. /\ calls' \in Seq(Call) /\ Len(calls') = Len(calls) + 1
      /\ \A i \in 1..Len(calls) : calls'[i] = marked[i]
      /\ calls'[Len(calls) + 1] = new
  <2> HIDE DEF marked, new
  <2> QED BY <1>1, <1>2, <1>4, <1>5
<1>7. \A i \in 1..Len(calls) :
         /\ marked[i].overtaken
         /\ marked[i].nodes = calls[i].nodes /\ marked[i].forced = calls[i].forced
  <2> SUFFICES ASSUME NEW i \in 1..Len(calls)
               PROVE  /\ marked[i].overtaken
                      /\ marked[i].nodes = calls[i].nodes /\ marked[i].forced = calls[i].forced
    OBVIOUS
  <2>1. calls[i] \in Call /\ marked[i] = [calls[i] EXCEPT !.overtaken = TRUE]
    BY <1>1, CallType
  <2> QED BY <2>1 DEF Call
<1> QED
  BY <1>6, <1>7

\* The calls after an answer: the i-th is gone.
LEMMA SettleCalls ==
  ASSUME StoreTypeOK, NEW i \in DOMAIN calls, NEW a \in Answer, Settle(i, a)
  PROVE  /\ calls' \in Seq(Call) /\ Len(calls') = Len(calls) - 1 /\ Len(calls) \in Nat
         /\ \A j \in 1..Len(calls') : /\ calls'[j] = calls[IF j < i THEN j ELSE j + 1]
                                      /\ (IF j < i THEN j ELSE j + 1) \in 1..Len(calls)
<1>1. calls \in Seq(Call) /\ i \in 1..Len(calls) /\ Len(calls) \in Nat
  BY CallType, ListType DEF StoreTypeOK
<1>2. calls' = SubSeq(calls, 1, i - 1) \o SubSeq(calls, i + 1, Len(calls))
  BY DEF Settle
<1>3. /\ calls' \in Seq(Call) /\ Len(calls') = Len(calls) - 1
      /\ \A j \in 1..Len(calls') : calls'[j] = calls[IF j < i THEN j ELSE j + 1]
  BY <1>1, <1>2, RemoveAt
<1> QED
  BY <1>1, <1>3

\* The log of events after an answer: the new event is first, and the log
\* stays within its limit.
LEMMA PushType ==
  ASSUME StoreTypeOK, NEW c \in Call, NEW a \in Answer, Push(c, a)
  PROVE  /\ events' \in Seq(Event) /\ Len(events') <= EventLimit /\ Len(events') <= Len(events) + 1
         /\ \A i \in 1..Len(events') :
              events'[i] = IF i = 1 THEN [op |-> c.op, id |-> c.id, ok |-> Succeeds(a)]
                           ELSE events[i - 1]
<1> DEFINE e == [op |-> c.op, id |-> c.id, ok |-> Succeeds(a)]
<1>1. events \in Seq(Event) /\ Len(events) <= EventLimit /\ EventLimit \in Nat \ {0}
  BY StoreBoundsAssumption DEF StoreTypeOK
<1>2. e \in Event
  BY DEF Event, Call, Succeeds
<1>3. events' = SubSeq(<<e>> \o events, 1, IF Len(events) < EventLimit THEN Len(events) + 1 ELSE EventLimit)
  BY DEF Push
<1> HIDE DEF e
<1>4. /\ events' \in Seq(Event) /\ Len(events') <= EventLimit /\ Len(events') <= Len(events) + 1
      /\ \A i \in 1..Len(events') : events'[i] = IF i = 1 THEN e ELSE events[i - 1]
  BY <1>1, <1>2, <1>3, Pushed
<1> QED BY <1>4 DEF e

\* A click keeps the types of the store.
LEMMA ClickType ==
  ASSUME StoreTypeOK, NEW op \in Op, NEW n \in Node, Click(op, n)
  PROVE  StoreTypeOK'
<1>1. nodes' \in View
  BY ShownType DEF Click, Optimistic, StoreTypeOK
<1>2. forcedDown' \in SUBSET Node /\ wanted' \in SUBSET Node
  BY DEF Click, Forced, StoreTypeOK
<1>3. calls' \in Seq(Call)
  BY ClickCalls
<1>4. events' \in Seq(Event) /\ Len(events') <= EventLimit
  BY DEF Click, StoreTypeOK
<1>5. clicks' \in 0..MaxClicks
  BY StoreBoundsAssumption DEF Click, StoreTypeOK
<1>6. race' \in {"none", "overlap", "rollback"}
  BY DEF Click, StoreTypeOK
<1> QED
  BY <1>1, <1>2, <1>3, <1>4, <1>5, <1>6 DEF StoreTypeOK

\* An answer keeps the types of the store.
LEMMA SettleType ==
  ASSUME StoreTypeOK, NEW i \in DOMAIN calls, NEW a \in Answer, Settle(i, a)
  PROVE  StoreTypeOK'
<1>0. /\ calls[i] \in Call /\ calls[i].id \in Node
      /\ calls[i].nodes \in View /\ calls[i].forced \in SUBSET Node
  BY CallType
<1>1. nodes' \in View /\ forcedDown' \in SUBSET Node
  BY <1>0 DEF Settle, RollBack, StoreTypeOK
<1>2. wanted' \in SUBSET Node /\ race' \in {"none", "overlap", "rollback"}
  BY <1>0 DEF Settle, StoreTypeOK
<1>3. calls' \in Seq(Call)
  BY SettleCalls
<1>4. events' \in Seq(Event) /\ Len(events') <= EventLimit
  <2>1. CASE calls[i].mounted
    <3>1. Push(calls[i], a)
      BY <2>1 DEF Settle
    <3> QED BY <1>0, <3>1, PushType
  <2>2. CASE ~calls[i].mounted
    BY <2>2 DEF Settle, StoreTypeOK
  <2> QED BY <2>1, <2>2
<1>5. clicks' \in 0..MaxClicks
  BY DEF Settle, StoreTypeOK
<1> QED
  BY <1>1, <1>2, <1>3, <1>4, <1>5 DEF StoreTypeOK
=============================================================================
