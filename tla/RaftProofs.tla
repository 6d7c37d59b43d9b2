----------------------------- MODULE RaftProofs -----------------------------
(***************************************************************************)
(* Election safety of RaftNode, for any finite set of nodes, any number of *)
(* terms and any order of messages.                                        *)
(***************************************************************************)
EXTENDS Raft, FiniteSetTheorems, TLAPS

-----------------------------------------------------------------------------
(* The inductive invariant *)

Types ==
  /\ role \in [Node -> {"follower", "candidate", "leader"}]
  /\ term \in [Node -> Nat]
  /\ votedFor \in [Node -> Node \cup {Nobody}]
  /\ votes \in [Node -> Nat]
  /\ counted \in [Node -> SUBSET Node]
  /\ requests \subseteq Request
  /\ replies \subseteq Reply
  /\ heartbeats \subseteq [term : Nat, leader : Node]
  /\ cast \subseteq [node : Node, cand : Node, term : Nat]
  /\ leaders \subseteq [node : Node, term : Nat]

\* votes_received_ counts no node twice.
Tally == \A n \in Node : votes[n] = Cardinality(counted[n])

\* A candidate is not elected in its term, and counts votes of its term only.
Candidates ==
  \A n \in Node : role[n] = "candidate" =>
    /\ ~Elected(n, term[n])
    /\ \A m \in counted[n] : Vote(m, n, term[n]) \in cast

\* Nothing is from a term its node has not reached.
Past ==
  /\ \A l \in leaders : l.term <= term[l.node]
  /\ \A v \in cast : v.term <= term[v.node]
  /\ \A r \in replies : r.granted => r.term <= term[r.to]
  /\ \A m \in requests : m.term <= term[m.cand]

\* Leaders and the senders of heartbeats were elected.
Leaders ==
  /\ \A n \in Node : role[n] = "leader" => Elected(n, term[n])
  /\ \A h \in heartbeats : Elected(h.leader, h.term)

\* A node votes once in a term, not counting votes for a node already elected;
\* voted_for_ recalls the vote, or names an elected node.
Ballots ==
  /\ \A v, w \in cast : v.node = w.node /\ v.term = w.term => v.cand = w.cand
  /\ \A v \in cast : v.term = term[v.node] =>
       \/ votedFor[v.node] = v.cand
       \/ votedFor[v.node] \in Node /\ Elected(votedFor[v.node], v.term)

\* A vote under way was cast, unless it is for a node already elected.
Given == \A r \in replies : r.granted => Vote(r.from, r.to, r.term) \in cast \/ Elected(r.to, r.term)

\* A candidate has not counted the votes, and the answers, that are still to come.
Once ==
  /\ \A r \in replies : r.granted /\ r.term = term[r.to] /\ role[r.to] = "candidate"
                        => r.from \notin counted[r.to]
  /\ \A m \in requests : m.term = term[m.cand] /\ role[m.cand] = "candidate"
                         => m.to \notin counted[m.cand]
  /\ \A m \in requests, r \in replies :
       ~(r.granted /\ r.from = m.to /\ r.to = m.cand /\ r.term = m.term)

\* A leader has the votes of a majority.
Majorities ==
  \A l \in leaders : \E Q \in SUBSET Node :
    Cardinality(Q) >= MajorityCount /\ \A n \in Q : Vote(n, l.node, l.term) \in cast

Inv == Types /\ Tally /\ Candidates /\ Past /\ Leaders /\ Ballots /\ Given /\ Once /\ Majorities

-----------------------------------------------------------------------------
(* Majorities *)

\* Two majorities have a node in common.
LEMMA Overlap ==
  ASSUME IsFiniteSet(Node), NEW Q \in SUBSET Node, NEW R \in SUBSET Node,
         Cardinality(Q) >= MajorityCount, Cardinality(R) >= MajorityCount
  PROVE  Q \cap R # {}
<1>1. Cardinality(Node) \in Nat /\ Cardinality(Q) \in Nat /\ Cardinality(R) \in Nat
  BY FS_CardinalityType, FS_Subset
<1>2. Cardinality(Q) + Cardinality(R) > Cardinality(Node)
  BY <1>1 DEF MajorityCount
<1> QED
  BY <1>2, FS_MajoritiesIntersect

\* Two nodes with majorities of the votes of a term are the same.
LEMMA MajorityUnique ==
  ASSUME IsFiniteSet(Node), NEW c, NEW i, NEW j, NEW t,
         \A v, w \in c : v.node = w.node /\ v.term = w.term => v.cand = w.cand,
         \E Q \in SUBSET Node : Cardinality(Q) >= MajorityCount /\ \A n \in Q : Vote(n, i, t) \in c,
         \E Q \in SUBSET Node : Cardinality(Q) >= MajorityCount /\ \A n \in Q : Vote(n, j, t) \in c
  PROVE  i = j
<1>1. PICK Q \in SUBSET Node : Cardinality(Q) >= MajorityCount /\ \A n \in Q : Vote(n, i, t) \in c
  OBVIOUS
<1>2. PICK R \in SUBSET Node : Cardinality(R) >= MajorityCount /\ \A n \in R : Vote(n, j, t) \in c
  OBVIOUS
<1>3. PICK n \in Node : n \in Q /\ n \in R
  BY <1>1, <1>2, Overlap
<1>4. Vote(n, i, t) \in c /\ Vote(n, j, t) \in c
  BY <1>1, <1>2, <1>3
<1> QED
  BY <1>4 DEF Vote

\* The invariant implies the property.
LEMMA InvSafe ==
  ASSUME IsFiniteSet(Node), Inv
  PROVE  ElectionSafety
<1> SUFFICES ASSUME NEW l \in leaders, NEW k \in leaders, l.term = k.term PROVE l.node = k.node
  BY DEF ElectionSafety
<1> QED
  BY Zenon, MajorityUnique DEF Inv, Ballots, Majorities

\* The invariant holds at first.
LEMMA InitInv == Init => Inv
<1> SUFFICES ASSUME Init PROVE Inv
  OBVIOUS
<1>1. Types
  BY DEF Init, Types
<1>2. Tally
  BY FS_EmptySet DEF Init, Tally
<1>3. Candidates /\ Past /\ Leaders /\ Ballots /\ Given /\ Once /\ Majorities
  BY DEF Init, Candidates, Past, Leaders, Ballots, Given, Once, Majorities
<1> QED
  BY <1>1, <1>2, <1>3 DEF Inv

-----------------------------------------------------------------------------
(* Steps *)

\* A candidacy begins in a term in which its node has done nothing yet.
LEMMA StartInv ==
  ASSUME IsFiniteSet(Node), Inv, NEW n \in Node, StartElection(n)
  PROVE  Inv'
<1> DEFINE t == term[n] + 1
           asked == {[to |-> m, term |-> t, cand |-> n] : m \in Node \ {n}}
<1>0. Types /\ Tally /\ Candidates /\ Past /\ Leaders /\ Ballots /\ Given /\ Once /\ Majorities
  BY DEF Inv
<1>t. t \in Nat /\ t > term[n] /\ term[n] \in Nat
  BY <1>0 DEF Types
<1>a. /\ role'[n] = "candidate" /\ term'[n] = t /\ votedFor'[n] = n /\ votes'[n] = 1 /\ counted'[n] = {n}
      /\ \A m \in Node : m # n => /\ role'[m] = role[m] /\ term'[m] = term[m] /\ votedFor'[m] = votedFor[m]
                                  /\ votes'[m] = votes[m] /\ counted'[m] = counted[m]
      /\ requests' = requests \cup asked
      /\ cast' = cast \cup {Vote(n, n, t)}
      /\ replies' = replies /\ heartbeats' = heartbeats /\ leaders' = leaders
  BY <1>0 DEF StartElection, Types
<1>b. \A a \in asked : a.to \in Node /\ a.to # n /\ a.cand = n /\ a.term = t /\ a \in Request
  BY <1>t DEF Request
<1>c. Vote(n, n, t) \in [node : Node, cand : Node, term : Nat]
  BY <1>t DEF Vote
<1>1. Types'
  <2>1. role' \in [Node -> {"follower", "candidate", "leader"}] /\ term' \in [Node -> Nat]
        /\ votedFor' \in [Node -> Node \cup {Nobody}] /\ votes' \in [Node -> Nat]
        /\ counted' \in [Node -> SUBSET Node]
    BY <1>0, <1>t DEF StartElection, Types
  <2>2. requests' \subseteq Request
    BY <1>0, <1>a, <1>b DEF Types
  <2>3. cast' \subseteq [node : Node, cand : Node, term : Nat]
    BY <1>0, <1>a, <1>c DEF Types
  <2> QED BY <1>0, <1>a, <2>1, <2>2, <2>3 DEF Types
<1> HIDE DEF t, asked
<1>m. \A m \in Node : term[m] \in Nat /\ term'[m] \in Nat /\ term[m] <= term'[m]
  <2>1. \A m \in Node : term[m] \in Nat /\ term'[m] \in Nat
    BY <1>0, <1>1 DEF Types
  <2> QED BY <1>a, <1>t, <2>1
<1>2. Tally'
  <2>1. Cardinality({n}) = 1
    BY Zenon, FS_Singleton
  <2> QED BY Zenon, <1>0, <1>a, <2>1 DEF Tally
<1>3. Candidates'
  <2>1. ~Elected(n, t)
    <3> SUFFICES ASSUME Elected(n, t) PROVE FALSE
      OBVIOUS
    <3>1. t <= term[n]
      BY <1>0 DEF Elected, Past
    <3> QED BY <1>t, <3>1
  <2>2. ASSUME NEW m \in Node, role'[m] = "candidate"
        PROVE  [node |-> m, term |-> term'[m]] \notin leaders' /\ \A k \in counted'[m] : Vote(k, m, term'[m]) \in cast'
    BY <1>0, <1>a, <2>1, <2>2 DEF Candidates, Elected
  <2> QED BY <2>2 DEF Candidates, Elected
<1>4. Past'
  <2>1. ASSUME NEW l \in leaders PROVE l.term <= term'[l.node]
    BY <1>0, <1>m DEF Past, Types
  <2>2. ASSUME NEW v \in cast' PROVE v.term <= term'[v.node]
    <3>1. CASE v \in cast
      BY <1>0, <1>m, <3>1 DEF Past, Types
    <3>2. CASE v = Vote(n, n, t)
      <4>1. v.node = n /\ v.term = t
        BY <3>2 DEF Vote
      <4> QED BY <1>a, <1>t, <4>1
    <3> QED BY <1>a, <3>1, <3>2
  <2>3. ASSUME NEW r \in replies, r.granted PROVE r.term <= term'[r.to]
    BY <1>0, <1>m, <2>3 DEF Past, Types, Reply
  <2>4. ASSUME NEW m \in requests' PROVE m.term <= term'[m.cand]
    <3>1. CASE m \in requests
      BY <1>0, <1>m, <3>1 DEF Past, Types, Request
    <3>2. CASE m \in asked
      BY <1>a, <1>b, <1>t, <3>2
    <3> QED BY <1>a, <3>1, <3>2
  <2> QED BY <1>a, <2>1, <2>2, <2>3, <2>4 DEF Past
<1>5. Leaders'
  BY Zenon, <1>0, <1>a DEF Leaders, Elected
<1>6. Ballots'
  <2>0. Vote(n, n, t).node = n /\ Vote(n, n, t).cand = n /\ Vote(n, n, t).term = t
    BY DEF Vote
  <2>1. \A v \in cast : v.node = n => v.term # t
    BY <1>0, <1>t DEF Past, Types
  <2>2. \A v, w \in cast' : v.node = w.node /\ v.term = w.term => v.cand = w.cand
    BY <1>0, <1>a, <2>0, <2>1 DEF Ballots
  <2>3. ASSUME NEW v \in cast', v.term = term'[v.node]
        PROVE  \/ votedFor'[v.node] = v.cand
               \/ votedFor'[v.node] \in Node /\ Elected(votedFor'[v.node], v.term)
    <3>1. CASE v.node = n
      <4>1. v = Vote(n, n, t)
        BY Zenon, <1>a, <2>1, <2>3, <3>1
      <4> QED BY Zenon, <1>a, <2>0, <4>1
    <3>2. CASE v.node # n
      <4>1. v \in cast /\ v.node \in Node
        BY <1>0, <1>a, <2>0, <3>2 DEF Types
      <4> QED BY Zenon, <1>0, <1>a, <2>3, <3>2, <4>1 DEF Ballots
    <3> QED BY Zenon, <3>1, <3>2
  <2> QED BY <1>a, <2>2, <2>3 DEF Ballots, Elected
<1>7. Given'
  BY <1>0, <1>a DEF Given, Elected
<1>8. Once'
  <2>1. \A r \in replies : r.granted /\ r.to = n => r.term # t
    BY <1>0, <1>t DEF Past, Types, Reply
  <2>2. \A m \in requests : m.cand = n => m.term # t
    BY <1>0, <1>t DEF Past, Types, Request
  <2>3. ASSUME NEW r \in replies', r.granted, r.term = term'[r.to], role'[r.to] = "candidate"
        PROVE  r.from \notin counted'[r.to]
    <3>1. r.to \in Node /\ r.to # n
      BY <1>0, <1>a, <2>1, <2>3 DEF Types, Reply
    <3> QED BY <1>0, <1>a, <2>3, <3>1 DEF Once
  <2>4. ASSUME NEW m \in requests', m.term = term'[m.cand], role'[m.cand] = "candidate"
        PROVE  m.to \notin counted'[m.cand]
    <3>1. CASE m \in asked
      BY Zenon, <1>a, <1>b, <3>1
    <3>2. CASE m \in requests
      <4>1. m.cand \in Node /\ m.cand # n
        BY Zenon, <1>0, <1>a, <2>2, <2>4, <3>2 DEF Types, Request
      <4> QED BY Zenon, <1>0, <1>a, <2>4, <3>2, <4>1 DEF Once
    <3> QED BY <1>a, <3>1, <3>2
  <2>5. ASSUME NEW m \in requests', NEW r \in replies'
        PROVE  ~(r.granted /\ r.from = m.to /\ r.to = m.cand /\ r.term = m.term)
    BY <1>0, <1>a, <1>b, <2>1 DEF Once
  <2> QED BY <2>3, <2>4, <2>5 DEF Once
<1>9. Majorities'
  BY <1>0, <1>a DEF Majorities
<1> QED
  BY <1>1, <1>2, <1>3, <1>4, <1>5, <1>6, <1>7, <1>8, <1>9 DEF Inv

\* A heartbeat is sent by an elected node.
LEMMA HeartbeatInv ==
  ASSUME Inv, NEW n \in Node, Heartbeat(n)
  PROVE  Inv'
<1>0. Types /\ Tally /\ Candidates /\ Past /\ Leaders /\ Ballots /\ Given /\ Once /\ Majorities
  BY DEF Inv
<1>1. /\ UNCHANGED <<role, term, votedFor, votes, counted, requests, replies, cast, leaders>>
      /\ heartbeats' = heartbeats \cup {[term |-> term[n], leader |-> n]}
      /\ role[n] = "leader"
  BY DEF Heartbeat, local
<1>2. Types'
  BY <1>0, <1>1 DEF Types
<1>3. Leaders'
  BY <1>0, <1>1 DEF Leaders, Elected
<1>4. Tally' /\ Candidates' /\ Past' /\ Ballots' /\ Given' /\ Once' /\ Majorities'
  BY Zenon, <1>0, <1>1 DEF Tally, Candidates, Past, Ballots, Given, Once, Majorities, Elected
<1> QED
  BY <1>2, <1>3, <1>4 DEF Inv

\* Terms only grow: what is past stays past.
LEMMA PastStays ==
  ASSUME Types, Types', Past, \A m \in Node : term[m] <= term'[m],
         leaders' = leaders, cast' = cast, requests' \subseteq requests, replies' \subseteq replies
  PROVE  Past'
<1>0. \A m \in Node : term[m] \in Nat /\ term'[m] \in Nat
  BY DEF Types
<1>1. \A l \in leaders : l.term <= term'[l.node]
  BY <1>0 DEF Past, Types
<1>2. \A v \in cast : v.term <= term'[v.node]
  BY <1>0 DEF Past, Types
<1>3. \A r \in replies : r.granted => r.term <= term'[r.to]
  BY <1>0 DEF Past, Types, Reply
<1>4. \A m \in requests : m.term <= term'[m.cand]
  BY <1>0 DEF Past, Types, Request
<1> QED
  BY Zenon, <1>1, <1>2, <1>3, <1>4 DEF Past

\* A heartbeat makes a node follow a node that was elected.
LEMMA AppendEntriesInv ==
  ASSUME Inv, NEW n \in Node, NEW h \in heartbeats, OnAppendEntries(n, h)
  PROVE  Inv'
<1>0. Types /\ Tally /\ Candidates /\ Past /\ Leaders /\ Ballots /\ Given /\ Once /\ Majorities
  BY DEF Inv
<1>h. h.term \in Nat /\ h.leader \in Node /\ Elected(h.leader, h.term) /\ term[n] \in Nat /\ term[n] <= h.term
  BY <1>0 DEF Types, Leaders, OnAppendEntries
<1>a. /\ role'[n] = "follower" /\ term'[n] = h.term /\ votedFor'[n] = h.leader
      /\ \A m \in Node : m # n => role'[m] = role[m] /\ term'[m] = term[m] /\ votedFor'[m] = votedFor[m]
      /\ UNCHANGED <<votes, counted, requests, replies, heartbeats, cast, leaders>>
  BY <1>0 DEF OnAppendEntries, Types
<1>1. Types'
  BY Zenon, <1>0, <1>h DEF Types, OnAppendEntries
<1>2. Tally' /\ Given' /\ Majorities'
  BY Zenon, <1>0, <1>a DEF Tally, Given, Majorities, Elected
<1>3. Candidates' /\ Leaders'
  BY <1>0, <1>a DEF Candidates, Leaders, Elected
<1>4. Past'
  <2>1. \A m \in Node : term[m] <= term'[m]
    BY <1>0, <1>a, <1>h DEF Types
  <2> QED BY Zenon, <1>0, <1>1, <1>a, <2>1, PastStays
<1>5. Ballots'
  <2>1. ASSUME NEW v \in cast, v.term = term'[v.node]
        PROVE  \/ votedFor'[v.node] = v.cand
               \/ votedFor'[v.node] \in Node /\ Elected(votedFor'[v.node], v.term)
    BY <1>0, <1>a, <1>h, <2>1 DEF Ballots, Types
  <2> QED BY Zenon, <1>0, <1>a, <2>1 DEF Ballots, Elected
<1>6. Once'
  <2>1. ASSUME NEW r \in replies, r.granted, r.term = term'[r.to], role'[r.to] = "candidate"
        PROVE  r.from \notin counted[r.to]
    <3>1. r.to \in Node
      BY Zenon, <1>0 DEF Types, Reply
    <3> QED BY <1>0, <1>a, <2>1, <3>1 DEF Once
  <2>2. ASSUME NEW m \in requests, m.term = term'[m.cand], role'[m.cand] = "candidate"
        PROVE  m.to \notin counted[m.cand]
    <3>1. m.cand \in Node
      BY <1>0 DEF Types, Request
    <3> QED BY Zenon, <1>0, <1>a, <2>2, <3>1 DEF Once
  <2> QED BY Zenon, <1>0, <1>a, <2>1, <2>2 DEF Once
<1> QED
  BY <1>1, <1>2, <1>3, <1>4, <1>5, <1>6 DEF Inv

\* A request is answered, and removed.
LEMMA RequestVoteInv ==
  ASSUME Inv, Nobody \notin Node, NEW m \in requests, OnRequestVote(m)
  PROVE  Inv'
<1> DEFINE n == m.to
           r0 == [from |-> n, to |-> m.cand, term |-> term'[n], granted |-> Grants(m)]
           v0 == Vote(n, m.cand, m.term)
<1>0. Types /\ Tally /\ Candidates /\ Past /\ Leaders /\ Ballots /\ Given /\ Once /\ Majorities
  BY Zenon DEF Inv
<1>m. n \in Node /\ m.cand \in Node /\ m.term \in Nat /\ term[n] \in Nat /\ Grants(m) \in BOOLEAN
  BY Zenon, <1>0 DEF Types, Request, Grants
<1>a. /\ \A k \in Node : k # n => role'[k] = role[k] /\ term'[k] = term[k] /\ votedFor'[k] = votedFor[k]
      /\ m.term > term[n] => role'[n] = "follower" /\ term'[n] = m.term
      /\ ~(m.term > term[n]) => role'[n] = role[n] /\ term'[n] = term[n]
      /\ Grants(m) => votedFor'[n] = m.cand
      /\ ~Grants(m) => votedFor'[n] = votedFor[n]
      /\ UNCHANGED <<votes, counted, heartbeats, leaders>>
      /\ requests' = requests \ {m} /\ replies' = replies \cup {r0}
  BY <1>0, <1>m DEF OnRequestVote, Types
<1>b. /\ Grants(m) => m.term >= term[n] /\ term'[n] = m.term
      /\ m.term > term[n] => Grants(m)
  BY <1>a, <1>m DEF Grants
<1>c. cast' = cast \/ (cast' = cast \cup {v0} /\ Grants(m) /\ ~Elected(m.cand, m.term))
  BY Zenon DEF OnRequestVote
<1>d. Grants(m) => v0 \in cast' \/ Elected(m.cand, m.term)
  BY DEF OnRequestVote
<1>v. v0.node = n /\ v0.cand = m.cand /\ v0.term = m.term
      /\ v0 \in [node : Node, cand : Node, term : Nat]
  BY Zenon, <1>m DEF Vote
<1>r. r0.from = n /\ r0.to = m.cand /\ r0.term = term'[n] /\ r0.granted = Grants(m)
  BY Zenon
<1>1. Types'
  <2>1. role' \in [Node -> {"follower", "candidate", "leader"}] /\ term' \in [Node -> Nat]
        /\ votedFor' \in [Node -> Node \cup {Nobody}]
    BY Zenon, <1>0, <1>m DEF OnRequestVote, Types
  <2>2. r0 \in Reply
    BY Zenon, <1>m, <2>1 DEF Reply
  <2> HIDE DEF n, r0, v0
  <2> QED BY <1>0, <1>a, <1>c, <1>v, <2>1, <2>2 DEF Types
<1> HIDE DEF n, r0, v0
<1>t. \A k \in Node : term[k] <= term'[k] /\ term[k] \in Nat /\ term'[k] \in Nat
  BY <1>0, <1>1, <1>a DEF Types
<1>2. Tally' /\ Majorities'
  BY Zenon, <1>0, <1>a, <1>c DEF Tally, Majorities
<1>3. Candidates'
  <2>1. ASSUME NEW k \in Node, role'[k] = "candidate" PROVE role[k] = "candidate" /\ term'[k] = term[k]
    BY Zenon, <1>a, <2>1
  <2> QED BY Zenon, <1>0, <1>a, <1>c, <2>1 DEF Candidates, Elected
<1>4. Leaders'
  <2>1. ASSUME NEW k \in Node, role'[k] = "leader" PROVE role[k] = "leader" /\ term'[k] = term[k]
    BY Zenon, <1>a, <2>1
  <2> QED BY Zenon, <1>0, <1>a, <2>1 DEF Leaders, Elected
<1>5. Past'
  <2>1. \A l \in leaders : l.term <= term'[l.node]
    BY <1>0, <1>t DEF Past, Types
  <2>2. \A v \in cast : v.term <= term'[v.node]
    BY <1>0, <1>t DEF Past, Types
  <2>3. \A v \in cast' : v.term <= term'[v.node]
    BY <1>b, <1>c, <1>v, <1>t, <1>m, <2>2
  <2>4. \A r \in replies : r.granted => r.term <= term'[r.to]
    BY <1>0, <1>t DEF Past, Types, Reply
  <2>5. \A k \in requests : k.term <= term'[k.cand]
    BY <1>0, <1>t DEF Past, Types, Request
  <2>6. r0.granted => r0.term <= term'[r0.to]
    BY Zenon, <1>b, <1>r, <2>5
  <2> QED BY Zenon, <1>a, <2>1, <2>3, <2>4, <2>5, <2>6 DEF Past
<1>6. Ballots'
  <2>1. ASSUME NEW v \in cast, v.node = n, v.term = m.term, Grants(m), ~Elected(m.cand, m.term)
        PROVE  v.cand = m.cand
    <3>1. m.term = term[n] /\ votedFor[n] \in {Nobody, m.cand}
      BY <1>0, <1>m, <2>1 DEF Past, Grants, n
    <3>2. votedFor[n] = v.cand \/ (votedFor[n] \in Node /\ Elected(votedFor[n], m.term))
      BY Zenon, <1>0, <2>1, <3>1 DEF Ballots
    <3>3. v.cand \in Node
      BY Zenon, <1>0 DEF Types
    <3> QED BY Zenon, <2>1, <3>1, <3>2, <3>3
  <2>2. \A v, w \in cast' : v.node = w.node /\ v.term = w.term => v.cand = w.cand
    <3>1. \A v, w \in cast : v.node = w.node /\ v.term = w.term => v.cand = w.cand
      BY Zenon, <1>0 DEF Ballots
    <3> QED BY <1>c, <1>v, <2>1, <3>1
  <2>3. ASSUME NEW v \in cast', v.term = term'[v.node]
        PROVE  \/ votedFor'[v.node] = v.cand
               \/ votedFor'[v.node] \in Node /\ Elected(votedFor'[v.node], v.term)
    <3>1. CASE v.node # n
      <4>1. v \in cast /\ v.node \in Node
        BY <1>0, <1>c, <1>v, <3>1 DEF Types
      <4> QED BY Zenon, <1>0, <1>a, <2>3, <3>1, <4>1 DEF Ballots
    <3>2. CASE v.node = n /\ Grants(m)
      <4>1. v.term = m.term /\ votedFor'[n] = m.cand
        BY Zenon, <1>a, <1>b, <2>3, <3>2
      <4>2. CASE Elected(m.cand, m.term)
        BY Zenon, <1>m, <3>2, <4>1, <4>2
      <4>3. CASE ~Elected(m.cand, m.term)
        BY Zenon, <1>c, <1>v, <2>1, <3>2, <4>1, <4>3
      <4> QED BY Zenon, <4>2, <4>3
    <3>3. CASE v.node = n /\ ~Grants(m)
      <4>1. v \in cast /\ term'[n] = term[n] /\ votedFor'[n] = votedFor[n]
        BY Zenon, <1>a, <1>b, <1>c, <3>3
      <4> QED BY Zenon, <1>0, <2>3, <3>3, <4>1 DEF Ballots
    <3> QED BY Zenon, <3>1, <3>2, <3>3
  <2> QED BY Zenon, <1>a, <2>2, <2>3 DEF Ballots, Elected
<1>7. Given'
  <2>1. \A r \in replies : r.granted => Vote(r.from, r.to, r.term) \in cast' \/ Elected(r.to, r.term)
    BY Zenon, <1>0, <1>c DEF Given
  <2>2. r0.granted => Vote(r0.from, r0.to, r0.term) \in cast' \/ Elected(r0.to, r0.term)
    BY Zenon, <1>b, <1>d, <1>r DEF v0
  <2> QED BY Zenon, <1>a, <2>1, <2>2 DEF Given, Elected
<1>8. Once'
  <2>0. ASSUME NEW k \in Node, role'[k] = "candidate" PROVE role[k] = "candidate" /\ term'[k] = term[k]
    BY Zenon, <1>a, <2>0
  <2>1. ASSUME NEW r \in replies', r.granted, r.term = term'[r.to], role'[r.to] = "candidate"
        PROVE  r.from \notin counted[r.to]
    <3>1. CASE r \in replies
      <4>1. r.to \in Node
        BY Zenon, <1>0, <3>1 DEF Types, Reply
      <4> QED BY Zenon, <1>0, <2>0, <2>1, <3>1, <4>1 DEF Once
    <3>2. CASE r = r0
      <4>1. Grants(m) /\ m.term = term[m.cand] /\ role[m.cand] = "candidate"
        BY Zenon, <1>b, <1>m, <1>r, <2>0, <2>1, <3>2
      <4> QED BY Zenon, <1>0, <1>r, <3>2, <4>1 DEF Once, n
    <3> QED BY Zenon, <1>a, <2>1, <3>1, <3>2
  <2>2. ASSUME NEW k \in requests', k.term = term'[k.cand], role'[k.cand] = "candidate"
        PROVE  k.to \notin counted[k.cand]
    <3>1. k \in requests /\ k.cand \in Node
      BY Zenon, <1>0, <1>a DEF Types, Request
    <3> QED BY Zenon, <1>0, <2>0, <2>2, <3>1 DEF Once
  <2>3. ASSUME NEW k \in requests', NEW r \in replies', r.granted,
               r.from = k.to, r.to = k.cand, r.term = k.term
        PROVE  FALSE
    <3>1. k \in requests /\ k # m
      BY Zenon, <1>a
    <3>2. CASE r \in replies
      BY <1>0, <2>3, <3>1, <3>2 DEF Once
    <3>3. CASE r = r0
      <4>1. k.to = m.to /\ k.cand = m.cand /\ k.term = m.term
        BY Zenon, <1>b, <1>r, <2>3, <3>3 DEF n
      <4>2. k \in Request /\ m \in Request
        BY Zenon, <1>0, <3>1 DEF Types
      <4>3. k = m
        BY <4>1, <4>2 DEF Request
      <4> QED BY Zenon, <3>1, <4>3
    <3> QED BY Zenon, <1>a, <3>2, <3>3
  <2> QED BY Zenon, <1>a, <2>1, <2>2, <2>3 DEF Once
<1> QED
  BY Zenon, <1>1, <1>2, <1>3, <1>4, <1>5, <1>6, <1>7, <1>8 DEF Inv

\* A reply that changes nothing but the replies under way.
LEMMA IgnoredInv ==
  ASSUME Inv, replies' \subseteq replies,
         UNCHANGED <<role, term, votedFor, votes, counted, requests, heartbeats, cast, leaders>>
  PROVE  Inv'
<1>0. Types /\ Tally /\ Candidates /\ Past /\ Leaders /\ Ballots /\ Given /\ Once /\ Majorities
  BY Zenon DEF Inv
<1>1. Types'
  BY Zenon, <1>0 DEF Types
<1>2. Tally' /\ Candidates' /\ Past' /\ Leaders' /\ Ballots' /\ Majorities'
  BY Zenon, <1>0 DEF Tally, Candidates, Past, Leaders, Ballots, Majorities, Elected
<1>3. Given' /\ Once'
  BY Zenon, <1>0 DEF Given, Once, Elected
<1> QED BY Zenon, <1>1, <1>2, <1>3 DEF Inv

\* A candidate learns of a later term.
LEMMA StepDownInv ==
  ASSUME Inv, NEW r \in replies, replies' = replies \ {r}, UNCHANGED <<requests, heartbeats, cast>>,
         r.term > term[r.to], StepDown(r)
  PROVE  Inv'
<1> DEFINE n == r.to
<1>0. Types /\ Tally /\ Candidates /\ Past /\ Leaders /\ Ballots /\ Given /\ Once /\ Majorities
  BY DEF Inv
<1>n. n \in Node /\ r.term \in Nat /\ term[n] \in Nat
  BY Zenon, <1>0 DEF Types, Reply
<1>a. /\ role'[n] = "follower" /\ term'[n] = r.term /\ votes'[n] = 0 /\ counted'[n] = {}
      /\ \A m \in Node : m # n => /\ role'[m] = role[m] /\ term'[m] = term[m] /\ votedFor'[m] = votedFor[m]
                                  /\ votes'[m] = votes[m] /\ counted'[m] = counted[m]
      /\ leaders' = leaders
  BY Zenon, <1>0, <1>n DEF StepDown, Types
<1>1. Types'
  BY Zenon, <1>0, <1>n DEF Types, StepDown
<1> HIDE DEF n
<1>2. Tally'
  BY Zenon, <1>0, <1>a, FS_EmptySet DEF Tally
<1>3. Candidates' /\ Leaders' /\ Given' /\ Majorities'
  BY Zenon, <1>0, <1>a DEF Candidates, Leaders, Given, Majorities, Elected
<1>4. Past'
  <2>1. \A m \in Node : term[m] <= term'[m]
    BY <1>0, <1>a, <1>n DEF Types, n
  <2> QED BY Zenon, <1>0, <1>1, <1>a, <2>1, PastStays
<1>5. Ballots'
  <2>1. ASSUME NEW v \in cast, v.term = term'[v.node]
        PROVE  \/ votedFor'[v.node] = v.cand
               \/ votedFor'[v.node] \in Node /\ Elected(votedFor'[v.node], v.term)
    <3>1. v.node \in Node /\ v.term <= term[v.node]
      BY Zenon, <1>0 DEF Types, Past
    <3>2. v.node # n
      BY <1>a, <1>n, <2>1, <3>1 DEF n
    <3> QED BY Zenon, <1>0, <1>a, <2>1, <3>1, <3>2 DEF Ballots
  <2> QED BY Zenon, <1>0, <1>a, <2>1 DEF Ballots, Elected
<1>6. Once'
  <2>1. ASSUME NEW q \in replies, q.granted, q.term = term'[q.to], role'[q.to] = "candidate"
        PROVE  q.from \notin counted'[q.to]
    <3>1. q.to \in Node
      BY Zenon, <1>0 DEF Types, Reply
    <3> QED BY <1>0, <1>a, <2>1, <3>1 DEF Once
  <2>2. ASSUME NEW m \in requests, m.term = term'[m.cand], role'[m.cand] = "candidate"
        PROVE  m.to \notin counted'[m.cand]
    <3>1. m.cand \in Node
      BY <1>0 DEF Types, Request
    <3> QED BY Zenon, <1>0, <1>a, <2>2, <3>1 DEF Once
  <2> QED BY Zenon, <1>0, <1>a, <2>1, <2>2 DEF Once
<1> QED
  BY Zenon, <1>1, <1>2, <1>3, <1>4, <1>5, <1>6 DEF Inv

\* Two votes under way differ in a field.
LEMMA SameReply ==
  ASSUME NEW q \in Reply, NEW r \in Reply, q.granted, r.granted,
         q.from = r.from, q.to = r.to, q.term = r.term
  PROVE  q = r
BY SMT DEF Reply

\* A vote is counted, and may be the one that elects the candidate.
LEMMA CountInv ==
  ASSUME IsFiniteSet(Node), Inv, NEW r \in replies, replies' = replies \ {r},
         UNCHANGED <<requests, heartbeats, cast>>,
         role[r.to] = "candidate", r.term = term[r.to], r.granted, Count(r)
  PROVE  Inv'
<1> DEFINE n == r.to
           won == votes[n] + 1 >= MajorityCount
           l0 == [node |-> n, term |-> term[n]]
<1>0. Types /\ Tally /\ Candidates /\ Past /\ Leaders /\ Ballots /\ Given /\ Once /\ Majorities
  BY Zenon DEF Inv
<1>n. n \in Node /\ r.from \in Node /\ term[n] \in Nat /\ votes[n] \in Nat
  BY Zenon, <1>0 DEF Types, Reply
<1>a. /\ votes'[n] = votes[n] + 1 /\ counted'[n] = counted[n] \cup {r.from}
      /\ \A m \in Node : m # n => role'[m] = role[m] /\ votes'[m] = votes[m] /\ counted'[m] = counted[m]
      /\ won => role'[n] = "leader" /\ leaders' = leaders \cup {l0}
      /\ ~won => role'[n] = role[n] /\ leaders' = leaders
      /\ term' = term /\ votedFor' = votedFor
  BY Zenon, <1>0, <1>n DEF Count, Types
<1>l. l0 \in [node : Node, term : Nat] /\ l0.node = n /\ l0.term = term[n] /\ leaders \subseteq leaders'
  BY Zenon, <1>a, <1>n
<1>1. Types'
  <2>1. /\ role' \in [Node -> {"follower", "candidate", "leader"}] /\ votes' \in [Node -> Nat]
        /\ counted' \in [Node -> SUBSET Node]
    BY <1>0, <1>n DEF Count, Types
  <2> HIDE DEF n, won, l0
  <2> QED BY Zenon, <1>0, <1>a, <1>l, <2>1 DEF Types
<1>e. ~Elected(n, term[n]) /\ Vote(r.from, n, term[n]) \in cast /\ r.from \notin counted[n]
  BY Zenon, <1>0, <1>n DEF Candidates, Given, Once
<1> HIDE DEF n
<1>2. Tally'
  <2>1. IsFiniteSet(counted[n])
    BY <1>0, <1>n, FS_Subset DEF Types
  <2>2. Cardinality(counted[n] \cup {r.from}) = Cardinality(counted[n]) + 1
    BY Zenon, <1>e, <2>1, FS_AddElement
  <2>3. votes'[n] = Cardinality(counted'[n])
    BY Zenon, <1>0, <1>a, <1>n, <2>2 DEF Tally
  <2>4. ASSUME NEW m \in Node, m # n PROVE votes'[m] = Cardinality(counted'[m])
    BY Zenon, <1>0, <1>a, <2>4 DEF Tally
  <2> QED BY Zenon, <2>3, <2>4 DEF Tally
<1>v. \A m \in counted'[n] : Vote(m, n, term[n]) \in cast
  <2>1. role[n] = "candidate"
    BY Zenon DEF n
  <2> QED BY Zenon, <1>0, <1>a, <1>e, <1>n, <2>1 DEF Candidates
<1> HIDE DEF won, l0
<1>3. Candidates'
  <2>1. ASSUME NEW m \in Node, role'[m] = "candidate"
        PROVE  [node |-> m, term |-> term[m]] \notin leaders' /\ \A k \in counted'[m] : Vote(k, m, term[m]) \in cast
    <3>1. CASE m = n
      <4>1. ~won
        BY Zenon, <1>a, <2>1, <3>1
      <4> QED BY Zenon, <1>a, <1>e, <1>v, <3>1, <4>1 DEF Elected
    <3>2. CASE m # n
      <4>1. [node |-> m, term |-> term[m]] # l0
        BY Zenon, <3>2 DEF l0
      <4> QED BY Zenon, <1>0, <1>a, <2>1, <3>2, <4>1 DEF Candidates, Elected
    <3> QED BY Zenon, <3>1, <3>2
  <2> QED BY Zenon, <1>a, <2>1 DEF Candidates, Elected
<1>4. Past'
  <2>1. \A l \in leaders' : l.term <= term[l.node]
    BY <1>0, <1>a, <1>l, <1>n DEF Past
  <2> QED BY Zenon, <1>0, <1>a, <2>1 DEF Past
<1>5. Leaders'
  <2>1. ASSUME NEW m \in Node, role'[m] = "leader" PROVE [node |-> m, term |-> term[m]] \in leaders'
    <3>1. CASE m = n /\ won
      BY Zenon, <1>a, <3>1 DEF l0
    <3>2. CASE ~(m = n /\ won)
      BY <1>0, <1>a, <1>l, <2>1, <3>2 DEF Leaders, Elected
    <3> QED BY Zenon, <3>1, <3>2
  <2> QED BY Zenon, <1>0, <1>a, <1>l, <2>1 DEF Leaders, Elected
<1>6. Ballots' /\ Given'
  BY Zenon, <1>0, <1>a, <1>l DEF Ballots, Given, Elected
<1>7. Once'
  <2>0. role[n] = "candidate" /\ r.term = term[n] /\ r.to = n
    BY DEF n
  <2>1. ASSUME NEW q \in replies', q.granted, q.term = term[q.to], role'[q.to] = "candidate"
        PROVE  q.from \notin counted'[q.to]
    <3>1. q \in replies /\ q # r /\ q \in Reply /\ r \in Reply
      BY Zenon, <1>0 DEF Types
    <3>2. CASE q.to = n
      <4>1. q.from # r.from
        <5> SUFFICES ASSUME q.from = r.from PROVE FALSE
          BY Zenon
        <5>1. q = r
          BY Zenon, <2>0, <2>1, <3>1, <3>2, SameReply
        <5> QED BY <3>1, <5>1
      <4> QED BY <1>0, <1>a, <2>0, <2>1, <3>1, <3>2, <4>1 DEF Once
    <3>3. CASE q.to # n
      <4>1. q.to \in Node
        BY Zenon, <3>1 DEF Reply
      <4> QED BY <1>0, <1>a, <2>1, <3>1, <3>3, <4>1 DEF Once
    <3> QED BY Zenon, <3>2, <3>3
  <2>2. ASSUME NEW m \in requests, m.term = term[m.cand], role'[m.cand] = "candidate"
        PROVE  m.to \notin counted'[m.cand]
    <3>1. m.cand \in Node
      BY Zenon, <1>0 DEF Types, Request
    <3>2. CASE m.cand = n
      <4>1. m.to # r.from
        BY Zenon, <1>0, <2>0, <2>2, <3>2 DEF Once
      <4> QED BY <1>0, <1>a, <2>0, <2>2, <3>2, <4>1 DEF Once
    <3>3. CASE m.cand # n
      BY <1>0, <1>a, <2>2, <3>1, <3>3 DEF Once
    <3> QED BY Zenon, <3>2, <3>3
  <2> QED BY <1>0, <1>a, <2>1, <2>2 DEF Once
<1>8. Majorities'
  <2>1. ASSUME won PROVE \E Q \in SUBSET Node :
                           Cardinality(Q) >= MajorityCount /\ \A m \in Q : Vote(m, l0.node, l0.term) \in cast
    <3>1. counted'[n] \in SUBSET Node
      BY Zenon, <1>1, <1>n DEF Types
    <3>2. Cardinality(counted'[n]) >= MajorityCount
      BY Zenon, <1>2, <1>a, <1>n, <2>1 DEF Tally, won
    <3> QED BY Zenon, <1>l, <1>v, <3>1, <3>2
  <2> QED BY <1>0, <1>a, <2>1 DEF Majorities
<1> QED
  BY Zenon, <1>1, <1>2, <1>3, <1>4, <1>5, <1>6, <1>7, <1>8 DEF Inv

\* A reply is handled, and removed.
LEMMA ReplyInv ==
  ASSUME IsFiniteSet(Node), Inv, NEW r \in replies, OnRequestVoteReply(r)
  PROVE  Inv'
<1>0. replies' = replies \ {r} /\ UNCHANGED <<requests, heartbeats, cast>>
  BY DEF OnRequestVoteReply
<1>1. CASE r.term > term[r.to] /\ StepDown(r)
  BY <1>0, <1>1, StepDownInv
<1>2. CASE role[r.to] = "candidate" /\ r.term = term[r.to] /\ r.granted /\ Count(r)
  BY Zenon, <1>0, <1>2, CountInv
<1>3. CASE UNCHANGED <<local, leaders>>
  BY <1>0, <1>3, IgnoredInv DEF local
<1> QED
  BY <1>1, <1>2, <1>3 DEF OnRequestVoteReply

\* Every step keeps the invariant.
LEMMA NextInv ==
  ASSUME IsFiniteSet(Node), Nobody \notin Node, Inv, [Next]_vars
  PROVE  Inv'
<1>1. CASE UNCHANGED vars
  BY Zenon, <1>1, IgnoredInv DEF vars, local
<1>2. CASE Next
  BY <1>2, StartInv, HeartbeatInv, RequestVoteInv, ReplyInv, AppendEntriesInv DEF Next
<1> QED BY Zenon, <1>1, <1>2

\* At most one node is elected in a term: for every finite set of nodes, every
\* number of terms, and messages that are delayed, reordered and lost at will.
THEOREM OneLeader ==
  ASSUME IsFiniteSet(Node), Nobody \notin Node
  PROVE  Spec => []ElectionSafety
<1>1. Inv /\ [Next]_vars => Inv'
  BY NextInv
<1>2. Inv => ElectionSafety
  BY InvSafe
<1> QED
  BY <1>1, <1>2, InitInv, PTL DEF Spec

-----------------------------------------------------------------------------
(* Becoming a leader, and ceasing to be one *)

\* Who is elected in a term is the only one.
LEMMA ElectedAlone ==
  ASSUME IsFiniteSet(Node), Inv, NEW n, NEW m, NEW t, Elected(n, t), Elected(m, t)
  PROVE  n = m
<1>1. [node |-> n, term |-> t].term = [node |-> m, term |-> t].term
  OBVIOUS
<1>2. [node |-> n, term |-> t].node = [node |-> m, term |-> t].node
  BY Zenon, <1>1, InvSafe DEF ElectionSafety, Elected
<1> QED BY <1>2

\* A node that becomes leader counted the vote that elects it.
LEMMA BecomesLeader ==
  ASSUME Inv, [Next]_vars, NEW n \in Node, role[n] # "leader", role'[n] = "leader"
  PROVE  role[n] = "candidate" /\ term'[n] = term[n] /\ leaders \subseteq leaders'
<1>0. Types
  BY DEF Inv
<1>1. CASE UNCHANGED vars
  BY Zenon, <1>1 DEF vars, local
<1>2. ASSUME NEW m \in Node, StartElection(m) \/ Heartbeat(m) PROVE FALSE
  BY Zenon, <1>0, <1>2 DEF StartElection, Heartbeat, local, Types
<1>3. ASSUME NEW m \in requests, OnRequestVote(m) PROVE FALSE
  BY Zenon, <1>0, <1>3 DEF OnRequestVote, Types
<1>4. ASSUME NEW m \in Node, NEW h \in heartbeats, OnAppendEntries(m, h) PROVE FALSE
  BY Zenon, <1>0, <1>4 DEF OnAppendEntries, Types
<1>5. ASSUME NEW r \in replies, OnRequestVoteReply(r)
      PROVE  role[n] = "candidate" /\ term'[n] = term[n] /\ leaders \subseteq leaders'
  <2>1. CASE StepDown(r)
    BY Zenon, <1>0, <2>1 DEF StepDown, Types
  <2>2. CASE role[r.to] = "candidate" /\ Count(r)
    <3>1. n = r.to
      BY Zenon, <1>0, <2>2 DEF Count, Types
    <3> QED BY Zenon, <2>2, <3>1 DEF Count
  <2>3. CASE UNCHANGED <<local, leaders>>
    BY <2>3 DEF local
  <2> QED BY Zenon, <1>5, <2>1, <2>2, <2>3 DEF OnRequestVoteReply
<1> QED
  BY Zenon, <1>1, <1>2, <1>3, <1>4, <1>5 DEF Next

\* In a term on_become_leader_ is called once at most, of all nodes together: a
\* vote counted late, or again, elects nobody in a term that has its leader.
THEOREM ElectedOncePerTerm ==
  ASSUME IsFiniteSet(Node), Nobody \notin Node
  PROVE  Spec => ElectedOnce
<1>1. Inv /\ [Next]_vars => Inv'
  BY NextInv
<1>2. ASSUME Inv, [Next]_vars, NEW n \in Node, role[n] # "leader", role'[n] = "leader",
             NEW l \in leaders, l.term = term'[n]
      PROVE  FALSE
  <2>1. role[n] = "candidate" /\ term'[n] = term[n] /\ leaders \subseteq leaders'
    BY Zenon, <1>2, BecomesLeader
  <2>2. Inv'
    BY Zenon, <1>2, NextInv
  <2>3. [node |-> n, term |-> term[n]] \in leaders'
    BY Zenon, <1>2, <2>1, <2>2 DEF Inv, Leaders, Elected
  <2>4. \A k, j \in leaders' : k.term = j.term => k.node = j.node
    <3> SUFFICES ASSUME NEW k \in leaders', NEW j \in leaders', k.term = j.term PROVE k.node = j.node
      BY Zenon
    <3> QED BY Zenon, <2>2, MajorityUnique DEF Inv, Ballots, Majorities
  <2>5. l.node = n
    BY Zenon, <1>2, <2>1, <2>3, <2>4
  <2>6. l = [node |-> n, term |-> term[n]]
    <3>1. l \in [node : Node, term : Nat]
      BY Zenon, <1>2 DEF Inv, Types
    <3> QED BY Zenon, <1>2, <2>1, <2>5, <3>1
  <2>7. ~Elected(n, term[n])
    BY Zenon, <1>2, <2>1 DEF Inv, Candidates
  <2> QED BY Zenon, <2>6, <2>7 DEF Elected
<1>3. Inv /\ [Next]_vars
      => [\A n \in Node : role[n] # "leader" /\ role'[n] = "leader"
                          => \A l \in leaders : l.term # term'[n]]_vars
  BY <1>2
<1> QED
  BY <1>1, <1>3, InitInv, PTL DEF Spec, ElectedOnce

\* A leader stays leader of its term: it becomes a follower or a candidate only
\* by moving to a later term, although OnAppendEntries would depose it for any
\* heartbeat of its own term.
THEOREM LeadersLeadTheirTerm ==
  ASSUME IsFiniteSet(Node), Nobody \notin Node
  PROVE  Spec => LeadsItsTerm
<1>1. Inv /\ [Next]_vars => Inv'
  BY Zenon, NextInv
<1>2. ASSUME Inv, [Next]_vars, NEW n \in Node, role[n] = "leader", role'[n] # "leader"
      PROVE  term'[n] > term[n]
  <2>0. Types /\ term[n] \in Nat
    BY Zenon, <1>2 DEF Inv, Types
  <2>1. CASE UNCHANGED vars
    BY <1>2, <2>1 DEF vars, local
  <2>2. ASSUME NEW m \in Node, StartElection(m) PROVE term'[n] > term[n]
    <3>1. n = m
      BY Zenon, <1>2, <2>0, <2>2 DEF StartElection, Types
    <3>2. term'[n] = term[n] + 1
      BY Zenon, <2>0, <2>2, <3>1 DEF StartElection, Types
    <3> QED BY <2>0, <3>2
  <2>3. ASSUME NEW m \in Node, Heartbeat(m) PROVE FALSE
    BY Zenon, <1>2, <2>3 DEF Heartbeat, local
  <2>4. ASSUME NEW m \in requests, OnRequestVote(m) PROVE term'[n] > term[n]
    <3>1. m.term > term[m.to] /\ n = m.to
      BY Zenon, <1>2, <2>0, <2>4 DEF OnRequestVote, Types
    <3> QED BY Zenon, <2>0, <2>4, <3>1 DEF OnRequestVote, Types
  <2>5. ASSUME NEW r \in replies, OnRequestVoteReply(r) PROVE FALSE
    <3>1. CASE role[r.to] = "candidate" /\ (StepDown(r) \/ Count(r))
      <4>1. n # r.to
        BY Zenon, <1>2, <3>1
      <4>2. role' = role \/ \E x : role' = [role EXCEPT ![r.to] = x]
        BY Zenon, <3>1 DEF StepDown, Count
      <4>3. role'[n] = role[n]
        BY Zenon, <2>0, <4>1, <4>2 DEF Types
      <4> QED BY Zenon, <1>2, <4>3
    <3>2. CASE UNCHANGED <<local, leaders>>
      BY <1>2, <3>2 DEF local
    <3> QED BY Zenon, <2>5, <3>1, <3>2 DEF OnRequestVoteReply
  <2>6. ASSUME NEW m \in Node, NEW h \in heartbeats, OnAppendEntries(m, h) PROVE term'[n] > term[n]
    <3>1. n = m
      BY <1>2, <2>0, <2>6 DEF OnAppendEntries, Types
    <3>2. h.leader # n /\ h.term >= term[n] /\ term'[n] = h.term /\ h.term \in Nat
      BY Zenon, <2>0, <2>6, <3>1 DEF OnAppendEntries, Types
    <3>3. Elected(h.leader, h.term) /\ Elected(n, term[n])
      BY Zenon, <1>2 DEF Inv, Leaders
    <3>4. h.term # term[n]
      BY Zenon, <1>2, <3>2, <3>3, ElectedAlone
    <3> QED BY <2>0, <3>2, <3>4
  <2> QED BY Zenon, <1>2, <2>1, <2>2, <2>3, <2>4, <2>5, <2>6 DEF Next
<1>3. Inv /\ [Next]_vars
      => [\A n \in Node : role[n] = "leader" /\ role'[n] # "leader" => term'[n] > term[n]]_vars
  BY <1>2
<1> QED
  BY <1>1, <1>3, InitInv, PTL DEF Spec, LeadsItsTerm
=============================================================================
