-------------------------------- MODULE Raft --------------------------------
(***************************************************************************)
(* Leader election (src/raft.cpp): RaftNode objects whose broadcasters and *)
(* handlers some transport ties together, every node having all others as  *)
(* peers.  Each method runs under the node's mutex and is one step.  The   *)
(* transport may delay, reorder and lose messages; a vote carries no       *)
(* sender, so requests and replies reach their handler at most once, while *)
(* heartbeats may be repeated.  Time is left out: any timeout may expire.  *)
(* A node's state is in memory only, and a node that restarts is another   *)
(* node: restarts are left out.  last_log_index and last_log_term are      *)
(* assigned nowhere, so log_ok always holds.                               *)
(***************************************************************************)
EXTENDS Naturals, FiniteSets

CONSTANTS Node,     \* a finite set
          Nobody    \* the -1 of voted_for_, not a node

VARIABLES role, term, votedFor,
          votes,        \* votes_received_
          requests,     \* RequestVotes under way, with the node each is for
          replies,      \* replies under way; from is not part of the message
          heartbeats,   \* AppendEntries sent
          counted,      \* history: the nodes whose votes votes_received_ counts
          cast,         \* history: the votes given to nodes not yet elected
          leaders       \* history: the calls of on_become_leader_

local == <<role, term, votedFor, votes, counted>>
vars == <<local, requests, replies, heartbeats, cast, leaders>>

Request == [to : Node, term : Nat, cand : Node]
Reply == [from : Node, to : Node, term : Nat, granted : BOOLEAN]
Elected(n, t) == [node |-> n, term |-> t] \in leaders
Vote(n, c, t) == [node |-> n, cand |-> c, term |-> t]

MajorityCount == Cardinality(Node) \div 2 + 1

Init ==
  /\ role = [n \in Node |-> "follower"]
  /\ term = [n \in Node |-> 0]
  /\ votedFor = [n \in Node |-> Nobody]
  /\ votes = [n \in Node |-> 0]
  /\ counted = [n \in Node |-> {}]
  /\ requests = {} /\ replies = {} /\ heartbeats = {} /\ cast = {} /\ leaders = {}

\* An election timeout in Tick, or a call of StartElection in any role.
StartElection(n) ==
  /\ role' = [role EXCEPT ![n] = "candidate"]
  /\ term' = [term EXCEPT ![n] = @ + 1]
  /\ votedFor' = [votedFor EXCEPT ![n] = n]
  /\ votes' = [votes EXCEPT ![n] = 1]
  /\ counted' = [counted EXCEPT ![n] = {n}]
  /\ requests' = requests \cup {[to |-> m, term |-> term[n] + 1, cand |-> n] : m \in Node \ {n}}
  /\ cast' = cast \cup {Vote(n, n, term[n] + 1)}
  /\ UNCHANGED <<replies, heartbeats, leaders>>

\* Tick of a leader.
Heartbeat(n) ==
  /\ role[n] = "leader"
  /\ heartbeats' = heartbeats \cup {[term |-> term[n], leader |-> n]}
  /\ UNCHANGED <<local, requests, replies, cast, leaders>>

\* The vote of a node for a request, after it moved to the request's term.
Grants(m) == m.term > term[m.to] \/ (m.term = term[m.to] /\ votedFor[m.to] \in {Nobody, m.cand})

OnRequestVote(m) ==
  LET n == m.to IN
  /\ requests' = requests \ {m}
  /\ IF m.term > term[n]
     THEN term' = [term EXCEPT ![n] = m.term] /\ role' = [role EXCEPT ![n] = "follower"]
     ELSE UNCHANGED <<term, role>>
  /\ votedFor' = IF Grants(m) THEN [votedFor EXCEPT ![n] = m.cand] ELSE votedFor
  /\ replies' = replies \cup {[from |-> n, to |-> m.cand, term |-> term'[n], granted |-> Grants(m)]}
  /\ cast' = IF Grants(m) /\ ~Elected(m.cand, m.term)
             THEN cast \cup {Vote(n, m.cand, m.term)} ELSE cast
  /\ UNCHANGED <<votes, counted, heartbeats, leaders>>

\* The part of OnRequestVoteReply that counts.
Count(r) ==
  LET n == r.to IN
  /\ votes' = [votes EXCEPT ![n] = @ + 1]
  /\ counted' = [counted EXCEPT ![n] = @ \cup {r.from}]
  /\ IF votes[n] + 1 >= MajorityCount
     THEN /\ role' = [role EXCEPT ![n] = "leader"]
          /\ leaders' = leaders \cup {[node |-> n, term |-> term[n]]}
     ELSE UNCHANGED <<role, leaders>>
  /\ UNCHANGED <<term, votedFor>>

\* The part that gives up the candidacy.
StepDown(r) ==
  LET n == r.to IN
  /\ term' = [term EXCEPT ![n] = r.term]
  /\ role' = [role EXCEPT ![n] = "follower"]
  /\ votedFor' = [votedFor EXCEPT ![n] = Nobody]
  /\ votes' = [votes EXCEPT ![n] = 0]
  /\ counted' = [counted EXCEPT ![n] = {}]
  /\ UNCHANGED leaders

OnRequestVoteReply(r) ==
  LET n == r.to IN
  /\ replies' = replies \ {r}
  /\ \/ role[n] = "candidate" /\ r.term > term[n] /\ StepDown(r)
     \/ role[n] = "candidate" /\ r.term = term[n] /\ r.granted /\ Count(r)
     \/ /\ role[n] # "candidate" \/ r.term < term[n] \/ (r.term = term[n] /\ ~r.granted)
        /\ UNCHANGED <<local, leaders>>
  /\ UNCHANGED <<requests, heartbeats, cast>>

\* A heartbeat of another node, unless its term is over.
OnAppendEntries(n, h) ==
  /\ h.leader # n /\ h.term >= term[n]
  /\ term' = [term EXCEPT ![n] = h.term]
  /\ role' = [role EXCEPT ![n] = "follower"]
  /\ votedFor' = [votedFor EXCEPT ![n] = h.leader]
  /\ UNCHANGED <<votes, counted, requests, replies, heartbeats, cast, leaders>>

Next == \/ \E n \in Node : StartElection(n) \/ Heartbeat(n)
        \/ \E m \in requests : OnRequestVote(m)
        \/ \E r \in replies : OnRequestVoteReply(r)
        \/ \E n \in Node, h \in heartbeats : OnAppendEntries(n, h)

Spec == Init /\ [][Next]_vars

-----------------------------------------------------------------------------
(* Properties *)

\* In a term at most one node's on_become_leader_ is called.  A node may vote
\* twice in a term: OnAppendEntries sets voted_for_ to the sender, and a request
\* of the sender's that arrives after it is granted.
ElectionSafety == \A l, k \in leaders : l.term = k.term => l.node = k.node

\* on_become_leader_ is called once in a term at most: a node that becomes leader
\* does so in a term in which no node was elected before, itself included.
ElectedOnce ==
  [][\A n \in Node : role[n] # "leader" /\ role'[n] = "leader"
                     => \A l \in leaders : l.term # term'[n]]_vars

\* A leader gives up for a later term only.  OnAppendEntries makes a leader that
\* gets a heartbeat of its own term a follower: nobody sends it one.
LeadsItsTerm ==
  [][\A n \in Node : role[n] = "leader" /\ role'[n] # "leader" => term'[n] > term[n]]_vars
=============================================================================
