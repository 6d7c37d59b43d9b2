---------------------------- MODULE ConsoleStore ----------------------------
(***************************************************************************)
(* The console's store (frontend/src/store.ts) and the view that drives it *)
(* (RaftView in frontend/src/App.tsx).  killNode and restartNode change    *)
(* the store at once, call the gateway, and put the store back to what it  *)
(* was when they started if the gateway refuses.  The browser runs one     *)
(* handler at a time, but several calls may wait for their answers and     *)
(* snapshots of the cluster keep arriving meanwhile.                       *)
(***************************************************************************)
EXTENDS Naturals, Sequences

CONSTANTS Node,
          FirstNode,   \* the node the store starts out with as leader
          MaxClicks,   \* bound: calls of killNode and restartNode
          EventLimit   \* events the view keeps (30 in the code)

ASSUME FirstNodeAssumption == FirstNode \in Node
ASSUME StoreBoundsAssumption == MaxClicks \in Nat /\ EventLimit \in Nat \ {0}

VARIABLES nodes,        \* the nodes as shown
          forcedDown,   \* forcedDownNodeIds
          calls,        \* calls waiting for their answer, in the order they started
          events,       \* RaftView's log, newest first
          clicks,       \* calls started so far
          wanted,       \* history: what forcedDown is if a refused call undoes itself only
          race          \* history: how calls have overlapped so far

storeVars == <<nodes, forcedDown, calls, events, clicks, wanted, race>>

Shown == [healthy : BOOLEAN, is_leader : BOOLEAN]
View == [Node -> Shown]
Down == [healthy |-> FALSE, is_leader |-> FALSE]
Op == {"kill", "restart"}
\* overtaken: another call started while this one waited; mounted: the view that
\* started it is still there.
Call == [op : Op, id : Node, nodes : View, forced : SUBSET Node,
         overtaken : BOOLEAN, mounted : BOOLEAN]
Event == [op : Op, id : Node, ok : BOOLEAN]
\* What the answer to a call says: ok, else simulated by the gateway, else a
\* detail that shouldUseClientSimulation accepts, else refused.  A fetch that
\* throws is one of the last two.
Answer == {"ok", "simulated", "docker", "refused"}

-----------------------------------------------------------------------------
(* Updates of the store *)

ApplyForcedDown(view, forced) == [n \in Node |-> IF n \in forced THEN Down ELSE view[n]]

\* Mutant: the snapshot is shown as it came.
MutSetNodes(view) == nodes' = view
SetNodes(view) == nodes' = ApplyForcedDown(view, forcedDown)

\* What the call changes at once.
Forced(op, n) == IF op = "kill" THEN forcedDown \cup {n} ELSE forcedDown \ {n}
Optimistic(op, n) == IF op = "kill" THEN [nodes EXCEPT ![n] = Down]
                     ELSE [nodes EXCEPT ![n].healthy = TRUE]

\* The buttons are enabled by what is shown.
Enabled(op, n) == nodes[n].healthy = (op = "kill")

Click(op, n) ==
  /\ clicks < MaxClicks
  /\ Enabled(op, n)
  /\ forcedDown' = Forced(op, n)
  /\ nodes' = Optimistic(op, n)
  /\ calls' = Append([i \in DOMAIN calls |-> [calls[i] EXCEPT !.overtaken = TRUE]],
                     [op |-> op, id |-> n, nodes |-> nodes, forced |-> forcedDown,
                      overtaken |-> FALSE, mounted |-> TRUE])
  /\ clicks' = clicks + 1
  /\ wanted' = IF op = "kill" THEN wanted \cup {n} ELSE wanted \ {n}
  /\ race' = IF calls # <<>> /\ race = "none" THEN "overlap" ELSE race
  /\ UNCHANGED events

Succeeds(a) == a \in {"ok", "simulated", "docker"}

\* Mutant: a call that the console simulates by itself is reported as failed.
MutPush(c, a) ==
  events' = SubSeq(<<[op |-> c.op, id |-> c.id, ok |-> a \in {"ok", "simulated"}]>> \o events,
                   1, IF Len(events) < EventLimit THEN Len(events) + 1 ELSE EventLimit)
\* push, with what the result says; the "simulated" in its wording is left out.
\* (The log's opening line is the first to go when the limit is reached.)
Push(c, a) ==
  events' = SubSeq(<<[op |-> c.op, id |-> c.id, ok |-> Succeeds(a)]>> \o events,
                   1, IF Len(events) < EventLimit THEN Len(events) + 1 ELSE EventLimit)

\* Mutant: only the shown nodes are put back.
MutRollBack(c) == nodes' = c.nodes /\ UNCHANGED forcedDown
\* previous: the whole of both lists, as they were when the call started.
RollBack(c) == nodes' = c.nodes /\ forcedDown' = c.forced

\* The answer to the i-th waiting call.
Settle(i, a) ==
  LET c == calls[i] IN
  /\ IF Succeeds(a) THEN UNCHANGED <<nodes, forcedDown, wanted, race>>
     ELSE /\ RollBack(c)
          /\ wanted' = IF c.id \in c.forced THEN wanted \cup {c.id} ELSE wanted \ {c.id}
          /\ race' = IF c.overtaken THEN "rollback" ELSE race
  /\ calls' = SubSeq(calls, 1, i - 1) \o SubSeq(calls, i + 1, Len(calls))
  /\ IF c.mounted THEN Push(c, a) ELSE UNCHANGED events
  /\ UNCHANGED clicks

\* The view goes, and its log with it; the calls go on.
RaftUnmount ==
  /\ events' = <<>>
  /\ calls' = [i \in DOMAIN calls |-> [calls[i] EXCEPT !.mounted = FALSE]]
  /\ UNCHANGED <<nodes, forcedDown, clicks, wanted, race>>

FirstView == [n \in Node |-> [healthy |-> TRUE, is_leader |-> n = FirstNode]]

StoreInit ==
  /\ nodes = FirstView
  /\ forcedDown = {}
  /\ calls = <<>>
  /\ events = <<>>
  /\ clicks = 0
  /\ wanted = {}
  /\ race = "none"

StoreNext == \/ \E op \in Op, n \in Node : Click(op, n)
             \/ \E a \in Answer : \E i \in DOMAIN calls : Settle(i, a)

-----------------------------------------------------------------------------
(* Properties *)

StoreTypeOK ==
  /\ nodes \in View
  /\ forcedDown \in SUBSET Node
  /\ calls \in Seq(Call)
  /\ events \in Seq(Event) /\ Len(events) <= EventLimit
  /\ clicks \in 0..MaxClicks
  /\ wanted \in SUBSET Node
  /\ race \in {"none", "overlap", "rollback"}

\* A node on the forced-down list is shown down, and not as leader, in every
\* order of clicks, answers, rollbacks and snapshots (store.ts keeps the two
\* lists apart and writes them in six places).
ForcedDownIsShownDown == \A n \in forcedDown : nodes[n] = Down

\* The forced-down list is what the calls that were not refused made of it,
\* unless a call was refused after a later one had started: only then does
\* putting back the whole of the old list undo somebody else's call.
RollbackUndoesOwnCall == race # "rollback" => forcedDown = wanted

\* As long as calls do not overlap, the newest event of a node that reports a
\* success tells whether the node is on the list.
NewestEventIsTrue ==
  race = "none" /\ calls = <<>> =>
    \A n \in Node : \A i \in DOMAIN events :
      /\ events[i].id = n /\ events[i].ok
      /\ \A j \in 1..i - 1 : events[j].id = n => ~events[j].ok
      => (n \in forcedDown) = (events[i].op = "kill")
=============================================================================
