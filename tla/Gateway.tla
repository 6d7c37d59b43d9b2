------------------------------- MODULE Gateway -------------------------------
(***************************************************************************)
(* The gateway's cluster manager (gateway/cluster.py) with the handlers    *)
(* and the metrics loop of gateway/main.py: coroutines of one thread that  *)
(* interleave at their awaits.  The loop pings the nodes in turn and       *)
(* chooses a leader; requests go to the leader; kill and restart change    *)
(* nodes meanwhile.  send_frame holds the node's lock across its awaits,   *)
(* but connect, called by restart_node, replaces the connection without    *)
(* it.  What requests carry, metrics and web sockets are left out.         *)
(***************************************************************************)
EXTENDS Naturals, FiniteSetsExt

CONSTANTS Last,         \* the nodes are 1..Last
          MaxCalls,     \* bound: calls of kill_node and restart_node
          MaxRequests,  \* bound: key requests
          MaxFaults     \* bound: nodes that fall silent or die by themselves

ASSUME LastAssumption == Last \in Nat \ {0}
ASSUME GatewayBoundsAssumption == {MaxCalls, MaxRequests, MaxFaults} \subseteq Nat

VARIABLES state,       \* the node itself: "up", "silent" (no answer) or "stopped"
          healthy,     \* meta.healthy
          isLeader,    \* meta.is_leader
          conn,        \* _reader and _writer: "none", "live", or "dead" at the other end
          frame,       \* the send_frame that holds the node's lock
          leaderId,    \* _leader_id
          forcedDown,  \* _forced_down
          loop,        \* metrics_loop: the node it pings, 0 while it sleeps, and how far
          request,     \* the node a request is for, 0 if none is under way
          restarts,    \* restart_node calls on their way to connect
          calls, requests, faults

flags == <<healthy, isLeader, leaderId>>
vars == <<state, flags, conn, frame, forcedDown, loop, request, restarts, calls, requests, faults>>

Node == 1..Last
\* by: who sends; fresh: the reader it reads from is still the node's reader;
\* link: that reader's connection.
Frame == [stage : {"free", "connect", "header", "arrived", "torn", "closing"},
          by : {"loop", "request"}, fresh : BOOLEAN, link : {"live", "dead"}]
Free == [stage |-> "free", by |-> "loop", fresh |-> TRUE, link |-> "live"]
Sleeping == [at |-> 0, pc |-> "check"]

-----------------------------------------------------------------------------
(* The leader *)

\* Mutant: a leader stays leader.
MutChosen(h) == leaderId
Chosen(h) == LET ids == {n \in Node : h[n]}
             IN  IF ids = {} \/ leaderId \in ids THEN leaderId ELSE Min(ids)
\* _elect_leader, when the nodes' health is h.
ElectLeader(h) ==
  /\ leaderId' = Chosen(h)
  /\ isLeader' = [n \in Node |-> n = leaderId' /\ h[n]]

-----------------------------------------------------------------------------
(* Who sends *)

\* Mutant: the loop goes one node too far.
MutNextPing(n, h) ==
  IF n > Last THEN loop' = Sleeping /\ ElectLeader(h)
  ELSE loop' = [at |-> n + 1, pc |-> "check"] /\ UNCHANGED <<leaderId, isLeader>>
\* The loop is done with node n: the next ping, or after the last one the
\* choice of a leader.
NextPing(n, h) ==
  IF n = Last THEN loop' = Sleeping /\ ElectLeader(h)
  ELSE loop' = [at |-> n + 1, pc |-> "check"] /\ UNCHANGED <<leaderId, isLeader>>

\* send_frame returns, or raises, to its caller; ping sets the health again.
Finish(n, ok) ==
  /\ frame' = [frame EXCEPT ![n] = Free]
  /\ healthy' = [healthy EXCEPT ![n] = ok]
  /\ IF frame[n].by = "loop" THEN NextPing(n, healthy') /\ UNCHANGED request
     ELSE request' = 0 /\ UNCHANGED <<loop, leaderId, isLeader>>

RoundStart ==
  /\ loop = Sleeping
  /\ loop' = [at |-> 1, pc |-> "check"]
  /\ UNCHANGED <<state, flags, conn, frame, forcedDown, request, restarts, calls, requests, faults>>

\* ping of a node that is forced down, or that is about to be sent to.
PingStart ==
  /\ loop.at # 0 /\ loop.pc = "check"
  /\ IF loop.at \in forcedDown
     THEN /\ healthy' = [healthy EXCEPT ![loop.at] = FALSE]
          /\ IF loop.at = Last THEN NextPing(loop.at, healthy')
             ELSE /\ loop' = [at |-> loop.at + 1, pc |-> "check"]
                  /\ isLeader' = [isLeader EXCEPT ![loop.at] = FALSE]
                  /\ UNCHANGED leaderId
     ELSE loop' = [loop EXCEPT !.pc = "lock"] /\ UNCHANGED flags
  /\ UNCHANGED <<state, conn, frame, forcedDown, request, restarts, calls, requests, faults>>

\* A request for the leader (set, delete, scan) or for a given node (get).
Request ==
  /\ request = 0
  /\ requests < MaxRequests
  /\ requests' = requests + 1
  /\ \/ ElectLeader(healthy) /\ request' = leaderId'
     \/ request' \in Node /\ UNCHANGED <<leaderId, isLeader>>
  /\ UNCHANGED <<state, healthy, conn, frame, forcedDown, loop, restarts, calls, faults>>

-----------------------------------------------------------------------------
(* send_frame *)

\* The lock is taken; the frame is written unless a connection is needed first.
Acquire(n, by) ==
  /\ frame[n].stage = "free"
  /\ IF by = "loop" THEN loop = [at |-> n, pc |-> "lock"] /\ loop' = [loop EXCEPT !.pc = "held"]
     ELSE request = n /\ UNCHANGED loop
  /\ frame' = [frame EXCEPT ![n] =
                 IF conn[n] = "none" \/ ~healthy[n] THEN [Free EXCEPT !.stage = "connect", !.by = by]
                 ELSE [Free EXCEPT !.stage = "header", !.by = by, !.link = conn[n]]]
  /\ UNCHANGED <<state, flags, conn, forcedDown, request, restarts, calls, requests, faults>>

\* Mutant: a failed connect keeps the flag of an earlier success.
MutConnectFlags(n) ==
  /\ conn' = [conn EXCEPT ![n] = IF state[n] = "up" THEN "live" ELSE "none"]
  /\ healthy' = [healthy EXCEPT ![n] = @ \/ state[n] = "up"]
\* connect sets both, when it is done.
ConnectFlags(n) ==
  /\ conn' = [conn EXCEPT ![n] = IF state[n] = "up" THEN "live" ELSE "none"]
  /\ healthy' = [healthy EXCEPT ![n] = state[n] = "up"]

\* connect inside send_frame, and the write that follows.
FrameConnect(n) ==
  /\ frame[n].stage = "connect"
  /\ IF state[n] = "up"
     THEN /\ ConnectFlags(n)
          /\ frame' = [frame EXCEPT ![n] = [Free EXCEPT !.stage = "header", !.by = frame[n].by]]
          /\ UNCHANGED <<loop, request, leaderId, isLeader>>
     ELSE /\ conn' = [conn EXCEPT ![n] = "none"]
          /\ Finish(n, FALSE)
  /\ UNCHANGED <<state, forcedDown, restarts, calls, requests, faults>>

\* The answer has arrived at the reader the frame waits on.
FrameArrives(n) ==
  /\ frame[n].stage = "header" /\ frame[n].link = "live" /\ state[n] = "up"
  /\ frame' = [frame EXCEPT ![n].stage = "arrived"]
  /\ UNCHANGED <<state, flags, conn, forcedDown, loop, request, restarts, calls, requests, faults>>

\* send_frame goes on: the header is from that reader, the body is read from the
\* reader that is there by now.
FrameAnswer(n) ==
  /\ frame[n].stage = "arrived"
  /\ IF frame[n].fresh THEN Finish(n, TRUE)
     ELSE /\ frame' = [frame EXCEPT ![n].stage = IF conn[n] = "none" THEN "closing" ELSE "torn",
                                    ![n].link = IF conn[n] = "dead" THEN "dead" ELSE "live"]
          /\ UNCHANGED <<flags, loop, request>>
  /\ UNCHANGED <<state, conn, forcedDown, restarts, calls, requests, faults>>

\* Mutant: without the timeout.
MutNoAnswer(n) == frame[n].stage = "header" /\ frame[n].link = "dead"
\* The header does not come: the connection ended, or the timeout.
NoAnswer(n) == frame[n].stage = "header" /\ (frame[n].link = "dead" \/ state[n] = "silent")
\* Mutant: the caller goes on while the connection is being closed.
MutFrameFails(n) ==
  /\ NoAnswer(n) \/ (frame[n].stage = "torn" /\ frame[n].link = "dead")
  /\ frame' = [frame EXCEPT ![n].stage = "closing"]
  /\ IF frame[n].by = "loop" THEN NextPing(n, healthy) /\ UNCHANGED request
     ELSE request' = 0 /\ UNCHANGED <<loop, leaderId, isLeader>>
  /\ UNCHANGED <<state, healthy, conn, forcedDown, restarts, calls, requests, faults>>
\* The read fails; reading a body has no timeout, and ends only with its connection.
FrameFails(n) ==
  /\ NoAnswer(n) \/ (frame[n].stage = "torn" /\ frame[n].link = "dead")
  /\ frame' = [frame EXCEPT ![n].stage = "closing"]
  /\ UNCHANGED <<state, flags, conn, forcedDown, loop, request, restarts, calls, requests, faults>>

\* close, once wait_closed returned: whatever connection is there by now goes.
FrameClosed(n) ==
  /\ frame[n].stage = "closing"
  /\ conn' = [conn EXCEPT ![n] = "none"]
  /\ Finish(n, FALSE)
  /\ UNCHANGED <<state, forcedDown, restarts, calls, requests, faults>>

-----------------------------------------------------------------------------
(* The nodes, and the handlers that change them *)

\* Connections to a node that stops end.
Stop(n) ==
  /\ state' = [state EXCEPT ![n] = "stopped"]
  /\ conn' = [conn EXCEPT ![n] = IF @ = "live" THEN "dead" ELSE @]
  /\ frame' = [frame EXCEPT ![n].link = IF frame[n].stage \in {"header", "torn"} THEN "dead" ELSE @]

\* kill_node: docker stops the container, or the node is forced down.
Kill(n) ==
  /\ calls < MaxCalls
  /\ calls' = calls + 1
  /\ \/ Stop(n) /\ UNCHANGED forcedDown
     \/ forcedDown' = forcedDown \cup {n} /\ UNCHANGED <<state, conn, frame>>
  /\ healthy' = [healthy EXCEPT ![n] = FALSE]
  /\ ElectLeader(healthy')
  /\ UNCHANGED <<loop, request, restarts, requests, faults>>

\* restart_node, up to its sleep.
Restart(n) ==
  /\ calls < MaxCalls
  /\ calls' = calls + 1
  /\ state' \in {state, [state EXCEPT ![n] = IF @ = "stopped" THEN "up" ELSE @]}
  /\ forcedDown' = forcedDown \ {n}
  /\ restarts' = [restarts EXCEPT ![n] = @ + 1]
  /\ UNCHANGED <<flags, conn, frame, loop, request, requests, faults>>

\* The rest of it: connect, without the lock, and the choice of a leader.  The
\* old writer is collected, which ends the connection a frame waits on.
RestartConnects(n) ==
  /\ restarts[n] > 0
  /\ restarts' = [restarts EXCEPT ![n] = @ - 1]
  /\ ConnectFlags(n)
  /\ frame' = [frame EXCEPT ![n].fresh = @ /\ frame[n].stage # "arrived",
                            ![n].link = IF frame[n].stage = "header" THEN "dead" ELSE @]
  /\ ElectLeader(healthy')
  /\ UNCHANGED <<state, forcedDown, loop, request, calls, requests, faults>>

\* A node dies, falls silent or comes back by itself.
Fault(n) ==
  /\ faults < MaxFaults
  /\ faults' = faults + 1
  /\ \/ Stop(n)
     \/ state[n] = "up" /\ state' = [state EXCEPT ![n] = "silent"] /\ UNCHANGED <<conn, frame>>
     \/ state[n] = "silent" /\ state' = [state EXCEPT ![n] = "up"] /\ UNCHANGED <<conn, frame>>
  /\ UNCHANGED <<flags, forcedDown, loop, request, restarts, calls, requests>>

-----------------------------------------------------------------------------
\* After startup: the nodes that are up are connected, and a leader is chosen.
Init ==
  /\ state \in [Node -> {"up", "stopped"}]
  /\ healthy = [n \in Node |-> state[n] = "up"]
  /\ conn = [n \in Node |-> IF healthy[n] THEN "live" ELSE "none"]
  /\ leaderId = IF \E n \in Node : healthy[n] THEN Min({n \in Node : healthy[n]}) ELSE 1
  /\ isLeader = [n \in Node |-> n = leaderId /\ healthy[n]]
  /\ frame = [n \in Node |-> Free]
  /\ forcedDown = {}
  /\ loop = Sleeping /\ request = 0 /\ restarts = [n \in Node |-> 0]
  /\ calls = 0 /\ requests = 0 /\ faults = 0

SendFrame(n) == FrameConnect(n) \/ FrameArrives(n) \/ FrameAnswer(n) \/ FrameFails(n) \/ FrameClosed(n)

Next == \/ RoundStart \/ PingStart \/ Request
        \/ \E n \in Node : \/ \E by \in {"loop", "request"} : Acquire(n, by)
                           \/ SendFrame(n)
                           \/ Kill(n) \/ Restart(n) \/ RestartConnects(n) \/ Fault(n)

\* The event loop runs every coroutine that can go on, and sleeps end.
Spec == /\ Init /\ [][Next]_vars
        /\ WF_vars(RoundStart) /\ WF_vars(PingStart)
        /\ \A n \in Node : /\ WF_vars(Acquire(n, "loop")) /\ WF_vars(Acquire(n, "request"))
                           /\ WF_vars(SendFrame(n)) /\ WF_vars(RestartConnects(n))

-----------------------------------------------------------------------------
(* Properties *)

\* Every variable has its type.
TypeOK ==
  /\ state \in [Node -> {"up", "silent", "stopped"}]
  /\ {healthy, isLeader} \subseteq [Node -> BOOLEAN]
  /\ conn \in [Node -> {"none", "live", "dead"}]
  /\ frame \in [Node -> Frame]
  /\ leaderId \in Node /\ forcedDown \subseteq Node
  /\ loop.at \in 0..Last /\ loop.pc \in {"check", "lock", "held"}
  /\ request \in 0..Last /\ restarts \in [Node -> 0..MaxCalls]

\* A node shown healthy has a connection, although restart_node's connect and
\* the close in send_frame set the two without a common lock.
HealthyHasConnection == \A n \in Node : healthy[n] => conn[n] # "none"

Awaits(n) == IF frame[n].by = "loop" THEN loop = [at |-> n, pc |-> "held"] ELSE request = n
\* A node's lock is held exactly as long as the coroutine that took it waits for
\* its send_frame: no failure, close or restart leaves a lock behind, and the loop
\* never waits inside a send_frame that is over.
LocksAreAwaited ==
  /\ \A n \in Node : frame[n].stage # "free" => Awaits(n)
  /\ loop.pc = "held" => \E n \in Node : loop.at = n /\ frame[n].stage # "free" /\ frame[n].by = "loop"

Torn == \E n \in Node : frame[n].stage = "torn"

\* The metrics loop ends every round, whatever nodes stop, fall silent or are
\* restarted meanwhile; the one thing that holds it up is a connection replaced
\* by restart_node between the arrival of an answer and the reading of its body.
RoundsGoOn == []<>(loop = Sleeping \/ Torn)

\* Once calls and faults are over the leader is a node that is up and not forced
\* down, if there is one: no late answer, ping or restart brings another back.
LeaderSettles ==
  LET serving == {n \in Node : state[n] = "up" /\ n \notin forcedDown}
  IN  <>[](serving = {} \/ leaderId \in serving \/ Torn)
=============================================================================
