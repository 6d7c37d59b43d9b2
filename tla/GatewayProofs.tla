---------------------------- MODULE GatewayProofs ----------------------------
(***************************************************************************)
(* Proofs about the gateway's cluster manager (Gateway): the types, that a *)
(* node shown healthy has a connection, and that locks are held as long as *)
(* somebody waits for them, for any number of nodes, calls, requests and   *)
(* faults.                                                                 *)
(***************************************************************************)
EXTENDS Gateway, NaturalsInduction, WellFoundedInduction, TLAPS

-----------------------------------------------------------------------------
(* The leader *)

\* The least of some nodes is one of them.
LEMMA MinNode ==
  ASSUME NEW S \in SUBSET Node, S # {}
  PROVE  Min(S) \in S
<1>0. S \subseteq Nat
  BY LastAssumption DEF Node
<1>1. PICK x \in S : \A y \in S : ~(<<y, x>> \in OpToRel(<, Nat))
  BY <1>0, NatLessThanWellFounded, WFMin
<1>2. ASSUME NEW y \in S PROVE x <= y
  <2>1. y \in Nat /\ x \in Nat /\ <<y, x>> \in Nat \X Nat /\ (y < x => <<y, x>>[1] < <<y, x>>[2])
    BY <1>0
  <2>2. ~(y < x)
    BY <1>1, <2>1 DEF OpToRel
  <2> QED BY <2>1, <2>2
<1> QED
  BY <1>2 DEF Min

\* The types that steps keep; a restart on its way is one of the calls.
Loop == [at : 0..Last, pc : {"check", "lock", "held"}]
Types ==
  /\ state \in [Node -> {"up", "silent", "stopped"}]
  /\ healthy \in [Node -> BOOLEAN] /\ isLeader \in [Node -> BOOLEAN]
  /\ conn \in [Node -> {"none", "live", "dead"}]
  /\ frame \in [Node -> Frame]
  /\ leaderId \in Node /\ forcedDown \subseteq Node
  /\ loop \in Loop
  /\ request \in 0..Last
  /\ calls \in 0..MaxCalls
  /\ restarts \in [Node -> Nat] /\ \A n \in Node : restarts[n] <= calls

\* A leader that is chosen is a node.
LEMMA ElectType ==
  ASSUME Types, NEW h, ElectLeader(h)
  PROVE  leaderId' \in Node /\ isLeader' \in [Node -> BOOLEAN]
<1>1. Chosen(h) \in Node
  <2> DEFINE ids == {n \in Node : h[n]}
  <2>1. ids # {} => Min(ids) \in Node
    BY MinNode
  <2> HIDE DEF ids
  <2>2. (IF ids = {} \/ leaderId \in ids THEN leaderId ELSE Min(ids)) \in Node
    BY <2>1 DEF Types
  <2> QED
    BY <2>2 DEF ids, Chosen
<1> QED
  BY <1>1 DEF ElectLeader

\* The loop's next ping.
LEMMA NextPingType ==
  ASSUME Types, NEW n \in Node, NEW h, NextPing(n, h)
  PROVE  loop' \in Loop /\ leaderId' \in Node /\ isLeader' \in [Node -> BOOLEAN]
<1>1. CASE n = Last
  <2>1. loop' = Sleeping /\ ElectLeader(h)
    BY <1>1 DEF NextPing
  <2> QED BY <2>1, ElectType, LastAssumption DEF Sleeping, Loop
<1>2. CASE n # Last
  <2>1. loop' = [at |-> n + 1, pc |-> "check"] /\ UNCHANGED <<leaderId, isLeader>>
    BY <1>2 DEF NextPing
  <2>2. n + 1 \in 0..Last
    BY <1>2, LastAssumption DEF Node
  <2> QED BY <2>1, <2>2 DEF Loop, Types
<1> QED BY <1>1, <1>2

\* The end of send_frame.
LEMMA FinishType ==
  ASSUME Types, NEW n \in Node, NEW ok \in BOOLEAN, Finish(n, ok)
  PROVE  /\ frame' \in [Node -> Frame] /\ healthy' \in [Node -> BOOLEAN]
         /\ loop' \in Loop /\ request' \in 0..Last
         /\ leaderId' \in Node /\ isLeader' \in [Node -> BOOLEAN]
<1>1. Free \in Frame
  BY DEF Free, Frame
<1>2. frame' \in [Node -> Frame] /\ healthy' \in [Node -> BOOLEAN]
  BY <1>1 DEF Finish, Types
<1>3. CASE frame[n].by = "loop"
  BY <1>2, <1>3, NextPingType DEF Finish, Types
<1>4. CASE frame[n].by # "loop"
  BY <1>2, <1>4, LastAssumption DEF Finish, Types
<1> QED BY <1>2, <1>3, <1>4

-----------------------------------------------------------------------------
(* Types *)

\* The updates of a frame that steps make.
LEMMA FrameUpdates ==
  ASSUME NEW f \in Frame
  PROVE  /\ \A s \in {"arrived", "torn", "closing"} : [f EXCEPT !.stage = s] \in Frame
         /\ \A l \in {"live", "dead"} : [f EXCEPT !.link = l] \in Frame
         /\ \A b \in BOOLEAN : [f EXCEPT !.fresh = b] \in Frame
         /\ f.link \in {"live", "dead"} /\ f.fresh \in BOOLEAN /\ f.by \in {"loop", "request"}
BY DEF Frame

\* The frames that are new.
LEMMA NewFrames ==
  ASSUME NEW b \in {"loop", "request"}, NEW l \in {"live", "dead"}
  PROVE  /\ [Free EXCEPT !.stage = "connect", !.by = b] \in Frame
         /\ [Free EXCEPT !.stage = "header", !.by = b] \in Frame
         /\ [Free EXCEPT !.stage = "header", !.by = b, !.link = l] \in Frame
BY DEF Frame, Free

\* connect.
LEMMA ConnectType ==
  ASSUME Types, NEW n \in Node, ConnectFlags(n)
  PROVE  conn' \in [Node -> {"none", "live", "dead"}] /\ healthy' \in [Node -> BOOLEAN]
BY DEF Types, ConnectFlags

\* Steps of send_frame.
LEMMA SendFrameTypes ==
  ASSUME Types, NEW n \in Node, SendFrame(n)
  PROVE  Types'
<1>0. frame[n] \in Frame
  BY DEF Types
<1>1. CASE FrameConnect(n)
  <2>0. UNCHANGED <<state, forcedDown, restarts, calls>>
    BY <1>1 DEF FrameConnect
  <2>1. CASE state[n] = "up"
    <3>1. [Free EXCEPT !.stage = "header", !.by = frame[n].by] \in Frame
      BY <1>0, FrameUpdates, NewFrames
    <3>2. /\ ConnectFlags(n) /\ UNCHANGED <<loop, request, leaderId, isLeader>>
          /\ frame' = [frame EXCEPT ![n] = [Free EXCEPT !.stage = "header", !.by = frame[n].by]]
      BY <1>1, <2>1 DEF FrameConnect
    <3>3. frame' \in [Node -> Frame]
      <4> DEFINE f == [Free EXCEPT !.stage = "header", !.by = frame[n].by]
      <4> HIDE DEF f
      <4> QED BY <3>1, <3>2 DEF Types, f
    <3> QED BY <2>0, <3>2, <3>3, ConnectType DEF Types
  <2>2. CASE state[n] # "up"
    <3>1. conn' = [conn EXCEPT ![n] = "none"] /\ Finish(n, FALSE)
      BY <1>1, <2>2 DEF FrameConnect
    <3> QED BY <2>0, <3>1, FinishType DEF Types
  <2> QED BY <2>1, <2>2
<1>2. CASE FrameArrives(n)
  <2>1. frame' \in [Node -> Frame]
    BY <1>0, <1>2, FrameUpdates DEF FrameArrives, Types
  <2> QED BY <1>2, <2>1 DEF FrameArrives, Types, flags
<1>3. CASE FrameAnswer(n)
  <2>0. UNCHANGED <<state, conn, forcedDown, restarts, calls>>
    BY <1>3 DEF FrameAnswer
  <2>1. CASE frame[n].fresh
    <3>1. Finish(n, TRUE)
      BY <1>3, <2>1 DEF FrameAnswer
    <3> QED BY <2>0, <3>1, FinishType DEF Types
  <2>2. CASE ~frame[n].fresh
    <3> DEFINE s == IF conn[n] = "none" THEN "closing" ELSE "torn"
               l == IF conn[n] = "dead" THEN "dead" ELSE "live"
    <3>1. frame' = [frame EXCEPT ![n].stage = s, ![n].link = l] /\ UNCHANGED <<flags, loop, request>>
      BY <1>3, <2>2 DEF FrameAnswer
    <3>2. s \in {"torn", "closing"} /\ l \in {"live", "dead"}
      OBVIOUS
    <3> HIDE DEF s, l
    <3>3. [[frame[n] EXCEPT !.stage = s] EXCEPT !.link = l] \in Frame
      BY <1>0, <3>2 DEF Frame
    <3>4. frame' \in [Node -> Frame]
      BY <1>0, <3>1, <3>3 DEF Types
    <3> QED BY <2>0, <3>1, <3>4 DEF Types, flags
  <2> QED BY <2>1, <2>2
<1>4. CASE FrameFails(n)
  <2>1. frame' \in [Node -> Frame]
    BY <1>0, <1>4, FrameUpdates DEF FrameFails, Types
  <2> QED BY <1>4, <2>1 DEF FrameFails, Types, flags
<1>5. CASE FrameClosed(n)
  <2>1. conn' = [conn EXCEPT ![n] = "none"] /\ Finish(n, FALSE) /\ UNCHANGED <<state, forcedDown, restarts, calls>>
    BY <1>5 DEF FrameClosed
  <2> QED BY <2>1, FinishType DEF Types
<1> QED
  BY <1>1, <1>2, <1>3, <1>4, <1>5 DEF SendFrame

\* A node that stops.
LEMMA StopType ==
  ASSUME Types, NEW n \in Node, Stop(n)
  PROVE  /\ state' \in [Node -> {"up", "silent", "stopped"}]
         /\ conn' \in [Node -> {"none", "live", "dead"}]
         /\ frame' \in [Node -> Frame]
<1> DEFINE l == IF frame[n].stage \in {"header", "torn"} THEN "dead" ELSE frame[n].link
<1>1. frame[n] \in Frame /\ l \in {"live", "dead"}
  BY FrameUpdates DEF Types
<1>2. frame' = [frame EXCEPT ![n].link = l]
  BY DEF Stop
<1>3. state' \in [Node -> {"up", "silent", "stopped"}] /\ conn' \in [Node -> {"none", "live", "dead"}]
  BY DEF Stop, Types
<1> HIDE DEF l
<1> QED
  BY <1>1, <1>2, <1>3, FrameUpdates DEF Types

\* The handlers and the nodes themselves.
LEMMA HandlerTypes ==
  ASSUME Types, NEW n \in Node, Kill(n) \/ Restart(n) \/ RestartConnects(n) \/ Fault(n)
  PROVE  Types'
<1>0. MaxCalls \in Nat
  BY GatewayBoundsAssumption
<1>1. CASE Kill(n)
  <2>1. calls' \in 0..MaxCalls /\ \A m \in Node : restarts[m] <= calls'
    BY <1>0, <1>1 DEF Kill, Types
  <2>2. healthy' \in [Node -> BOOLEAN]
    BY <1>1 DEF Kill, Types
  <2>3. leaderId' \in Node /\ isLeader' \in [Node -> BOOLEAN]
    BY <1>1, ElectType DEF Kill
  <2>4. UNCHANGED <<loop, request, restarts>>
    BY <1>1 DEF Kill
  <2>5. CASE Stop(n) /\ UNCHANGED forcedDown
    BY <2>1, <2>2, <2>3, <2>4, <2>5, StopType DEF Types
  <2>6. CASE forcedDown' = forcedDown \cup {n} /\ UNCHANGED <<state, conn, frame>>
    BY <2>1, <2>2, <2>3, <2>4, <2>6 DEF Types
  <2> QED BY <1>1, <2>5, <2>6 DEF Kill
<1>2. CASE Restart(n)
  <2>1. calls' \in 0..MaxCalls /\ restarts' \in [Node -> Nat] /\ \A m \in Node : restarts'[m] <= calls'
    BY <1>0, <1>2 DEF Restart, Types
  <2>2. state' \in [Node -> {"up", "silent", "stopped"}] /\ forcedDown' \subseteq Node
    BY <1>2 DEF Restart, Types
  <2> QED BY <1>2, <2>1, <2>2 DEF Restart, Types, flags
<1>3. CASE RestartConnects(n)
  <2>1. restarts' \in [Node -> Nat] /\ \A m \in Node : restarts'[m] <= calls
    BY <1>0, <1>3 DEF RestartConnects, Types
  <2>2. conn' \in [Node -> {"none", "live", "dead"}] /\ healthy' \in [Node -> BOOLEAN]
    BY <1>3, ConnectType DEF RestartConnects
  <2>3. leaderId' \in Node /\ isLeader' \in [Node -> BOOLEAN]
    BY <1>3, ElectType DEF RestartConnects
  <2>4. frame' \in [Node -> Frame]
    <3> DEFINE b == frame[n].fresh /\ frame[n].stage # "arrived"
               l == IF frame[n].stage = "header" THEN "dead" ELSE frame[n].link
    <3>1. frame[n] \in Frame /\ b \in BOOLEAN /\ l \in {"live", "dead"}
      BY FrameUpdates DEF Types
    <3>2. frame' = [frame EXCEPT ![n].fresh = b, ![n].link = l]
      BY <1>3 DEF RestartConnects
    <3> HIDE DEF b, l
    <3>3. [[frame[n] EXCEPT !.fresh = b] EXCEPT !.link = l] \in Frame
      BY <3>1 DEF Frame
    <3> QED BY <3>1, <3>2, <3>3 DEF Types
  <2> QED BY <1>3, <2>1, <2>2, <2>3, <2>4 DEF RestartConnects, Types
<1>4. CASE Fault(n)
  <2>0. UNCHANGED <<flags, forcedDown, loop, request, restarts, calls>>
    BY <1>4 DEF Fault
  <2>1. CASE Stop(n)
    BY <2>0, <2>1, StopType DEF Types, flags
  <2>2. CASE UNCHANGED <<conn, frame>> /\ \E s \in {"up", "silent"} : state' = [state EXCEPT ![n] = s]
    <3>1. state' \in [Node -> {"up", "silent", "stopped"}]
      BY <2>2 DEF Types
    <3> QED BY <2>0, <2>2, <3>1 DEF Types, flags
  <2> QED BY <1>4, <2>1, <2>2 DEF Fault
<1> QED BY <1>1, <1>2, <1>3, <1>4

\* The loop, requests and the lock.
LEMMA SenderTypes ==
  ASSUME Types,
         RoundStart \/ PingStart \/ Request
           \/ \E n \in Node : \E by \in {"loop", "request"} : Acquire(n, by)
  PROVE  Types'
<1>0. Last \in Nat \ {0}
  BY LastAssumption
<1>1. CASE RoundStart
  <2>1. loop' \in Loop
    BY <1>0, <1>1 DEF RoundStart, Loop
  <2> QED BY <1>1, <2>1 DEF RoundStart, Types, flags
<1>2. CASE PingStart
  <2> DEFINE n == loop.at
  <2>0. /\ n \in Node
        /\ UNCHANGED <<state, conn, frame, forcedDown, request, restarts, calls>>
    BY <1>0, <1>2 DEF PingStart, Types, Loop, Node
  <2>1. CASE n \in forcedDown
    <3>1. healthy' = [healthy EXCEPT ![n] = FALSE]
      BY <1>2, <2>1 DEF PingStart
    <3>2. healthy' \in [Node -> BOOLEAN]
      BY <3>1 DEF Types
    <3>3. CASE n = Last
      <4>1. NextPing(n, healthy')
        BY <1>2, <2>1, <3>3 DEF PingStart
      <4>2. loop' \in Loop /\ leaderId' \in Node /\ isLeader' \in [Node -> BOOLEAN]
        BY <2>0, <4>1, NextPingType
      <4> HIDE DEF n
      <4> QED BY <2>0, <3>2, <4>2 DEF Types
    <3>4. CASE n # Last
      <4>1. loop' = [at |-> n + 1, pc |-> "check"] /\ UNCHANGED leaderId
            /\ isLeader' = [isLeader EXCEPT ![n] = FALSE]
        BY <1>2, <2>1, <3>4 DEF PingStart
      <4>2. n + 1 \in 0..Last
        BY <1>0, <2>0, <3>4 DEF Node
      <4> HIDE DEF n
      <4>3. loop' \in Loop /\ isLeader' \in [Node -> BOOLEAN]
        BY <4>1, <4>2 DEF Loop, Types
      <4> QED BY <2>0, <3>2, <4>1, <4>3 DEF Types
    <3> QED BY <3>3, <3>4
  <2>2. CASE n \notin forcedDown
    <3>1. loop' = [loop EXCEPT !.pc = "lock"] /\ UNCHANGED flags
      BY <1>2, <2>2 DEF PingStart
    <3>2. loop' \in Loop
      BY <3>1 DEF Types, Loop
    <3> HIDE DEF n
    <3> QED BY <2>0, <3>1, <3>2 DEF Types, flags
  <2> QED BY <2>1, <2>2
<1>3. CASE Request
  <2>0. UNCHANGED <<state, healthy, conn, frame, forcedDown, loop, restarts, calls>>
    BY <1>3 DEF Request
  <2>1. leaderId' \in Node /\ isLeader' \in [Node -> BOOLEAN] /\ request' \in Node
    BY <1>3, ElectType DEF Request, Types
  <2>2. request' \in 0..Last
    BY <1>0, <2>1 DEF Node
  <2> QED BY <2>0, <2>1, <2>2 DEF Types
<1>4. ASSUME NEW n \in Node, NEW by \in {"loop", "request"}, Acquire(n, by) PROVE Types'
  <2>0. UNCHANGED <<state, flags, conn, forcedDown, request, restarts, calls>>
    BY <1>4 DEF Acquire
  <2>1. loop' \in Loop
    <3>1. loop' = [loop EXCEPT !.pc = "held"] \/ loop' = loop
      BY <1>4 DEF Acquire
    <3> QED BY <3>1 DEF Types, Loop
  <2>2. frame' \in [Node -> Frame]
    <3>1. CASE conn[n] = "none" \/ ~healthy[n]
      <4> DEFINE f == [Free EXCEPT !.stage = "connect", !.by = by]
      <4>1. f \in Frame /\ frame' = [frame EXCEPT ![n] = f]
        BY <1>4, <3>1, NewFrames DEF Acquire
      <4> HIDE DEF f
      <4> QED BY <4>1 DEF Types
    <3>2. CASE ~(conn[n] = "none" \/ ~healthy[n])
      <4> DEFINE f == [Free EXCEPT !.stage = "header", !.by = by, !.link = conn[n]]
      <4>1. conn[n] \in {"live", "dead"}
        BY <3>2 DEF Types
      <4>2. f \in Frame /\ frame' = [frame EXCEPT ![n] = f]
        BY <1>4, <3>2, <4>1, NewFrames DEF Acquire
      <4> HIDE DEF f
      <4> QED BY <4>2 DEF Types
    <3> QED BY <3>1, <3>2
  <2> QED BY <2>0, <2>1, <2>2 DEF Types, flags
<1> QED BY <1>1, <1>2, <1>3, <1>4

\* Every step keeps the types.
LEMMA NextTypes == Types /\ [Next]_vars => Types'
<1> SUFFICES ASSUME Types, [Next]_vars PROVE Types'
  OBVIOUS
<1>1. CASE UNCHANGED vars
  BY <1>1 DEF Types, vars, flags
<1>2. CASE Next
  BY <1>2, SenderTypes, SendFrameTypes, HandlerTypes DEF Next
<1> QED BY <1>1, <1>2

\* The types after startup.
LEMMA InitTypes == Init => Types
<1> SUFFICES ASSUME Init PROVE Types
  OBVIOUS
<1>0. Last \in Nat \ {0} /\ MaxCalls \in Nat
  BY LastAssumption, GatewayBoundsAssumption
<1>1. healthy \in [Node -> BOOLEAN] /\ isLeader \in [Node -> BOOLEAN]
  BY DEF Init
<1>2. conn \in [Node -> {"none", "live", "dead"}] /\ state \in [Node -> {"up", "silent", "stopped"}]
  BY DEF Init
<1>3. frame \in [Node -> Frame]
  BY DEF Init, Free, Frame
<1>4. leaderId \in Node
  <2>1. CASE \E n \in Node : healthy[n]
    <3> DEFINE S == {n \in Node : healthy[n]}
    <3>1. Min(S) \in S
      BY <2>1, MinNode
    <3>2. leaderId = Min(S)
      BY <2>1 DEF Init
    <3> HIDE DEF S
    <3>3. leaderId \in S
      BY <3>1, <3>2
    <3> QED BY <3>3 DEF S
  <2>2. CASE ~\E n \in Node : healthy[n]
    <3>1. leaderId = 1
      BY <2>2 DEF Init
    <3> QED BY <1>0, <3>1 DEF Node
  <2> QED BY <2>1, <2>2
<1>5. loop \in Loop /\ request \in 0..Last
  BY <1>0 DEF Init, Sleeping, Loop
<1>6. calls \in 0..MaxCalls /\ restarts \in [Node -> Nat] /\ \A n \in Node : restarts[n] <= calls
  BY <1>0 DEF Init
<1>7. forcedDown \subseteq Node
  BY DEF Init
<1> QED
  BY <1>1, <1>2, <1>3, <1>4, <1>5, <1>6, <1>7 DEF Types

\* Every variable of the gateway has its type, for any number of nodes, calls,
\* requests and faults: in particular the chosen leader and the node a request
\* goes to exist.
THEOREM GatewayTypes == Spec => []TypeOK
<1>1. Types => TypeOK
  <2> SUFFICES ASSUME Types PROVE TypeOK
    OBVIOUS
  <2>1. restarts \in [Node -> 0..MaxCalls]
    BY GatewayBoundsAssumption DEF Types
  <2>2. loop.at \in 0..Last /\ loop.pc \in {"check", "lock", "held"}
    BY DEF Types, Loop
  <2> QED BY <2>1, <2>2 DEF Types, TypeOK
<1> QED
  BY <1>1, InitTypes, NextTypes, PTL DEF Spec

-----------------------------------------------------------------------------
(* Connections *)

\* A frame that may still report success: it waits on the connection the node
\* has, or its answer came over it.
Hopeful(f) == (f.stage = "header" /\ f.link = "live") \/ (f.stage = "arrived" /\ f.fresh)
Connected(n) == (healthy[n] \/ Hopeful(frame[n])) => conn[n] # "none"
ConnInv == Types /\ \A n \in Node : Connected(n)

\* A step that leaves a node alone.
LEMMA OtherNode ==
  ASSUME NEW m \in Node, Connected(m),
         healthy'[m] = healthy[m], frame'[m] = frame[m], conn'[m] = conn[m]
  PROVE  Connected(m)'
BY DEF Connected, Hopeful

\* The end of send_frame, for the other nodes.
LEMMA FinishOthers ==
  ASSUME Types, NEW n \in Node, NEW m \in Node, m # n, NEW ok, Finish(n, ok)
  PROVE  healthy'[m] = healthy[m] /\ frame'[m] = frame[m]
BY DEF Finish, Types

\* The end of send_frame, for the node itself.
LEMMA FinishSelf ==
  ASSUME Types, NEW n \in Node, NEW ok \in BOOLEAN, Finish(n, ok)
  PROVE  healthy'[n] = ok /\ ~Hopeful(frame'[n])
<1>1. healthy'[n] = ok /\ frame'[n] = Free
  BY DEF Finish, Types
<1>2. ~Hopeful(Free)
  BY DEF Hopeful, Free
<1> QED BY <1>1, <1>2

\* Steps of send_frame.
LEMMA SendFrameConn ==
  ASSUME ConnInv, NEW n \in Node, SendFrame(n), NEW m \in Node
  PROVE  Connected(m)'
<1>0. Types /\ Connected(m) /\ Connected(n) /\ frame[n] \in Frame
  BY DEF ConnInv, Types
<1>a. ASSUME m # n, NEW c, conn' = [conn EXCEPT ![n] = c] \/ conn' = conn,
             NEW ok, Finish(n, ok)
      PROVE  Connected(m)'
  <2>1. conn'[m] = conn[m]
    BY <1>0, <1>a DEF Types
  <2> QED BY <1>0, <1>a, <2>1, FinishOthers, OtherNode
<1>1. CASE FrameConnect(n)
  <2>1. CASE state[n] = "up"
    <3>1. /\ conn' = [conn EXCEPT ![n] = "live"]
          /\ \A k \in Node : k # n => healthy'[k] = healthy[k] /\ frame'[k] = frame[k]
      BY <1>0, <1>1, <2>1 DEF FrameConnect, ConnectFlags, Types
    <3>2. CASE m = n
      BY <1>0, <3>1, <3>2 DEF Connected, Types
    <3>3. CASE m # n
      BY <1>0, <3>1, <3>3, OtherNode DEF Types
    <3> QED BY <3>2, <3>3
  <2>2. CASE state[n] # "up"
    <3>1. conn' = [conn EXCEPT ![n] = "none"] /\ Finish(n, FALSE)
      BY <1>1, <2>2 DEF FrameConnect
    <3>2. CASE m = n
      BY <1>0, <3>1, <3>2, FinishSelf DEF Connected
    <3> QED BY <1>a, <3>1, <3>2
  <2> QED BY <2>1, <2>2
<1>2. CASE FrameArrives(n)
  <2>1. UNCHANGED <<healthy, conn>> /\ Hopeful(frame[n])
    BY <1>2 DEF FrameArrives, flags, Hopeful
  <2>2. \A k \in Node : k # n => frame'[k] = frame[k]
    BY <1>0, <1>2 DEF FrameArrives, Types
  <2>3. CASE m = n
    BY <1>0, <2>1, <2>3 DEF Connected
  <2> QED BY <1>0, <2>1, <2>2, <2>3, OtherNode
<1>3. CASE FrameAnswer(n)
  <2>0. conn' = conn
    BY <1>3 DEF FrameAnswer
  <2>1. CASE frame[n].fresh
    <3>1. Finish(n, TRUE) /\ Hopeful(frame[n])
      BY <1>3, <2>1 DEF FrameAnswer, Hopeful
    <3>2. CASE m = n
      BY <1>0, <2>0, <3>1, <3>2 DEF Connected
    <3> QED BY <1>a, <2>0, <3>1, <3>2
  <2>2. CASE ~frame[n].fresh
    <3>1. /\ UNCHANGED healthy
          /\ frame'[n].stage \in {"torn", "closing"}
          /\ \A k \in Node : k # n => frame'[k] = frame[k]
      BY <1>0, <1>3, <2>2 DEF FrameAnswer, flags, Types, Frame
    <3>2. CASE m = n
      BY <1>0, <2>0, <3>1, <3>2 DEF Connected, Hopeful
    <3> QED BY <1>0, <2>0, <3>1, <3>2, OtherNode
  <2> QED BY <2>1, <2>2
<1>4. CASE FrameFails(n)
  <2>1. /\ UNCHANGED <<healthy, conn>>
        /\ frame'[n].stage = "closing"
        /\ \A k \in Node : k # n => frame'[k] = frame[k]
    BY <1>0, <1>4 DEF FrameFails, flags, Types, Frame
  <2>2. CASE m = n
    BY <1>0, <2>1, <2>2 DEF Connected, Hopeful
  <2> QED BY <1>0, <2>1, <2>2, OtherNode
<1>5. CASE FrameClosed(n)
  <2>1. conn' = [conn EXCEPT ![n] = "none"] /\ Finish(n, FALSE)
    BY <1>5 DEF FrameClosed
  <2>2. CASE m = n
    BY <1>0, <2>1, <2>2, FinishSelf DEF Connected
  <2> QED BY <1>a, <2>1, <2>2
<1> QED
  BY <1>1, <1>2, <1>3, <1>4, <1>5 DEF SendFrame

\* The handlers and the nodes themselves.
LEMMA HandlerConn ==
  ASSUME ConnInv, NEW n \in Node, Kill(n) \/ Restart(n) \/ RestartConnects(n) \/ Fault(n),
         NEW m \in Node
  PROVE  Connected(m)'
<1>0. Types /\ Connected(m) /\ Connected(n) /\ frame[n] \in Frame /\ frame[m] \in Frame
  BY DEF ConnInv, Types
<1>a. ASSUME Stop(n) PROVE /\ Hopeful(frame'[m]) => Hopeful(frame[m])
                           /\ conn'[m] = "none" => conn[m] = "none"
  <2>1. m # n => frame'[m] = frame[m] /\ conn'[m] = conn[m]
    BY <1>0, <1>a DEF Stop, Types
  <2>2. /\ frame'[n].stage = frame[n].stage /\ frame'[n].fresh = frame[n].fresh
        /\ frame'[n].link = "live" => frame[n].link = "live"
        /\ conn'[n] = "none" => conn[n] = "none"
    BY <1>0, <1>a DEF Stop, Types, Frame
  <2> QED BY <2>1, <2>2 DEF Hopeful
<1>1. CASE Kill(n)
  <2>1. healthy'[m] => healthy[m]
    BY <1>0, <1>1 DEF Kill, Types
  <2>2. CASE Stop(n)
    BY <1>0, <1>a, <2>1, <2>2 DEF Connected
  <2>3. CASE UNCHANGED <<state, conn, frame>>
    BY <1>0, <2>1, <2>3 DEF Connected
  <2> QED BY <1>1, <2>2, <2>3 DEF Kill
<1>2. CASE Restart(n)
  BY <1>0, <1>2 DEF Restart, flags, Connected
<1>3. CASE RestartConnects(n)
  <2>0. ConnectFlags(n)
    BY <1>3 DEF RestartConnects
  <2>1. CASE m = n
    <3>1. healthy'[n] => conn'[n] # "none"
      BY <1>0, <2>0 DEF ConnectFlags, Types
    <3>2. /\ frame'[n].stage = frame[n].stage
          /\ frame[n].stage = "arrived" => ~frame'[n].fresh
          /\ frame[n].stage = "header" => frame'[n].link = "dead"
      BY <1>0, <1>3 DEF RestartConnects, Types, Frame
    <3>3. ~Hopeful(frame'[n])
      BY <3>2 DEF Hopeful
    <3> QED BY <2>1, <3>1, <3>3 DEF Connected
  <2>2. CASE m # n
    <3>1. healthy'[m] = healthy[m] /\ frame'[m] = frame[m] /\ conn'[m] = conn[m]
      BY <1>0, <1>3, <2>0, <2>2 DEF RestartConnects, ConnectFlags, Types
    <3> QED BY <1>0, <3>1, OtherNode
  <2> QED BY <2>1, <2>2
<1>4. CASE Fault(n)
  <2>1. UNCHANGED healthy /\ (Stop(n) \/ UNCHANGED <<conn, frame>>)
    BY <1>4 DEF Fault, flags
  <2> QED BY <1>0, <1>a, <2>1 DEF Connected
<1> QED BY <1>1, <1>2, <1>3, <1>4

\* The lock, for the node it is taken for and for the others.
LEMMA AcquireConn ==
  ASSUME ConnInv, NEW n \in Node, NEW by \in {"loop", "request"}, Acquire(n, by), NEW m \in Node
  PROVE  Connected(m)'
<1>0. Types /\ Connected(m) /\ UNCHANGED <<healthy, conn>>
  BY DEF ConnInv, Acquire, flags
<1>1. m # n => frame'[m] = frame[m]
  BY <1>0 DEF Acquire, Types
<1>2. CASE conn[n] = "none" \/ ~healthy[n]
  <2>1. frame'[n] = [Free EXCEPT !.stage = "connect", !.by = by]
    BY <1>0, <1>2 DEF Acquire, Types
  <2>2. frame'[n].stage = "connect"
    BY <2>1 DEF Free
  <2> QED BY <1>0, <1>1, <2>2 DEF Connected, Hopeful
<1>3. CASE ~(conn[n] = "none" \/ ~healthy[n])
  BY <1>0, <1>1, <1>3 DEF Connected
<1> QED BY <1>2, <1>3

\* The loop and the requests, before they reach a lock.
LEMMA SenderConn ==
  ASSUME ConnInv, RoundStart \/ PingStart \/ Request, NEW m \in Node
  PROVE  Connected(m)'
<1>0. Types /\ Connected(m)
  BY DEF ConnInv
<1>1. UNCHANGED <<conn, frame>>
  BY DEF RoundStart, PingStart, Request
<1>2. healthy'[m] => healthy[m]
  BY <1>0 DEF RoundStart, PingStart, Request, flags, Types
<1> QED BY <1>0, <1>1, <1>2 DEF Connected

\* A node that the gateway shows as healthy has a connection, however the
\* coroutines of pings, requests, kills and restarts interleave: a frame that
\* still can report success never outlives the connection it used.
THEOREM HealthyIsConnected == Spec => []HealthyHasConnection
<1>1. Init => ConnInv
  <2> SUFFICES ASSUME Init PROVE ConnInv
    OBVIOUS
  <2>1. \A n \in Node : ~Hopeful(frame[n])
    BY DEF Init, Free, Hopeful
  <2>2. \A n \in Node : healthy[n] => conn[n] # "none"
    BY DEF Init
  <2> QED BY <2>1, <2>2, InitTypes DEF ConnInv, Connected
<1>2. ConnInv /\ [Next]_vars => ConnInv'
  <2> SUFFICES ASSUME ConnInv, [Next]_vars PROVE \A m \in Node : Connected(m)'
    BY NextTypes DEF ConnInv
  <2> TAKE m \in Node
  <2>1. CASE UNCHANGED vars
    BY <2>1 DEF vars, flags, ConnInv, Connected
  <2>2. CASE Next
    BY <2>2, SenderConn, AcquireConn, SendFrameConn, HandlerConn DEF Next
  <2> QED BY <2>1, <2>2
<1>3. ConnInv => HealthyHasConnection
  BY DEF ConnInv, Connected, HealthyHasConnection
<1> QED
  BY <1>1, <1>2, <1>3, PTL DEF Spec
-----------------------------------------------------------------------------
(* Locks *)

\* Somebody waits for every frame, and the loop, inside send_frame, for one.
Held(n) == frame[n].stage # "free"
LoopHeld == \E n \in Node : loop.at = n /\ Held(n) /\ frame[n].by = "loop"
LockInv == Types /\ LocksAreAwaited

\* A step of a send_frame that goes on, or of the nodes, leaves every lock.
LEMMA SameLocks ==
  ASSUME LockInv, UNCHANGED <<loop, request>>,
         \A n \in Node : (Held(n)' <=> Held(n)) /\ frame'[n].by = frame[n].by
  PROVE  LocksAreAwaited'
<1>1. \A n \in Node : Held(n)' => Awaits(n)'
  BY DEF LockInv, LocksAreAwaited, Held, Awaits
<1>2. loop'.pc = "held" => LoopHeld'
  BY DEF LockInv, LocksAreAwaited, LoopHeld, Held
<1> QED
  BY <1>1, <1>2 DEF LocksAreAwaited, Held, LoopHeld

\* The loop, done with node n, is outside send_frame.
LEMMA NextPingOut ==
  ASSUME NEW n, NEW h, NextPing(n, h)
  PROVE  loop'.pc = "check"
BY DEF NextPing, Sleeping

\* The end of send_frame releases its lock, and lets its caller go on.
LEMMA FinishLocks ==
  ASSUME LockInv, NEW n \in Node, NEW ok, Finish(n, ok), Held(n)
  PROVE  LocksAreAwaited'
<1>0. /\ Types /\ Awaits(n)
      /\ \A m \in Node : Held(m) => Awaits(m)
      /\ loop.pc = "held" => LoopHeld
  BY DEF LockInv, LocksAreAwaited, Held, LoopHeld
<1>1. ~Held(n)' /\ \A m \in Node : m # n => frame'[m] = frame[m]
  <2>1. frame'[n] = Free
    BY <1>0 DEF Finish, Types
  <2> QED BY <1>0, <2>1 DEF Finish, Types, Held, Free
<1>2. CASE frame[n].by = "loop"
  <2>1. loop = [at |-> n, pc |-> "held"] /\ loop'.pc = "check" /\ request' = request
    BY <1>0, <1>2, NextPingOut DEF Awaits, Finish
  <2>2. ASSUME NEW m \in Node, Held(m)' PROVE Awaits(m)'
    <3>1. m # n /\ frame'[m] = frame[m] /\ Held(m) /\ Awaits(m)
      BY <1>0, <1>1, <2>2 DEF Held
    <3>2. loop.at # m
      BY <2>1, <3>1
    <3>3. frame[m].by # "loop" /\ request = m
      BY <3>1, <3>2 DEF Awaits
    <3> QED BY <2>1, <3>1, <3>3 DEF Awaits
  <2> QED BY <2>1, <2>2 DEF LocksAreAwaited, Held
<1>3. CASE frame[n].by # "loop"
  <2>1. request = n /\ loop' = loop
    BY <1>0, <1>3 DEF Awaits, Finish
  <2>2. ASSUME NEW m \in Node, Held(m)' PROVE Awaits(m)'
    <3>1. m # n /\ frame'[m] = frame[m] /\ Held(m) /\ Awaits(m)
      BY <1>0, <1>1, <2>2 DEF Held
    <3>2. frame[m].by = "loop" /\ loop = [at |-> m, pc |-> "held"]
      BY <2>1, <3>1 DEF Awaits
    <3> QED BY <2>1, <3>1, <3>2 DEF Awaits
  <2>3. ASSUME loop'.pc = "held" PROVE LoopHeld'
    <3>1. PICK m \in Node : loop.at = m /\ Held(m) /\ frame[m].by = "loop"
      BY <1>0, <2>1, <2>3 DEF LoopHeld
    <3>2. m # n /\ frame'[m] = frame[m]
      BY <1>1, <1>3, <3>1
    <3> QED BY <2>1, <3>1, <3>2 DEF LoopHeld, Held
  <2> QED BY <2>2, <2>3 DEF LocksAreAwaited, Held, LoopHeld
<1> QED BY <1>2, <1>3

\* Steps of send_frame.
LEMMA SendFrameLocks ==
  ASSUME LockInv, NEW n \in Node, SendFrame(n)
  PROVE  LocksAreAwaited'
<1>0. Types /\ frame[n] \in Frame
  BY DEF LockInv, Types
<1>a. ASSUME UNCHANGED <<loop, request>>, Held(n), Held(n)', frame'[n].by = frame[n].by,
             \A m \in Node : m # n => frame'[m] = frame[m]
      PROVE  LocksAreAwaited'
  <2>1. \A m \in Node : (Held(m)' <=> Held(m)) /\ frame'[m].by = frame[m].by
    BY <1>a DEF Held
  <2> QED BY <1>a, <2>1, SameLocks
<1>1. CASE FrameConnect(n)
  <2>0. Held(n)
    BY <1>1 DEF FrameConnect, Held
  <2>1. CASE state[n] = "up"
    <3> DEFINE f == [Free EXCEPT !.stage = "header", !.by = frame[n].by]
    <3>1. f.stage = "header" /\ f.by = frame[n].by
      BY DEF Free
    <3>2. frame' = [frame EXCEPT ![n] = f] /\ UNCHANGED <<loop, request>>
      BY <1>1, <2>1 DEF FrameConnect
    <3> HIDE DEF f
    <3>3. frame'[n] = f /\ \A m \in Node : m # n => frame'[m] = frame[m]
      BY <1>0, <3>2 DEF Types
    <3>4. Held(n)'
      BY <3>1, <3>3 DEF Held
    <3> QED BY <1>a, <2>0, <3>1, <3>2, <3>3, <3>4
  <2>2. CASE state[n] # "up"
    BY <1>1, <2>0, <2>2, FinishLocks DEF FrameConnect
  <2> QED BY <2>1, <2>2
<1>2. CASE FrameArrives(n)
  <2>1. UNCHANGED <<loop, request>> /\ Held(n) /\ frame'[n].by = frame[n].by /\ frame'[n].stage = "arrived"
    BY <1>0, <1>2 DEF FrameArrives, Held, Types, Frame
  <2>2. \A m \in Node : m # n => frame'[m] = frame[m]
    BY <1>0, <1>2 DEF FrameArrives, Types
  <2>3. Held(n)'
    BY <2>1 DEF Held
  <2> QED BY <1>a, <2>1, <2>2, <2>3
<1>3. CASE FrameAnswer(n)
  <2>0. Held(n)
    BY <1>3 DEF FrameAnswer, Held
  <2>1. CASE frame[n].fresh
    BY <1>3, <2>0, <2>1, FinishLocks DEF FrameAnswer
  <2>2. CASE ~frame[n].fresh
    <3>1. /\ UNCHANGED <<loop, request>> /\ frame'[n].by = frame[n].by
          /\ frame'[n].stage \in {"torn", "closing"}
      BY <1>0, <1>3, <2>2 DEF FrameAnswer, Types, Frame
    <3>2. \A m \in Node : m # n => frame'[m] = frame[m]
      BY <1>0, <1>3, <2>2 DEF FrameAnswer, Types
    <3>3. Held(n)'
      BY <3>1 DEF Held
    <3> QED BY <1>a, <2>0, <3>1, <3>2, <3>3
  <2> QED BY <2>1, <2>2
<1>4. CASE FrameFails(n)
  <2>1. UNCHANGED <<loop, request>> /\ Held(n) /\ frame'[n].by = frame[n].by /\ frame'[n].stage = "closing"
    BY <1>0, <1>4 DEF FrameFails, NoAnswer, Held, Types, Frame
  <2>2. \A m \in Node : m # n => frame'[m] = frame[m]
    BY <1>0, <1>4 DEF FrameFails, Types
  <2>3. Held(n)'
    BY <2>1 DEF Held
  <2> QED BY <1>a, <2>1, <2>2, <2>3
<1>5. CASE FrameClosed(n)
  <2>1. Held(n) /\ Finish(n, FALSE)
    BY <1>5 DEF FrameClosed, Held
  <2> QED BY <2>1, FinishLocks
<1> QED
  BY <1>1, <1>2, <1>3, <1>4, <1>5 DEF SendFrame

\* The handlers and the nodes themselves: a restart replaces a connection, never
\* a lock.
LEMMA HandlerLocks ==
  ASSUME LockInv, NEW n \in Node, Kill(n) \/ Restart(n) \/ RestartConnects(n) \/ Fault(n)
  PROVE  LocksAreAwaited'
<1>0. Types /\ frame[n] \in Frame
  BY DEF LockInv, Types
<1>1. UNCHANGED <<loop, request>>
  BY DEF Kill, Restart, RestartConnects, Fault
<1>2. CASE UNCHANGED frame
  BY <1>1, <1>2, SameLocks DEF Held
<1>3. CASE Stop(n) \/ RestartConnects(n)
  <2>1. frame'[n].stage = frame[n].stage /\ frame'[n].by = frame[n].by
    BY <1>0, <1>3 DEF Stop, RestartConnects, Types, Frame
  <2>2. \A m \in Node : m # n => frame'[m] = frame[m]
    BY <1>0, <1>3 DEF Stop, RestartConnects, Types
  <2>3. \A m \in Node : frame'[m].stage = frame[m].stage /\ frame'[m].by = frame[m].by
    BY <2>1, <2>2
  <2>4. \A m \in Node : (Held(m)' <=> Held(m)) /\ frame'[m].by = frame[m].by
    BY <2>3 DEF Held
  <2> QED BY <1>1, <2>4, SameLocks
<1> QED
  BY <1>2, <1>3 DEF Kill, Restart, Fault

\* A lock is taken by the coroutine that waits for it, and no other lock is its own.
LEMMA AcquireLocks ==
  ASSUME LockInv, NEW n \in Node, NEW by \in {"loop", "request"}, Acquire(n, by)
  PROVE  LocksAreAwaited'
<1>0. /\ Types
      /\ \A m \in Node : Held(m) => Awaits(m)
      /\ loop.pc = "held" => LoopHeld
  BY DEF LockInv, LocksAreAwaited, Held, LoopHeld
<1>1. ~Held(n) /\ request' = request
  BY DEF Acquire, Held
<1>2. \A m \in Node : m # n => frame'[m] = frame[m]
  BY <1>0 DEF Acquire, Types
<1>3. frame'[n].stage \in {"connect", "header"} /\ frame'[n].by = by
  <2>1. \/ frame'[n] = [Free EXCEPT !.stage = "connect", !.by = by]
        \/ frame'[n] = [Free EXCEPT !.stage = "header", !.by = by, !.link = conn[n]]
    BY <1>0 DEF Acquire, Types
  <2> QED BY <2>1 DEF Free
<1>4. CASE by = "loop"
  <2>1. loop = [at |-> n, pc |-> "lock"] /\ loop' = [at |-> n, pc |-> "held"]
    BY <1>4 DEF Acquire
  <2>2. Awaits(n)'
    BY <1>3, <1>4, <2>1 DEF Awaits
  <2>3. ASSUME NEW m \in Node, m # n, Held(m)' PROVE Awaits(m)'
    <3>1. frame'[m] = frame[m] /\ Held(m) /\ Awaits(m)
      BY <1>0, <1>2, <2>3 DEF Held
    <3>2. frame[m].by # "loop" /\ request = m
      BY <2>1, <3>1 DEF Awaits
    <3> QED BY <1>1, <3>1, <3>2 DEF Awaits
  <2>4. LoopHeld'
    BY <1>3, <1>4, <2>1 DEF LoopHeld, Held
  <2> QED BY <2>2, <2>3, <2>4 DEF LocksAreAwaited, Held, LoopHeld
<1>5. CASE by = "request"
  <2>1. request = n /\ loop' = loop
    BY <1>5 DEF Acquire
  <2>2. Awaits(n)'
    BY <1>1, <1>3, <1>5, <2>1 DEF Awaits
  <2>3. ASSUME NEW m \in Node, m # n, Held(m)' PROVE Awaits(m)'
    <3>1. frame'[m] = frame[m] /\ Held(m) /\ Awaits(m)
      BY <1>0, <1>2, <2>3 DEF Held
    <3> QED BY <1>1, <2>1, <3>1 DEF Awaits
  <2>4. ASSUME loop'.pc = "held" PROVE LoopHeld'
    <3>1. PICK m \in Node : loop.at = m /\ Held(m) /\ frame[m].by = "loop"
      BY <1>0, <2>1, <2>4 DEF LoopHeld
    <3>2. m # n /\ frame'[m] = frame[m]
      BY <1>1, <1>2, <3>1
    <3> QED BY <2>1, <3>1, <3>2 DEF LoopHeld, Held
  <2> QED BY <2>2, <2>3, <2>4 DEF LocksAreAwaited, Held, LoopHeld
<1> QED BY <1>4, <1>5

\* The loop and the requests, before they reach a lock.
LEMMA SenderLocks ==
  ASSUME LockInv, RoundStart \/ PingStart \/ Request
  PROVE  LocksAreAwaited'
<1>0. /\ Types /\ UNCHANGED frame
      /\ \A m \in Node : Held(m) => Awaits(m)
      /\ loop.pc = "held" => LoopHeld
  BY DEF LockInv, LocksAreAwaited, Held, LoopHeld, RoundStart, PingStart, Request
<1>1. CASE RoundStart \/ PingStart
  <2>1. loop.pc = "check" /\ request' = request
    BY <1>1 DEF RoundStart, PingStart, Sleeping
  <2>2. loop'.pc \in {"check", "lock"}
    <3>1. CASE RoundStart
      BY <3>1 DEF RoundStart
    <3>2. CASE PingStart
      <4>1. \/ NextPing(loop.at, healthy')
            \/ loop' = [at |-> loop.at + 1, pc |-> "check"]
            \/ loop' = [loop EXCEPT !.pc = "lock"]
        BY <3>2 DEF PingStart
      <4>2. CASE loop' = [loop EXCEPT !.pc = "lock"]
        BY <1>0, <4>2 DEF Types, Loop
      <4> QED BY <4>1, <4>2, NextPingOut
    <3> QED BY <1>1, <3>1, <3>2
  <2>3. ASSUME NEW m \in Node, Held(m)' PROVE Awaits(m)'
    <3>1. Held(m) /\ Awaits(m)
      BY <1>0, <2>3 DEF Held
    <3>2. frame[m].by # "loop" /\ request = m
      BY <2>1, <3>1 DEF Awaits
    <3> QED BY <1>0, <2>1, <3>2 DEF Awaits
  <2> QED BY <2>2, <2>3 DEF LocksAreAwaited, Held
<1>2. CASE Request
  <2>1. request = 0 /\ loop' = loop
    BY <1>2 DEF Request
  <2>2. ASSUME NEW m \in Node, Held(m)' PROVE Awaits(m)'
    <3>1. Held(m) /\ Awaits(m) /\ m # 0
      BY <1>0, <2>2, LastAssumption DEF Held, Node
    <3>2. frame[m].by = "loop" /\ loop = [at |-> m, pc |-> "held"]
      BY <2>1, <3>1 DEF Awaits
    <3> QED BY <1>0, <2>1, <3>2 DEF Awaits
  <2>3. loop'.pc = "held" => LoopHeld'
    BY <1>0, <2>1 DEF LoopHeld, Held
  <2> QED BY <2>2, <2>3 DEF LocksAreAwaited, Held, LoopHeld
<1> QED BY <1>1, <1>2

\* A node's lock is held exactly as long as the coroutine that took it waits for
\* its send_frame, for any number of nodes and calls: failures, closes and restarts
\* neither leave a lock behind nor let two coroutines into one send_frame.
THEOREM LocksAreNeverLeft == Spec => []LocksAreAwaited
<1>1. Init => LockInv
  <2> SUFFICES ASSUME Init PROVE LocksAreAwaited
    BY InitTypes DEF LockInv
  <2>1. \A n \in Node : frame[n].stage = "free"
    BY DEF Init, Free
  <2>2. loop.pc = "check"
    BY DEF Init, Sleeping
  <2> QED BY <2>1, <2>2 DEF LocksAreAwaited
<1>2. LockInv /\ [Next]_vars => LockInv'
  <2> SUFFICES ASSUME LockInv, [Next]_vars PROVE LocksAreAwaited'
    BY NextTypes DEF LockInv
  <2>1. CASE UNCHANGED vars
    <3>1. UNCHANGED <<frame, loop, request>>
      BY <2>1 DEF vars
    <3> QED BY <3>1 DEF LockInv, LocksAreAwaited, Awaits
  <2>2. CASE Next
    BY <2>2, SenderLocks, AcquireLocks, SendFrameLocks, HandlerLocks DEF Next
  <2> QED BY <2>1, <2>2
<1>3. LockInv => LocksAreAwaited
  BY DEF LockInv
<1> QED
  BY <1>1, <1>2, <1>3, PTL DEF Spec
=============================================================================
