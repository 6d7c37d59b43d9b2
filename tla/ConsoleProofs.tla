---------------------------- MODULE ConsoleProofs ----------------------------
(***************************************************************************)
(* What holds of the console's store and feed for every set of nodes and   *)
(* views, any number of calls, polls and failures.                         *)
(***************************************************************************)
EXTENDS ConsoleFeed, StoreProofs

(* The socket *)

\* The socket, its timer and the status move together.
SocketInv == /\ wsStatus \in {"connecting", "open", "closed"}
             /\ sock \in {"connecting", "open", "closing", "closed"}
             /\ timer \in BOOLEAN
             /\ OneFeed
             /\ StatusIsSocket

\* The hook starts with a socket that connects.
LEMMA InitSocket == Init => SocketInv
  BY Zenon DEF Init, SocketInv, OneFeed, StatusIsSocket

\* Every handler of the hook keeps the three together.
LEMMA NextSocket == SocketInv /\ [Next]_vars => SocketInv'
<1> SUFFICES ASSUME SocketInv, [Next]_vars PROVE SocketInv'
  OBVIOUS
<1> USE DEF SocketInv, OneFeed, StatusIsSocket
<1>1. CASE UNCHANGED <<wsStatus, sock, timer>>
  BY <1>1
<1>2. CASE OnOpen
  BY <1>2 DEF OnOpen
<1>3. CASE Drop
  BY Zenon, <1>3 DEF Drop, OnClose
<1>4. CASE StaleError
  BY <1>4 DEF StaleError
<1>5. CASE Closed
  BY Zenon, <1>5 DEF Closed, OnClose
<1>6. CASE Reconnect
  BY Zenon, <1>6 DEF Reconnect
<1> HIDE DEF SocketInv, OneFeed, StatusIsSocket
<1>7. Store \/ OnMessage \/ PollTick \/ PollServed \/ PollFails \/ Change \/ Broadcast
        \/ (\E i \in DOMAIN answers : PollAnswer(i)) \/ UNCHANGED vars
      => UNCHANGED <<wsStatus, sock, timer>>
  BY Zenon DEF Store, OnMessage, PollTick, PollServed, PollFails, Change, Broadcast, PollAnswer,
         vars, feedVars
<1> QED
  BY <1>1, <1>2, <1>3, <1>4, <1>5, <1>6, <1>7 DEF Next

\* Either a socket is alive or the timer that opens the next one is set, for any
\* number of failures and in every order of the two mounts' events.
THEOREM FeedStaysAlive == Spec => []OneFeed
<1>1. SocketInv => OneFeed
  BY DEF SocketInv
<1> QED
  BY <1>1, InitSocket, NextSocket, PTL DEF Spec

\* The status shown is that of the socket.
THEOREM StatusIsTrue == Spec => []StatusIsSocket
<1>1. SocketInv => StatusIsSocket
  BY DEF SocketInv
<1> QED
  BY <1>1, InitSocket, NextSocket, PTL DEF Spec

-----------------------------------------------------------------------------
(* Types *)

\* A snapshot keeps the types of the store and counts its point.
LEMMA ConsumeType ==
  ASSUME TypeOK, NEW view \in GatewayViews, NEW live \in BOOLEAN, Consume(view, live)
  PROVE  StoreTypeOK' /\ primed' \in BOOLEAN /\ points' \in 0..HistoryLimit
<1>1. nodes' \in View
  BY ShownType, GatewayViewsAssumption DEF Consume, SetNodes
<1>2. primed' \in BOOLEAN /\ points' \in 0..HistoryLimit
  <2>1. points \in 0..HistoryLimit /\ primed \in BOOLEAN /\ HistoryLimit \in Nat
    BY FeedBoundsAssumption DEF TypeOK
  <2>2. points' = points \/ PushMetrics
    BY DEF Consume, Point
  <2>3. points' \in 0..HistoryLimit
    BY <2>1, <2>2 DEF PushMetrics
  <2>4. primed' = primed \/ primed' = TRUE
    BY DEF Consume, Point
  <2> QED BY Zenon, <2>1, <2>3, <2>4
<1> QED
  BY <1>1, <1>2 DEF Consume, TypeOK, StoreTypeOK

\* The state after loading has its types.
LEMMA InitType == Init => TypeOK
<1> SUFFICES ASSUME Init PROVE TypeOK
  OBVIOUS
<1>1. FirstView \in View
  BY DEF FirstView, View, Shown
<1>2. StoreTypeOK
  BY <1>1, StoreBoundsAssumption DEF Init, StoreInit, StoreTypeOK
<1>3. asked \in 0..MaxPolls /\ asked + Len(answers) <= MaxPolls /\ points \in 0..HistoryLimit
  BY FeedBoundsAssumption DEF Init
<1>4. inbox \in Seq(GatewayViews) /\ Len(inbox) <= 1 /\ answers \in Seq(GatewayViews)
  BY DEF Init
<1> QED
  BY Zenon, <1>2, <1>3, <1>4 DEF Init, TypeOK

\* Every step keeps the types.
LEMMA NextType == TypeOK /\ [Next]_vars => TypeOK'
<1> SUFFICES ASSUME TypeOK, [Next]_vars PROVE TypeOK'
  OBVIOUS
<1> DEFINE Socket == /\ wsStatus \in {"connecting", "open", "closed"}
                     /\ sock \in {"connecting", "open", "closing", "closed"}
                     /\ stale \in {"none", "closing", "closed"}
                     /\ timer \in BOOLEAN
           Inbox == inbox \in Seq(GatewayViews) /\ Len(inbox) <= 1
           Polls == /\ asked \in 0..MaxPolls /\ answers \in Seq(GatewayViews)
                    /\ asked + Len(answers) <= MaxPolls
           Rest == /\ cluster \in GatewayViews
                   /\ primed \in BOOLEAN /\ points \in 0..HistoryLimit
<1>0. /\ StoreTypeOK /\ Socket /\ Inbox /\ Polls /\ Rest
      /\ MaxPolls \in Nat /\ Len(answers) \in Nat
  BY FeedBoundsAssumption, ListType DEF TypeOK
<1>a. ASSUME StoreTypeOK', Socket', Inbox', Polls', Rest' PROVE TypeOK'
  BY <1>a DEF TypeOK
<1>b. UNCHANGED storeVars => StoreTypeOK'
  BY <1>0 DEF storeVars, StoreTypeOK
<1>c. UNCHANGED <<charts, cluster>> => Rest'
  BY <1>0 DEF charts
<1>d. UNCHANGED <<asked, answers>> => Polls'
  BY <1>0
<1>1. CASE UNCHANGED vars
  BY <1>0, <1>1, <1>a, <1>b, <1>c, <1>d DEF vars, feedVars, charts, env
<1>2. CASE Store
  <2>1. StoreTypeOK'
    BY <1>0, <1>2, ClickType, SettleType DEF Store, StoreNext
  <2> QED
    BY <1>0, <1>2, <2>1, <1>a, <1>c, <1>d DEF Store, feedVars, env
<1>3. CASE OnOpen \/ Drop \/ StaleError \/ Closed \/ Reconnect
  <2>1. Inbox'
    <3>1. inbox' = inbox \/ inbox' = <<>>
      BY <1>3 DEF OnOpen, Drop, StaleError, Closed, Reconnect, OnClose
    <3>2. <<>> \in Seq(GatewayViews) /\ Len(<<>>) <= 1
      OBVIOUS
    <3>3. inbox' \in Seq(GatewayViews) /\ Len(inbox') <= 1
      BY Zenon, <1>0, <3>1, <3>2
    <3> QED BY <3>3
  <2>2. Socket'
    BY Zenon, <1>0, <1>3 DEF OnOpen, Drop, StaleError, Closed, Reconnect, OnClose
  <2>3. UNCHANGED storeVars /\ UNCHANGED <<charts, cluster>> /\ UNCHANGED <<asked, answers>>
    BY <1>3 DEF OnOpen, Drop, StaleError, Closed, Reconnect, env
  <2> QED
    BY <2>1, <2>2, <2>3, <1>a, <1>b, <1>c, <1>d
<1>4. CASE OnMessage
  <2>1. /\ Head(inbox) \in GatewayViews /\ Tail(inbox) \in Seq(GatewayViews)
        /\ Len(Tail(inbox)) = Len(inbox) - 1 /\ Len(inbox) \in Nat
    BY <1>0, <1>4, ListType DEF OnMessage
  <2>2. Inbox'
    BY <1>0, <1>4, <2>1 DEF OnMessage
  <2>3. StoreTypeOK' /\ primed' \in BOOLEAN /\ points' \in 0..HistoryLimit
    BY Zenon, <1>4, <2>1, ConsumeType DEF OnMessage
  <2> QED
    BY <1>0, <1>4, <2>2, <2>3, <1>a, <1>d DEF OnMessage, env
<1>5. CASE PollTick
  <2>1. Polls'
    BY <1>0, <1>5 DEF PollTick
  <2> QED
    BY <1>0, <1>5, <2>1, <1>a, <1>b, <1>c DEF PollTick, env
<1>6. CASE PollServed
  <2>1. /\ Append(answers, cluster) \in Seq(GatewayViews)
        /\ Len(Append(answers, cluster)) = Len(answers) + 1
    BY <1>0
  <2>2. Polls'
    BY <1>0, <1>6, <2>1 DEF PollServed
  <2> QED
    BY <1>0, <1>6, <2>2, <1>a, <1>b, <1>c DEF PollServed, env
<1>7. CASE PollFails
  <2>1. Polls'
    BY <1>0, <1>7 DEF PollFails
  <2> QED
    BY <1>0, <1>7, <2>1, <1>a, <1>b, <1>c DEF PollFails
<1>8. CASE \E i \in DOMAIN answers : PollAnswer(i)
  <2>1. PICK i \in DOMAIN answers : PollAnswer(i)
    BY <1>8
  <2>2. i \in 1..Len(answers) /\ answers[i] \in GatewayViews
    BY <1>0, ListType
  <2>3. answers' \in Seq(GatewayViews) /\ Len(answers') = Len(answers) - 1
    <3>1. answers' = SubSeq(answers, 1, i - 1) \o SubSeq(answers, i + 1, Len(answers))
      BY <2>1 DEF PollAnswer
    <3> QED BY Zenon, <1>0, <2>2, <3>1, RemoveAt
  <2>4. Polls'
    <3>1. asked' = asked /\ asked \in Nat
      BY <1>0, <2>1 DEF PollAnswer
    <3>2. asked + Len(answers') <= MaxPolls
      BY <1>0, <2>3, <3>1
    <3> QED BY <1>0, <2>3, <3>1, <3>2
  <2>5. StoreTypeOK' /\ primed' \in BOOLEAN /\ points' \in 0..HistoryLimit
    BY Zenon, <2>1, <2>2, ConsumeType DEF PollAnswer
  <2> QED
    BY Zenon, <1>0, <2>1, <2>4, <2>5, <1>a DEF PollAnswer, env
<1>9. CASE Change
  BY <1>0, <1>9, <1>a, <1>b, <1>d DEF Change, feedVars, charts
<1>10. CASE Broadcast
  <2>1. Inbox'
    BY <1>0, <1>10 DEF Broadcast
  <2> QED
    BY <1>0, <1>10, <2>1, <1>a, <1>b, <1>c, <1>d DEF Broadcast, env
<1> HIDE DEF Socket, Inbox, Polls, Rest
<1> QED
  BY <1>1, <1>2, <1>3, <1>4, <1>5, <1>6, <1>7, <1>8, <1>9, <1>10 DEF Next

\* Every variable of the console keeps its type, whatever the sets and bounds.
THEOREM TypeCorrect == Spec => []TypeOK
  BY InitType, NextType, PTL DEF Spec

-----------------------------------------------------------------------------
(* The forced-down list *)

\* What a waiting call would put back is consistent in itself.
Saved == \A i \in 1..Len(calls) : \A n \in calls[i].forced : calls[i].nodes[n] = Down
ForcedInv == TypeOK /\ ForcedDownIsShownDown /\ Saved

\* A snapshot that is shown keeps the forced nodes down.
LEMMA SetNodesForced ==
  ASSUME TypeOK, NEW view \in View, SetNodes(view), UNCHANGED forcedDown
  PROVE  ForcedDownIsShownDown'
<1>1. forcedDown \subseteq Node
  BY DEF TypeOK, StoreTypeOK
<1> QED
  BY <1>1 DEF SetNodes, ApplyForcedDown, ForcedDownIsShownDown

\* Every step keeps the forced nodes down, now and in what may be put back.
LEMMA NextForced == ForcedInv /\ [Next]_vars => ForcedInv'
<1> SUFFICES ASSUME ForcedInv, [Next]_vars PROVE ForcedInv'
  OBVIOUS
<1>0. TypeOK /\ TypeOK' /\ StoreTypeOK /\ ForcedDownIsShownDown /\ Saved
  BY NextType DEF ForcedInv, TypeOK
<1>a. calls \in Seq(Call) /\ Len(calls) \in Nat /\ DOMAIN calls = 1..Len(calls)
  BY <1>0, ListType DEF TypeOK, StoreTypeOK
<1>1. CASE UNCHANGED <<nodes, forcedDown, calls>>
  BY <1>0, <1>1 DEF ForcedInv, ForcedDownIsShownDown, Saved
<1>2. ASSUME NEW op \in Op, NEW n \in Node, Click(op, n) PROVE ForcedInv'
  <2>1. ForcedDownIsShownDown'
    <3>1. nodes \in View /\ forcedDown \subseteq Node
      BY <1>0 DEF TypeOK, StoreTypeOK
    <3>2. CASE op = "kill"
      <4>1. forcedDown' = forcedDown \cup {n} /\ nodes' = [nodes EXCEPT ![n] = Down]
        BY <1>2, <3>2 DEF Click, Forced, Optimistic
      <4> QED BY <1>0, <3>1, <4>1 DEF ForcedDownIsShownDown, View
    <3>3. CASE op = "restart"
      <4>1. forcedDown' = forcedDown \ {n} /\ nodes' = [nodes EXCEPT ![n].healthy = TRUE]
        BY <1>2, <3>3 DEF Click, Forced, Optimistic
      <4>2. \A m \in Node : m # n => nodes'[m] = nodes[m]
        BY <3>1, <4>1 DEF View
      <4> QED BY <1>0, <3>1, <4>1, <4>2 DEF ForcedDownIsShownDown
    <3> QED BY <3>2, <3>3 DEF Op
  <2>2. Saved'
    <3> SUFFICES ASSUME NEW i \in 1..Len(calls'), NEW m \in calls'[i].forced
                 PROVE  calls'[i].nodes[m] = Down
      BY DEF Saved
    <3>1. CASE i \in 1..Len(calls)
      <4>1. calls'[i].nodes = calls[i].nodes /\ calls'[i].forced = calls[i].forced
        BY Zenon, <1>0, <1>2, <3>1, ClickCalls
      <4> QED BY <1>0, <3>1, <4>1 DEF Saved
    <3>2. CASE i = Len(calls) + 1
      <4>1. calls'[i] = [op |-> op, id |-> n, nodes |-> nodes, forced |-> forcedDown,
                         overtaken |-> FALSE, mounted |-> TRUE]
        BY <1>0, <1>2, <3>2, ClickCalls
      <4>2. calls'[i].nodes = nodes /\ calls'[i].forced = forcedDown
        BY <4>1
      <4> QED BY <1>0, <4>2 DEF ForcedDownIsShownDown
    <3>3. Len(calls') = Len(calls) + 1
      BY Zenon, <1>0, <1>2, ClickCalls
    <3> QED BY <1>a, <3>1, <3>2, <3>3
  <2> QED BY <1>0, <2>1, <2>2 DEF ForcedInv
<1>3. ASSUME NEW i \in DOMAIN calls, NEW a \in Answer, Settle(i, a) PROVE ForcedInv'
  <2>1. ForcedDownIsShownDown'
    <3>1. CASE UNCHANGED <<nodes, forcedDown>>
      BY <1>0, <3>1 DEF ForcedDownIsShownDown
    <3>2. CASE RollBack(calls[i])
      BY <1>0, <1>a, <3>2 DEF RollBack, ForcedDownIsShownDown, Saved
    <3> QED BY <1>3, <3>1, <3>2 DEF Settle
  <2>2. Saved'
    <3>1. \A j \in 1..Len(calls') : \E k \in 1..Len(calls) : calls'[j] = calls[k]
      BY Zenon, <1>0, <1>3, SettleCalls
    <3> QED BY <1>0, <3>1 DEF Saved
  <2> QED BY <1>0, <2>1, <2>2 DEF ForcedInv
<1>4. ASSUME NEW view \in GatewayViews, NEW live \in BOOLEAN, Consume(view, live) PROVE ForcedInv'
  <2>1. view \in View /\ SetNodes(view) /\ UNCHANGED <<forcedDown, calls>>
    BY <1>4, GatewayViewsAssumption DEF Consume
  <2>2. ForcedDownIsShownDown'
    BY <1>0, <2>1, SetNodesForced
  <2>3. Saved'
    BY <1>0, <2>1 DEF Saved
  <2> QED BY <1>0, <2>2, <2>3 DEF ForcedInv
<1>5. CASE OnMessage
  <2>1. Head(inbox) \in GatewayViews
    BY <1>0, <1>5 DEF OnMessage, TypeOK
  <2> QED BY Zenon, <1>4, <1>5, <2>1 DEF OnMessage
<1>6. CASE \E i \in DOMAIN answers : PollAnswer(i)
  <2>1. PICK i \in DOMAIN answers : PollAnswer(i)
    BY <1>6
  <2>2. answers[i] \in GatewayViews
    BY Zenon, <1>0, ListType DEF TypeOK
  <2> QED BY Zenon, <1>4, <2>1, <2>2 DEF PollAnswer
<1>7. CASE Store
  BY <1>2, <1>3, <1>7 DEF Store, StoreNext
<1>8. OnOpen \/ Drop \/ StaleError \/ Closed \/ Reconnect \/ PollTick \/ PollServed \/ PollFails
        \/ Change \/ Broadcast \/ UNCHANGED vars
      => UNCHANGED <<nodes, forcedDown, calls>>
  BY DEF OnOpen, Drop, StaleError, Closed, Reconnect, PollTick, PollServed, PollFails,
         Change, Broadcast, vars, storeVars
<1> QED
  BY <1>1, <1>5, <1>6, <1>7, <1>8 DEF Next

\* A node on the forced-down list is shown down and not as leader, whatever the
\* order of clicks, answers, rollbacks, messages and polls.
THEOREM ForcedStayDown == Spec => []ForcedDownIsShownDown
<1>1. Init => ForcedInv
  <2> SUFFICES ASSUME Init PROVE ForcedInv
    OBVIOUS
  <2>1. forcedDown = {} /\ calls = <<>>
    BY DEF Init, StoreInit
  <2> QED BY <2>1, InitType DEF ForcedInv, ForcedDownIsShownDown, Saved
<1>2. ForcedInv => ForcedDownIsShownDown
  BY Zenon DEF ForcedInv
<1> QED
  BY <1>1, <1>2, NextForced, PTL DEF Spec

-----------------------------------------------------------------------------
(* Rollbacks *)

\* What a call makes of a forced-down list.
After(op, n, forced) == IF op = "kill" THEN forced \cup {n} ELSE forced \ {n}

\* As long as no call has been refused out of turn: nobody's call is undone, and
\* a call that was not overtaken is the last one, with nothing changed since.
InTurn ==
  /\ forcedDown = wanted
  /\ \A i \in 1..Len(calls) : ~calls[i].overtaken =>
       /\ i = Len(calls)
       /\ forcedDown = After(calls[i].op, calls[i].id, calls[i].forced)
RaceInv == TypeOK /\ (race # "rollback" => InTurn)

\* A click.
LEMMA ClickInTurn ==
  ASSUME StoreTypeOK, InTurn, NEW op \in Op, NEW n \in Node, Click(op, n)
  PROVE  InTurn'
<1>a. calls \in Seq(Call) /\ Len(calls) \in Nat /\ Len(calls') = Len(calls) + 1
  BY Zenon, ListType, ClickCalls DEF StoreTypeOK
<1>1. forcedDown' = wanted' /\ forcedDown' = After(op, n, forcedDown)
  BY DEF Click, Forced, After, InTurn
<1>2. ASSUME NEW i \in 1..Len(calls'), ~calls'[i].overtaken
      PROVE  i = Len(calls') /\ forcedDown' = After(calls'[i].op, calls'[i].id, calls'[i].forced)
  <2>1. i \notin 1..Len(calls)
    BY Zenon, <1>2, ClickCalls
  <2>2. i = Len(calls) + 1
    BY <1>a, <2>1
  <2>3. calls'[i] = [op |-> op, id |-> n, nodes |-> nodes, forced |-> forcedDown,
                     overtaken |-> FALSE, mounted |-> TRUE]
    BY Zenon, <2>2, ClickCalls, Zenon
  <2>4. calls'[i].op = op /\ calls'[i].id = n /\ calls'[i].forced = forcedDown
    BY <2>3
  <2> QED
    BY <1>a, <1>1, <2>2, <2>4
<1> QED
  BY <1>1, <1>2 DEF InTurn

\* An answer, unless it refuses a call that was overtaken.
LEMMA SettleInTurn ==
  ASSUME StoreTypeOK, InTurn, NEW i \in DOMAIN calls, NEW a \in Answer, Settle(i, a),
         Succeeds(a) \/ ~calls[i].overtaken
  PROVE  InTurn'
<1>a. calls \in Seq(Call) /\ i \in 1..Len(calls) /\ Len(calls) \in Nat /\ Len(calls') = Len(calls) - 1
  BY CallType, ListType, SettleCalls DEF StoreTypeOK
<1>b. calls[i] \in Call /\ forcedDown \subseteq Node
  BY Zenon, <1>a, ListType DEF StoreTypeOK
<1>1. CASE Succeeds(a)
  <2>1. UNCHANGED <<forcedDown, wanted>>
    BY <1>1 DEF Settle
  <2>2. ASSUME NEW j \in 1..Len(calls'), ~calls'[j].overtaken
        PROVE  j = Len(calls') /\ forcedDown = After(calls'[j].op, calls'[j].id, calls'[j].forced)
    <3> DEFINE k == IF j < i THEN j ELSE j + 1
    <3>1. calls'[j] = calls[k] /\ k \in 1..Len(calls)
      BY SettleCalls
    <3>2. k = Len(calls) /\ forcedDown = After(calls[k].op, calls[k].id, calls[k].forced)
      BY <2>2, <3>1 DEF InTurn
    <3>3. j = Len(calls')
      BY <1>a, <3>2
    <3> QED
      BY <3>1, <3>2, <3>3
  <2> QED
    BY Zenon, <2>1, <2>2 DEF InTurn
<1>2. CASE ~Succeeds(a)
  <2>1. ~calls[i].overtaken
    BY <1>2
  <2>2. i = Len(calls) /\ forcedDown = After(calls[i].op, calls[i].id, calls[i].forced) /\ forcedDown = wanted
    BY Zenon, <1>a, <2>1 DEF InTurn
  <2>3. /\ forcedDown' = calls[i].forced
        /\ wanted' = IF calls[i].id \in calls[i].forced THEN wanted \cup {calls[i].id}
                     ELSE wanted \ {calls[i].id}
    BY <1>2 DEF Settle, RollBack
  <2>4. forcedDown' = wanted'
    BY Zenon, <2>2, <2>3 DEF After
  <2>5. ASSUME NEW j \in 1..Len(calls') PROVE calls'[j].overtaken
    <3>1. j < i /\ j \in 1..Len(calls) /\ j # Len(calls)
      BY <1>a, <2>2
    <3>2. calls'[j] = calls[j]
      BY <3>1, SettleCalls
    <3>3. calls[j].overtaken
      BY <3>1 DEF InTurn
    <3> QED
      BY <3>2, <3>3
  <2> QED
    BY <2>4, <2>5 DEF InTurn
<1> QED
  BY Zenon, <1>1, <1>2

\* Every step.
LEMMA NextRace == RaceInv /\ [Next]_vars => RaceInv'
<1> SUFFICES ASSUME RaceInv, [Next]_vars, race' # "rollback" PROVE InTurn'
  BY NextType DEF RaceInv
<1>0. StoreTypeOK /\ (race # "rollback" => InTurn)
  BY DEF RaceInv, TypeOK
<1>1. CASE UNCHANGED <<forcedDown, calls, wanted, race>>
  BY <1>0, <1>1 DEF InTurn
<1>2. ASSUME NEW op \in Op, NEW n \in Node, Click(op, n) PROVE InTurn'
  <2>1. race # "rollback"
    BY <1>2 DEF Click
  <2> QED
    BY <1>0, <1>2, <2>1, ClickInTurn
<1>3. ASSUME NEW i \in DOMAIN calls, NEW a \in Answer, Settle(i, a) PROVE InTurn'
  <2>1. race # "rollback" /\ (Succeeds(a) \/ ~calls[i].overtaken)
    BY <1>3 DEF Settle
  <2> QED
    BY Zenon, <1>0, <1>3, <2>1, SettleInTurn
<1>4. CASE Store
  BY Zenon, <1>2, <1>3, <1>4 DEF Store, StoreNext
<1>5. OnOpen \/ Drop \/ StaleError \/ Closed \/ Reconnect \/ PollTick \/ PollServed \/ PollFails
        \/ Change \/ Broadcast \/ UNCHANGED vars
      => UNCHANGED <<forcedDown, calls, wanted, race>>
  BY DEF OnOpen, Drop, StaleError, Closed, Reconnect, PollTick, PollServed, PollFails,
         Change, Broadcast, vars, storeVars
<1>6. OnMessage \/ (\E i \in DOMAIN answers : PollAnswer(i)) => UNCHANGED <<forcedDown, calls, wanted, race>>
  BY Zenon DEF OnMessage, PollAnswer, Consume
<1> QED
  BY <1>1, <1>4, <1>5, <1>6 DEF Next

\* Until a call is refused after a later one has started, the forced-down list
\* holds just what the calls that were not refused made of it.
THEOREM RollbackIsOwn == Spec => []RollbackUndoesOwnCall
<1>1. Init => RaceInv
  <2> SUFFICES ASSUME Init PROVE RaceInv
    OBVIOUS
  <2>1. forcedDown = {} /\ wanted = {} /\ calls = <<>>
    BY DEF Init, StoreInit
  <2> QED BY <2>1, InitType DEF RaceInv, InTurn
<1>2. RaceInv => RollbackUndoesOwnCall
  BY DEF RaceInv, InTurn, RollbackUndoesOwnCall
<1> QED
  BY <1>1, <1>2, NextRace, PTL DEF Spec

-----------------------------------------------------------------------------
(* The log of events *)

\* The newest success that the log has of a node tells whether it is in F.
Tells(F) ==
  \A n \in Node : \A i \in 1..Len(events) :
    /\ events[i].id = n /\ events[i].ok
    /\ \A j \in 1..i - 1 : events[j].id = n => ~events[j].ok
    => (n \in F) = (events[i].op = "kill")

\* As long as calls do not overlap at most one waits.  The log then tells what
\* the list was before it, and the list is what the call made of that.
EventsInv ==
  race = "none" =>
    /\ Len(calls) \in {0, 1}
    /\ Len(calls) = 0 => Tells(forcedDown)
    /\ Len(calls) = 1 => /\ calls[1].mounted /\ Tells(calls[1].forced)
                         /\ forcedDown = After(calls[1].op, calls[1].id, calls[1].forced)

\* A click: the log tells what the list was.
LEMMA ClickEvents ==
  ASSUME StoreTypeOK, EventsInv, NEW op \in Op, NEW n \in Node, Click(op, n)
  PROVE  EventsInv'
<1> SUFFICES ASSUME race' = "none"
             PROVE  /\ Len(calls') = 1
                    /\ Len(calls') = 1 =>
                         /\ calls'[1].mounted /\ Tells(calls[1].forced)'
                         /\ forcedDown' = After(calls'[1].op, calls'[1].id, calls'[1].forced)
  <2>1. Len(calls') = 1 => Len(calls') \in {0, 1} /\ Len(calls') # 0
    OBVIOUS
  <2> QED BY <2>1 DEF EventsInv
<1>1. race = "none" /\ calls = <<>> /\ events' = events
  BY DEF Click
<1>2. Len(calls) = 0 /\ Tells(forcedDown)
  BY <1>1 DEF EventsInv
<1>3. Len(calls') = 1
  <2>1. Len(calls') = Len(calls) + 1
    BY Zenon, ClickCalls
  <2> QED BY <1>2, <2>1
<1>4. calls'[1] = [op |-> op, id |-> n, nodes |-> nodes, forced |-> forcedDown,
                   overtaken |-> FALSE, mounted |-> TRUE]
  <2>1. calls'[Len(calls) + 1] = [op |-> op, id |-> n, nodes |-> nodes, forced |-> forcedDown,
                                  overtaken |-> FALSE, mounted |-> TRUE]
    BY ClickCalls
  <2>2. Len(calls) + 1 = 1
    BY <1>2
  <2> QED BY Zenon, <2>1, <2>2
<1>5. calls'[1].op = op /\ calls'[1].id = n /\ calls'[1].forced = forcedDown /\ calls'[1].mounted
  BY <1>4
<1>6. Tells(calls[1].forced)'
  BY <1>1, <1>2, <1>5 DEF Tells
<1>7. forcedDown' = After(op, n, forcedDown)
  BY Zenon DEF Click, Forced, After
<1> QED
  BY Zenon, <1>3, <1>5, <1>6, <1>7

\* An event in front of a log that told of F: a success tells what the call
\* made of F, and a failure tells nothing.
LEMMA PushTells ==
  ASSUME StoreTypeOK, NEW c \in Call, NEW a \in Answer, Push(c, a), Tells(c.forced),
         NEW F, F = IF Succeeds(a) THEN After(c.op, c.id, c.forced) ELSE c.forced
  PROVE  \A n \in Node : \A i \in 1..Len(events') :
           /\ events'[i].id = n /\ events'[i].ok
           /\ \A j \in 1..i - 1 : events'[j].id = n => ~events'[j].ok
           => (n \in F) = (events'[i].op = "kill")
<1> SUFFICES ASSUME NEW n \in Node, NEW i \in 1..Len(events'),
                    events'[i].id = n, events'[i].ok,
                    \A j \in 1..i - 1 : events'[j].id = n => ~events'[j].ok
             PROVE  (n \in F) = (events'[i].op = "kill")
  BY Zenon
<1>1. /\ events' \in Seq(Event) /\ Len(events') <= Len(events) + 1 /\ Len(events) \in Nat /\ Len(events') \in Nat
      /\ \A j \in 1..Len(events') :
           events'[j] = IF j = 1 THEN [op |-> c.op, id |-> c.id, ok |-> Succeeds(a)] ELSE events[j - 1]
  BY PushType, ListType DEF StoreTypeOK
<1>2. c.op \in Op
  BY DEF Call
<1>3. CASE i = 1
  <2>1. events'[1] = [op |-> c.op, id |-> c.id, ok |-> Succeeds(a)]
    BY Zenon, <1>1, <1>3
  <2>2. events'[1].op = c.op /\ events'[1].id = c.id /\ events'[1].ok = Succeeds(a)
    BY <2>1
  <2>3. c.id = n /\ Succeeds(a)
    BY Zenon, <1>3, <2>2
  <2> QED BY <1>2, <1>3, <2>2, <2>3 DEF After, Op
<1>4. CASE i # 1
  <2>1. i - 1 \in 1..Len(events) /\ 1 \in 1..Len(events') /\ 1 \in 1..i - 1
    BY <1>1, <1>4
  <2>2. events'[1] = [op |-> c.op, id |-> c.id, ok |-> Succeeds(a)]
    BY Zenon, <1>1, <2>1
  <2>3. events'[1].id = c.id /\ events'[1].ok = Succeeds(a)
    BY <2>2
  <2>4. Succeeds(a) => c.id # n
    BY Zenon, <2>1, <2>3
  <2>5. events'[i] = events[i - 1]
    BY Zenon, <1>1, <1>4
  <2>6. ASSUME NEW j \in 1..(i - 1) - 1, events[j].id = n PROVE ~events[j].ok
    <3>1. j + 1 \in 1..i - 1 /\ j + 1 \in 1..Len(events') /\ j + 1 # 1 /\ (j + 1) - 1 = j
      BY <1>1, <2>1
    <3>2. events'[j + 1] = events[j]
      BY Zenon, <1>1, <3>1
    <3> QED BY Zenon, <2>6, <3>1, <3>2
  <2>7. (n \in c.forced) = (events[i - 1].op = "kill")
    BY Zenon, <2>1, <2>5, <2>6 DEF Tells
  <2>8. (n \in F) = (n \in c.forced)
    BY <2>4 DEF After
  <2> QED BY Zenon, <2>5, <2>7, <2>8
<1> QED BY Zenon, <1>3, <1>4

\* The answer to the only waiting call.
LEMMA SettleEvents ==
  ASSUME StoreTypeOK, EventsInv, NEW i \in DOMAIN calls, NEW a \in Answer, Settle(i, a)
  PROVE  EventsInv'
<1> SUFFICES ASSUME race' = "none"
             PROVE  Len(calls') = 0 /\ Tells(forcedDown)'
  BY DEF EventsInv
<1>1. race = "none"
  BY Zenon DEF Settle
<1>2. calls \in Seq(Call) /\ i \in 1..Len(calls) /\ calls[i] \in Call
  BY CallType DEF StoreTypeOK
<1>3. Len(calls) = 1 /\ i = 1
  BY <1>1, <1>2 DEF EventsInv
<1>4. Len(calls') = 0
  BY <1>3, SettleCalls
<1>5. /\ calls[1].mounted /\ Tells(calls[1].forced)
      /\ forcedDown = After(calls[1].op, calls[1].id, calls[1].forced)
  BY Zenon, <1>1, <1>3 DEF EventsInv
<1>6. Push(calls[1], a)
  BY Zenon, <1>3, <1>5 DEF Settle
<1>7. forcedDown' = IF Succeeds(a) THEN After(calls[1].op, calls[1].id, calls[1].forced) ELSE calls[1].forced
  BY Zenon, <1>3, <1>5 DEF Settle, RollBack
<1>8. \A n \in Node : \A j \in 1..Len(events') :
        /\ events'[j].id = n /\ events'[j].ok
        /\ \A k \in 1..j - 1 : events'[k].id = n => ~events'[k].ok
        => (n \in forcedDown') = (events'[j].op = "kill")
  BY <1>2, <1>3, <1>5, <1>6, <1>7, PushTells
<1> QED
  BY Zenon, <1>4, <1>8 DEF Tells

\* Every step.
LEMMA NextEvents == TypeOK /\ EventsInv /\ [Next]_vars => EventsInv'
<1> SUFFICES ASSUME TypeOK, EventsInv, [Next]_vars PROVE EventsInv'
  OBVIOUS
<1>0. StoreTypeOK
  BY Zenon DEF TypeOK
<1>1. CASE UNCHANGED <<forcedDown, calls, events, race>>
  BY <1>1 DEF EventsInv, Tells
<1>2. CASE Store
  BY Zenon, <1>0, <1>2, ClickEvents, SettleEvents DEF Store, StoreNext
<1>3. OnOpen \/ Drop \/ StaleError \/ Closed \/ Reconnect \/ PollTick \/ PollServed \/ PollFails
        \/ Change \/ Broadcast \/ UNCHANGED vars
      => UNCHANGED <<forcedDown, calls, events, race>>
  BY DEF OnOpen, Drop, StaleError, Closed, Reconnect, PollTick, PollServed, PollFails,
         Change, Broadcast, vars, storeVars
<1>4. OnMessage \/ (\E i \in DOMAIN answers : PollAnswer(i)) => UNCHANGED <<forcedDown, calls, events, race>>
  BY Zenon DEF OnMessage, PollAnswer, Consume
<1> QED
  BY <1>1, <1>2, <1>3, <1>4 DEF Next

\* As long as calls do not overlap, the log of the Raft page can be trusted:
\* once no call waits, the newest success it has of a node says whether the
\* node is on the forced-down list, whatever was refused or fell off the log.
THEOREM NewestEventsAreTrue == Spec => []NewestEventIsTrue
<1>1. Init => EventsInv
  <2> SUFFICES ASSUME Init PROVE EventsInv
    OBVIOUS
  <2>1. events = <<>> /\ calls = <<>>
    BY DEF Init, StoreInit
  <2>2. Len(calls) = 0 /\ Len(events) = 0
    BY <2>1
  <2>3. Len(calls) \in {0, 1} /\ Len(calls) # 1
    BY <2>2
  <2>4. Tells(forcedDown)
    BY <2>2 DEF Tells
  <2> QED BY <2>3, <2>4 DEF EventsInv
<1>2. TypeOK /\ EventsInv => NewestEventIsTrue
  <2> SUFFICES ASSUME TypeOK, EventsInv, race = "none", calls = <<>> PROVE NewestEventIsTrue
    BY DEF NewestEventIsTrue
  <2>1. Tells(forcedDown)
    BY Zenon DEF EventsInv
  <2>2. DOMAIN events = 1..Len(events)
    BY ListType DEF TypeOK, StoreTypeOK
  <2> QED BY Zenon, <2>1, <2>2 DEF NewestEventIsTrue, Tells
<1> QED
  BY <1>1, <1>2, NextEvents, TypeCorrect, PTL DEF Spec
=============================================================================
