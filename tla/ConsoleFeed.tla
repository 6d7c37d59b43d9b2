----------------------------- MODULE ConsoleFeed -----------------------------
(***************************************************************************)
(* The console's feed (frontend/src/hooks.ts), writing into the store: a   *)
(* socket on which the gateway sends snapshots of the cluster, a timer     *)
(* that opens a new socket after one closed, and a poll of /api/cluster    *)
(* while the socket is not open.  In development React's StrictMode        *)
(* (frontend/src/main.tsx) mounts the hook twice: the first mount's socket *)
(* is closed while it connects, and its error event comes after the second *)
(* mount has put its own socket into the shared wsRef.                     *)
(***************************************************************************)
EXTENDS ConsoleStore

CONSTANTS GatewayViews,  \* the views the gateway may report
          MaxChanges,    \* bound: changes of the cluster
          MaxFaults,     \* bound: sockets and polls that fail
          MaxPolls,      \* bound: polls in flight
          HistoryLimit   \* points the charts keep (120 in the code)

ASSUME GatewayViewsAssumption == GatewayViews \subseteq View
ASSUME FeedBoundsAssumption == /\ {MaxChanges, MaxFaults, MaxPolls, HistoryLimit} \subseteq Nat
                               /\ MaxPolls >= 2

VARIABLES wsStatus,
          sock,      \* readyState of wsRef.current
          stale,     \* the first mount's socket: "closing" until its error event
          timer,     \* reconnectTimer is set
          inbox,     \* the message on its way to the open socket
          asked,     \* polls the gateway has not seen yet
          answers,   \* snapshots on their way back to polls
          cluster,   \* the view the gateway would answer with
          primed,    \* previousRef is set
          points,    \* length of the store's history, which the charts draw
          changes, faults

feedVars == <<wsStatus, sock, stale, timer, inbox, asked, answers>>
env == <<cluster, changes, faults>>
charts == <<primed, points>>
vars == <<storeVars, feedVars, charts, env>>

-----------------------------------------------------------------------------
(* Consuming a snapshot *)

\* pushMetrics.
PushMetrics == points' = IF points < HistoryLimit THEN points + 1 ELSE HistoryLimit

\* A message (live) carries the rates; those of a poll's answer are differences
\* from the answer before it, if there was one.
Point(live) ==
  IF live THEN PushMetrics /\ UNCHANGED primed
  ELSE primed' = TRUE /\ IF primed THEN PushMetrics ELSE UNCHANGED points

\* Mutant: a message only feeds the charts.
MutConsume(view, live) ==
  /\ IF live THEN UNCHANGED nodes ELSE SetNodes(view)
  /\ Point(live)
  /\ UNCHANGED <<forcedDown, calls, events, clicks, wanted, race>>
\* consumeSnapshot.
Consume(view, live) ==
  /\ SetNodes(view)
  /\ Point(live)
  /\ UNCHANGED <<forcedDown, calls, events, clicks, wanted, race>>

-----------------------------------------------------------------------------
(* The socket *)

\* Mutant: a socket that closed is not replaced.
MutOnClose == sock' = "closed" /\ wsStatus' = "closed" /\ inbox' = <<>> /\ UNCHANGED timer
\* onclose of wsRef.current.
OnClose == sock' = "closed" /\ wsStatus' = "closed" /\ inbox' = <<>> /\ timer' = TRUE

OnOpen ==
  /\ sock = "connecting"
  /\ sock' = "open"
  /\ wsStatus' = "open"
  /\ UNCHANGED <<storeVars, stale, timer, inbox, asked, answers, charts, env>>

\* The network ends the socket: onerror, whose close() finds it closed, and onclose.
Drop ==
  /\ sock \in {"connecting", "open"}
  /\ faults < MaxFaults
  /\ faults' = faults + 1
  /\ OnClose
  /\ UNCHANGED <<storeVars, stale, asked, answers, charts, cluster, changes>>

\* Mutant: the first mount also starts a new socket.
MutStaleError ==
  /\ stale = "closing"
  /\ stale' = "closed"
  /\ timer' = TRUE
  /\ UNCHANGED <<storeVars, wsStatus, sock, inbox, asked, answers, charts, env>>
\* onerror of the first mount's socket closes whatever wsRef holds now; its
\* onclose returns because the mount is disposed.
StaleError ==
  /\ stale = "closing"
  /\ stale' = "closed"
  /\ sock' = IF sock \in {"connecting", "open"} THEN "closing" ELSE sock
  /\ inbox' = <<>>
  /\ UNCHANGED <<storeVars, wsStatus, timer, asked, answers, charts, env>>

\* The close() of StaleError completes.
Closed ==
  /\ sock = "closing"
  /\ OnClose
  /\ UNCHANGED <<storeVars, stale, asked, answers, charts, env>>

\* Mutant: the status is not set to "connecting".
MutReconnect ==
  /\ timer
  /\ timer' = FALSE
  /\ sock' = "connecting"
  /\ UNCHANGED <<storeVars, wsStatus, stale, inbox, asked, answers, charts, env>>
\* connect, from the timer.
Reconnect ==
  /\ timer
  /\ timer' = FALSE
  /\ sock' = "connecting"
  /\ wsStatus' = "connecting"
  /\ UNCHANGED <<storeVars, stale, inbox, asked, answers, charts, env>>

OnMessage ==
  /\ sock = "open"
  /\ inbox # <<>>
  /\ Consume(Head(inbox), TRUE)
  /\ inbox' = Tail(inbox)
  /\ UNCHANGED <<wsStatus, sock, stale, timer, asked, answers, env>>

-----------------------------------------------------------------------------
(* Polling *)

PollTick ==
  /\ sock # "open"
  /\ asked + Len(answers) < MaxPolls
  /\ asked' = asked + 1
  /\ UNCHANGED <<storeVars, wsStatus, sock, stale, timer, inbox, answers, charts, env>>

\* Mutant: the request stays pending and is answered again.
MutPollServed ==
  /\ asked > 0
  /\ answers' = Append(answers, cluster)
  /\ UNCHANGED <<storeVars, wsStatus, sock, stale, timer, inbox, asked, charts, env>>
\* The gateway answers with what it has now.
PollServed ==
  /\ asked > 0
  /\ asked' = asked - 1
  /\ answers' = Append(answers, cluster)
  /\ UNCHANGED <<storeVars, wsStatus, sock, stale, timer, inbox, charts, env>>

\* fetch throws, or the answer is not ok.
PollFails ==
  /\ asked > 0
  /\ faults < MaxFaults
  /\ asked' = asked - 1
  /\ faults' = faults + 1
  /\ UNCHANGED <<storeVars, wsStatus, sock, stale, timer, inbox, answers, charts, cluster, changes>>

\* Answers overtake each other.
PollAnswer(i) ==
  /\ Consume(answers[i], FALSE)
  /\ answers' = SubSeq(answers, 1, i - 1) \o SubSeq(answers, i + 1, Len(answers))
  /\ UNCHANGED <<wsStatus, sock, stale, timer, inbox, asked, env>>

-----------------------------------------------------------------------------
(* The gateway *)

Change ==
  /\ changes < MaxChanges
  /\ changes' = changes + 1
  /\ cluster' \in GatewayViews \ {cluster}
  /\ UNCHANGED <<storeVars, feedVars, charts, faults>>

\* metrics_loop sends a snapshot; one is on its way at a time.
Broadcast ==
  /\ sock = "open"
  /\ inbox = <<>>
  /\ inbox' = <<cluster>>
  /\ UNCHANGED <<storeVars, wsStatus, sock, stale, timer, asked, answers, charts, env>>

-----------------------------------------------------------------------------
\* The effect has run once, or twice under StrictMode; each run has sent a poll.
Init ==
  /\ StoreInit
  /\ wsStatus = "connecting" /\ sock = "connecting" /\ timer = FALSE /\ inbox = <<>>
  /\ stale \in {"none", "closing"}
  /\ asked = (IF stale = "closing" THEN 2 ELSE 1) /\ answers = <<>>
  /\ cluster \in GatewayViews
  /\ primed = FALSE /\ points = 0
  /\ changes = 0 /\ faults = 0

\* A click, or the answer to a call.
Store == StoreNext /\ UNCHANGED <<feedVars, charts, env>>

Next == \/ Store
        \/ OnOpen \/ Drop \/ StaleError \/ Closed \/ Reconnect \/ OnMessage
        \/ PollTick \/ PollServed \/ PollFails \/ \E i \in DOMAIN answers : PollAnswer(i)
        \/ Change \/ Broadcast

\* Of the browser and the gateway only this is assumed: a socket that connects
\* or closes gets there, the timer fires, and over an open socket snapshots are
\* sent and delivered.  Polls and calls may stay unanswered for ever.
Fairness == /\ WF_vars(OnOpen \/ Closed \/ Reconnect)
            /\ WF_vars(Broadcast \/ OnMessage)

Spec == Init /\ [][Next]_vars /\ Fairness

-----------------------------------------------------------------------------
(* Properties *)

\* Every variable has its type.
TypeOK ==
  /\ StoreTypeOK
  /\ wsStatus \in {"connecting", "open", "closed"}
  /\ sock \in {"connecting", "open", "closing", "closed"}
  /\ stale \in {"none", "closing", "closed"}
  /\ timer \in BOOLEAN
  /\ inbox \in Seq(GatewayViews) /\ Len(inbox) <= 1
  /\ asked \in 0..MaxPolls /\ answers \in Seq(GatewayViews) /\ asked + Len(answers) <= MaxPolls
  /\ cluster \in GatewayViews
  /\ primed \in BOOLEAN /\ points \in 0..HistoryLimit

\* The feed never dies and never doubles: either a socket is alive or the timer
\* that will open the next one is set, not both, whatever the order in which the
\* two mounts' sockets fail, open and close.
OneFeed == (sock # "closed") # timer

\* "System Status" tells the truth about the socket: closed while the timer
\* runs, and open from the moment the socket opens until it starts to close.
StatusIsSocket == /\ (wsStatus = "closed") = timer
                  /\ sock = "open" => wsStatus = "open"
                  /\ wsStatus = "open" => sock \in {"open", "closing"}

\* Once the cluster, the network and the user are quiet, the console shows the
\* cluster as the gateway reports it, except for the nodes forced down: no late
\* poll, stale message or rollback stays on the screen.
Converges == <>[](nodes = ApplyForcedDown(cluster, forcedDown))

\* The stream comes back: once failures stop, the socket is open for good.
StreamComesBack == <>[](wsStatus = "open" /\ sock = "open")
=============================================================================
