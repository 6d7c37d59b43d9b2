------------------------------- MODULE Notices -------------------------------
(***************************************************************************)
(* The console's notification centre (App in frontend/src/App.tsx) over    *)
(* the store.  Two React effects compare the connection status and the     *)
(* nodes with what they saw last and push a notice for every difference;   *)
(* they run after a render, so one run may see several updates of the      *)
(* store at once.  The panel marks every notice read when it opens.        *)
(*                                                                         *)
(* A notice is what it is about and what it says of it; wording, level and *)
(* time are left out.  Module ConsoleApp says when the store changes.      *)
(***************************************************************************)
EXTENDS ConsoleStore, FiniteSets, Lists

CONSTANTS NoticeLimit,  \* notices kept (60 in the code)
          NodeOrder     \* the nodes in the order of the list

\* Two notices may be there from the start.
ASSUME NoticesAssumption == /\ NoticeLimit \in Nat \ {0, 1}
                            /\ Node \cap {"start", "status", "leader", "quorum"} = {}
                            /\ NodeOrder \in Seq(Node)
                            /\ \A i, j \in DOMAIN NodeOrder : NodeOrder[i] = NodeOrder[j] => i = j
                            /\ \A n \in Node : \E i \in DOMAIN NodeOrder : NodeOrder[i] = n

VARIABLES wsStatus,
          notices,     \* notifications, newest first
          panel,       \* notificationsOpen
          prevStatus,  \* prevWsStatusRef
          prevNodes    \* prevNodesRef

noticesVars == <<notices, panel, prevStatus, prevNodes>>

Status == {"connecting", "open", "closed"}
Topics == {"start", "status", "leader", "quorum"} \cup Node

-----------------------------------------------------------------------------
(* What the effects compare *)

Healthy(view) == {n \in Node : view[n].healthy}
\* The first node of the list that is leader and healthy.
Leader(view) == LET lead == {i \in DOMAIN NodeOrder : view[NodeOrder[i]].is_leader
                                                        /\ view[NodeOrder[i]].healthy}
                IN  IF lead = {} THEN {} ELSE {NodeOrder[CHOOSE i \in lead : \A j \in lead : i <= j]}
HasQuorum(view) == Cardinality(Healthy(view)) >= Cardinality(Node) \div 2 + 1

\* What is true of a topic in the state of the store, as a set: the status, the
\* leader if there is one, the topic itself if it holds.
Fact(topic, view, status) == CASE topic = "status" -> {status}
                               [] topic = "leader" -> Leader(view)
                               [] topic = "quorum" -> IF HasQuorum(view) THEN {topic} ELSE {}
                               [] topic = "start" -> {topic}
                               [] OTHER -> Healthy(view) \cap {topic}

Notice(topic, says) == [about |-> topic, says |-> says, read |-> FALSE]

\* The notices of one run of the nodes effect, in the order they are pushed:
\* the nodes of the list, then the leader, then the quorum.
NodesTopics == NodeOrder \o <<"leader", "quorum">>
Differences(old, new) ==
  LET differ == {topic \in Topics : Fact(topic, old, wsStatus) # Fact(topic, new, wsStatus)}
      topics == Filter(NodesTopics, differ)
  IN  [i \in DOMAIN topics |-> Notice(topics[i], Fact(topics[i], new, wsStatus))]

\* Mutant: one notice too many is kept.
MutNewest(s) == SubSeq(s, 1, IF Len(s) <= NoticeLimit THEN Len(s) ELSE NoticeLimit + 1)
\* The first NoticeLimit of s.
Newest(s) == SubSeq(s, 1, IF Len(s) < NoticeLimit THEN Len(s) ELSE NoticeLimit)
\* Mutant: the list grows at its end.
MutPushAll(list) == notices' = Newest(notices \o list)
\* pushNotification, for each of the list in turn.
PushAll(list) == notices' = Newest([i \in DOMAIN list |-> list[Len(list) + 1 - i]] \o notices)

-----------------------------------------------------------------------------
(* The effects *)

\* Mutant: the reference keeps the status of the first change.
MutStatusEffect ==
  /\ prevStatus # wsStatus
  /\ PushAll(<<Notice("status", {wsStatus})>>)
  /\ prevStatus' = IF prevStatus = "connecting" THEN wsStatus ELSE prevStatus
  /\ UNCHANGED <<panel, prevNodes>>
StatusEffect ==
  /\ prevStatus # wsStatus
  /\ PushAll(<<Notice("status", {wsStatus})>>)
  /\ prevStatus' = wsStatus
  /\ UNCHANGED <<panel, prevNodes>>

\* Mutant: the reference is set only when the quorum changed.
MutNodesEffect ==
  /\ prevNodes # nodes
  /\ PushAll(Differences(prevNodes, nodes))
  /\ prevNodes' = IF HasQuorum(prevNodes) # HasQuorum(nodes) THEN nodes ELSE prevNodes
  /\ UNCHANGED <<panel, prevStatus>>
\* The nodes effect; a run on an equal list pushes nothing.
NodesEffect ==
  /\ prevNodes # nodes
  /\ PushAll(Differences(prevNodes, nodes))
  /\ prevNodes' = nodes
  /\ UNCHANGED <<panel, prevStatus>>

-----------------------------------------------------------------------------
(* The panel *)

AllRead == [i \in DOMAIN notices |-> [notices[i] EXCEPT !.read = TRUE]]

\* The bell, with the effect on notificationsOpen.
TogglePanel ==
  /\ panel' = ~panel
  /\ notices' = IF panel THEN notices ELSE AllRead
  /\ UNCHANGED <<prevStatus, prevNodes>>

\* A click outside, the cross, Escape or Ctrl+K.
HidePanel == panel' = FALSE /\ UNCHANGED <<notices, prevStatus, prevNodes>>

Clear ==
  /\ panel
  /\ notices' = <<>>
  /\ UNCHANGED <<panel, prevStatus, prevNodes>>

-----------------------------------------------------------------------------
\* The effects' first runs: one notice, two under StrictMode, and the
\* references set.
FirstNotices == {<<Notice("start", {"start"})>>, <<Notice("start", {"start"}), Notice("start", {"start"})>>}

NoticesInit ==
  /\ wsStatus = "connecting"
  /\ notices \in FirstNotices
  /\ panel = FALSE
  /\ prevStatus = wsStatus
  /\ prevNodes = nodes

-----------------------------------------------------------------------------
(* Properties *)

NoticesTypeOK ==
  /\ wsStatus \in Status /\ prevStatus \in Status
  /\ notices \in Seq([about : Topics, says : SUBSET (Topics \cup Status), read : BOOLEAN])
  /\ Len(notices) <= NoticeLimit
  /\ panel \in BOOLEAN
  /\ prevNodes \in View

IsNewest(i) == \A j \in 1..i - 1 : notices[j].about # notices[i].about

\* Once the effects have run, the newest notice about the connection, a node,
\* the leader or the quorum says what the console shows, however many updates
\* one run covered and whatever was cleared or fell off the list.
NewestNoticeIsTrue ==
  prevStatus = wsStatus /\ prevNodes = nodes =>
    \A i \in DOMAIN notices :
      IsNewest(i) => notices[i].says = Fact(notices[i].about, nodes, wsStatus)

\* Notices report changes: two successive notices about the same thing never
\* say the same (no "Quorum Lost" twice, no second "Recovered").
NoticesAlternate ==
  \A i, j \in DOMAIN notices :
    /\ i < j /\ notices[i].about = notices[j].about /\ notices[i].about # "start"
    /\ \A k \in i + 1..j - 1 : notices[k].about # notices[i].about
    => notices[i].says # notices[j].says

\* The unread notices are the newest ones: opening the panel leaves none
\* behind, and one that arrives later is never taken for read.
UnreadAreNewest ==
  \A i, j \in DOMAIN notices : i < j /\ ~notices[j].read => ~notices[i].read
=============================================================================
