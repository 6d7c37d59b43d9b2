----------------------------- MODULE ConsoleApp -----------------------------
(***************************************************************************)
(* The pages of the console together (App in frontend/src/App.tsx), over   *)
(* the store.  One page is mounted at a time.  AnimatePresence keeps the   *)
(* old page, alive and usable, until its exit animation ends; coming back  *)
(* before that keeps its state.  Then its state is dropped, while what it  *)
(* has started goes on.  What the gateway sends is any of a set of views;  *)
(* module ConsoleFeed has the socket and the polls.                        *)
(***************************************************************************)
EXTENDS Notices, Palette, TraceRunner, Explorer

CONSTANTS GatewayViews,  \* the views snapshots of the gateway may show
          MaxMoves       \* bound: what the user does and the feed brings

ASSUME AppAssumption == GatewayViews \subseteq View /\ MaxMoves \in Nat

VARIABLES page,   \* the mounted page
          moves

pagesVars == <<traceVars, explorerVars, page>>
vars == <<storeVars, wsStatus, noticesVars, paletteVars, pagesVars, moves>>

\* What the trace runner sees of the store.
Seen == [leader |-> Leader(nodes) # {}, quorum |-> HasQuorum(nodes)]

-----------------------------------------------------------------------------
(* The user *)

\* Ctrl+K and Escape also hide the notices.
HotKey == /\ ToggleSearch \/ CloseSearch
          /\ HidePanel
          /\ UNCHANGED <<storeVars, wsStatus, pagesVars>>

Shell == PaletteNext /\ UNCHANGED <<storeVars, wsStatus, noticesVars, pagesVars>>

Bell == /\ TogglePanel \/ (panel /\ HidePanel) \/ Clear
        /\ UNCHANGED <<storeVars, wsStatus, paletteVars, pagesVars>>

OnRaft ==
  /\ page = "raft"
  /\ \E o \in Op, n \in Node : Click(o, n)
  /\ UNCHANGED <<wsStatus, noticesVars, paletteVars, pagesVars>>

OnArchitecture ==
  /\ page = "architecture"
  /\ RunTrace(Seen) \/ Reset \/ \E b \in BOOLEAN : SetKey(b)
  /\ UNCHANGED <<storeVars, wsStatus, noticesVars, paletteVars, explorerVars, page>>

OnExplorer ==
  /\ page = "explorer"
  /\ Execute \/ \E o \in Ops, k \in Key \cup {EmptyKey} : Choose(o, k)
  /\ UNCHANGED <<storeVars, wsStatus, noticesVars, paletteVars, traceVars, page>>

\* The whole console is loaded anew; what was in flight is gone with it, and
\* its store and notices start over.
LoadAgain ==
  /\ Reload
  /\ page' = FirstTab
  /\ keyBlank' = FALSE /\ traceRunning' = FALSE /\ steps' = Idle /\ result' = "none"
  /\ runs' = <<>>
  /\ op' = "GET" /\ key' = EmptyKey /\ rows' = <<>> /\ requests' = <<>>
  /\ nodes' = FirstView /\ forcedDown' = {} /\ calls' = <<>> /\ events' = <<>>
  /\ wanted' = {} /\ race' = "none"
  /\ wsStatus' = "connecting" /\ prevStatus' = wsStatus' /\ prevNodes' = nodes'
  /\ notices' \in FirstNotices /\ panel' = FALSE
  /\ UNCHANGED clicks

-----------------------------------------------------------------------------
(* The feed *)

Snapshot(view) ==
  /\ SetNodes(view)
  /\ UNCHANGED <<forcedDown, calls, events, clicks, wanted, race, wsStatus>>
  /\ UNCHANGED <<noticesVars, paletteVars, pagesVars>>

SetStatus(s) ==
  /\ <<wsStatus, s>> \in {<<"connecting", "open">>, <<"connecting", "closed">>,
                          <<"open", "closed">>, <<"closed", "connecting">>}
  /\ wsStatus' = s
  /\ UNCHANGED <<storeVars, noticesVars, paletteVars, pagesVars>>

-----------------------------------------------------------------------------
(* The console's own steps *)

Effects == /\ StatusEffect \/ NodesEffect
           /\ UNCHANGED <<storeVars, wsStatus, paletteVars, pagesVars, moves>>

\* The exit animation of the old page ends.
Swap ==
  /\ page # tab
  /\ page' = tab
  /\ TraceUnmount /\ ExplorerUnmount /\ RaftUnmount
  /\ UNCHANGED <<wsStatus, noticesVars, paletteVars, moves>>

Trace == /\ TraceProgress
         /\ UNCHANGED <<storeVars, wsStatus, noticesVars, paletteVars, explorerVars, page, moves>>
Answered == /\ ExplorerProgress
            /\ UNCHANGED <<storeVars, wsStatus, noticesVars, paletteVars, traceVars, page, moves>>
Settled == /\ \E a \in Answer : \E i \in DOMAIN calls : Settle(i, a)
           /\ UNCHANGED <<wsStatus, noticesVars, paletteVars, pagesVars, moves>>

-----------------------------------------------------------------------------
Init == /\ StoreInit /\ NoticesInit /\ PaletteInit /\ TraceInit /\ ExplorerInit
        /\ page = FirstTab
        /\ moves = 0

Move ==
  /\ moves < MaxMoves
  /\ moves' = moves + 1
  /\ \/ HotKey \/ Shell \/ Bell \/ OnRaft \/ OnArchitecture \/ OnExplorer \/ LoadAgain
     \/ \E view \in GatewayViews : Snapshot(view)
     \/ \E s \in Status : SetStatus(s)

Next == Move \/ Effects \/ Swap \/ Trace \/ Answered \/ Settled

\* Animations and sleeps end, requests are answered.
Spec == Init /\ [][Next]_vars /\ WF_vars(Swap) /\ WF_vars(Trace) /\ WF_vars(Answered)

-----------------------------------------------------------------------------
(* Properties *)

\* Every variable has its type.
TypeOK == /\ StoreTypeOK /\ NoticesTypeOK /\ PaletteTypeOK /\ TraceTypeOK /\ ExplorerTypeOK
          /\ page \in Tab

\* Whatever the user leaves behind comes to an end: no run or request is
\* waited for forever, and no view stays in "Running...".
WorkEnds == <>[](runs = <<>> /\ requests = <<>> /\ ~traceRunning)
=============================================================================
