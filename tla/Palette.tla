------------------------------- MODULE Palette -------------------------------
(***************************************************************************)
(* The shell of the console (App in frontend/src/App.tsx): the open page,  *)
(* the command palette that switches pages, the list of recent choices,    *)
(* and the floating graph (FloatingMiniGraph).  The list and the graph's   *)
(* place are kept in the browser's local storage and read on the next load *)
(* of the page.                                                            *)
(***************************************************************************)
EXTENDS Naturals, Sequences, Lists

CONSTANTS TabOrder,     \* the pages, in the order of the menu
          Matches,      \* for each query, the pages it matches; none for Blank
          Blank,        \* a query that is empty once trimmed
          RecentLimit   \* recent choices kept (6 in the code)

VARIABLES tab, searchOpen, searchQuery, active, recents,
          collapsed, corner,
          storage       \* local storage

paletteVars == <<tab, searchOpen, searchQuery, active, recents, collapsed, corner, storage>>

Tab == {TabOrder[i] : i \in DOMAIN TabOrder}
Query == DOMAIN Matches
Corners == <<"bottom-right", "bottom-left", "top-right", "top-left">>
Corner == {Corners[i] : i \in DOMAIN Corners}

FirstTab == TabOrder[1]
\* What the list holds before anything is stored.
DefaultRecents == SubSeq(TabOrder, 1, IF Len(TabOrder) < 3 THEN Len(TabOrder) ELSE 3)

ASSUME PaletteAssumption == /\ TabOrder \in Seq(Tab) /\ TabOrder # <<>>
                            /\ \A i, j \in DOMAIN TabOrder : TabOrder[i] = TabOrder[j] => i = j
                            /\ RecentLimit \in Nat \ {0}
                            /\ Len(DefaultRecents) <= RecentLimit
                            /\ Blank \in Query /\ Matches[Blank] = {}
                            /\ \A q \in Query : Matches[q] \subseteq Tab

-----------------------------------------------------------------------------
(* Local storage: for each key nothing, or one string *)

Missing == <<>>
Cut(list) == SubSeq(list, 1, IF Len(list) < RecentLimit THEN Len(list) ELSE RecentLimit)
LoadRecents == IF storage.recents = Missing THEN DefaultRecents ELSE Cut(storage.recents[1])
LoadCollapsed == IF storage.collapsed = Missing THEN TRUE ELSE storage.collapsed = <<"true">>
LoadCorner == IF storage.corner # Missing /\ storage.corner[1] \in Corner THEN storage.corner[1]
              ELSE "bottom-right"
StringOf(b) == IF b THEN "true" ELSE "false"

-----------------------------------------------------------------------------
(* The palette *)

Hits == Filter(TabOrder, Matches[searchQuery])

Closed == searchOpen' = FALSE /\ searchQuery' = Blank /\ active' = 0

\* The list with t in front.
Touched(t) == Cut(<<t>> \o Filter(recents, Tab \ {t}))

\* Mutant: the list is saved as it was.
MutSelect(t) ==
  /\ tab' = t
  /\ recents' = Touched(t)
  /\ storage' = [storage EXCEPT !.recents = <<recents>>]
  /\ Closed
  /\ UNCHANGED <<collapsed, corner>>
\* selectSearchItem.
Select(t) ==
  /\ tab' = t
  /\ recents' = Touched(t)
  /\ storage' = [storage EXCEPT !.recents = <<recents'>>]
  /\ Closed
  /\ UNCHANGED <<collapsed, corner>>

\* Ctrl+K.
ToggleSearch ==
  /\ IF searchOpen THEN Closed ELSE searchOpen' = TRUE /\ UNCHANGED <<searchQuery, active>>
  /\ UNCHANGED <<tab, recents, collapsed, corner, storage>>

\* The Quick Search button.
OpenSearch ==
  /\ ~searchOpen
  /\ searchOpen' = TRUE
  /\ UNCHANGED <<tab, searchQuery, active, recents, collapsed, corner, storage>>

\* Escape, or a click outside.
CloseSearch ==
  /\ Closed
  /\ UNCHANGED <<tab, recents, collapsed, corner, storage>>

\* Mutant: the highlighted line stays.
MutType(q) ==
  /\ searchOpen
  /\ searchQuery' = q
  /\ UNCHANGED <<tab, searchOpen, active, recents, collapsed, corner, storage>>
Type(q) ==
  /\ searchOpen
  /\ searchQuery' = q
  /\ active' = 0
  /\ UNCHANGED <<tab, searchOpen, recents, collapsed, corner, storage>>

\* Arrow keys, and the mouse over a line.
Highlight ==
  /\ searchOpen
  /\ Hits # <<>>
  /\ \/ active' = (active + 1) % Len(Hits)
     \/ active' = (active + Len(Hits) - 1) % Len(Hits)
     \/ active' \in 0..Len(Hits) - 1
  /\ UNCHANGED <<tab, searchOpen, searchQuery, recents, collapsed, corner, storage>>

\* Enter: the highlighted line, or the first recent choice.
Enter ==
  /\ searchOpen
  /\ IF Hits # <<>> THEN Select(Hits[IF active < Len(Hits) THEN active + 1 ELSE 1])
     ELSE searchQuery = Blank /\ recents # <<>> /\ Select(recents[1])

\* A click on a line: the hits, or without a query the recent choices and every page.
Pick(t) ==
  /\ searchOpen
  /\ searchQuery = Blank \/ t \in Matches[searchQuery]
  /\ Select(t)

\* The menu.
Menu(t) ==
  /\ tab' = t
  /\ UNCHANGED <<searchOpen, searchQuery, active, recents, collapsed, corner, storage>>

-----------------------------------------------------------------------------
(* The graph, hidden on the first page *)

SetCollapsed(b) ==
  /\ tab # FirstTab
  /\ collapsed # b
  /\ collapsed' = b
  /\ storage' = [storage EXCEPT !.collapsed = <<StringOf(b)>>]
  /\ UNCHANGED <<tab, searchOpen, searchQuery, active, recents, corner>>

\* nextCorner, on the open graph.
NextCorner ==
  /\ tab # FirstTab
  /\ ~collapsed
  /\ LET at == CHOOSE i \in DOMAIN Corners : Corners[i] = corner
     IN  corner' = Corners[(at % Len(Corners)) + 1]
  /\ storage' = [storage EXCEPT !.corner = <<corner'>>]
  /\ UNCHANGED <<tab, searchOpen, searchQuery, active, recents, collapsed>>

-----------------------------------------------------------------------------
\* The page is loaded anew: everything starts over but for local storage, to
\* which the graph's effects write back what they read.
Reload ==
  /\ tab' = FirstTab
  /\ Closed
  /\ recents' = LoadRecents
  /\ collapsed' = LoadCollapsed
  /\ corner' = LoadCorner
  /\ storage' = [storage EXCEPT !.collapsed = <<StringOf(collapsed')>>, !.corner = <<corner'>>]

\* The first load, after the graph's effects have run.
PaletteInit ==
  /\ tab = FirstTab
  /\ searchOpen = FALSE /\ searchQuery = Blank /\ active = 0
  /\ recents = DefaultRecents
  /\ collapsed = TRUE /\ corner = "bottom-right"
  /\ storage = [recents |-> Missing, collapsed |-> <<"true">>, corner |-> <<"bottom-right">>]

\* All but the keys that also hide the notices.
PaletteNext ==
  \/ OpenSearch \/ (searchOpen /\ CloseSearch) \/ Highlight \/ Enter
  \/ \E q \in Query : Type(q)
  \/ \E t \in Tab : Pick(t) \/ Menu(t)
  \/ \E b \in BOOLEAN : SetCollapsed(b)
  \/ NextCorner

-----------------------------------------------------------------------------
(* Properties *)

PaletteTypeOK ==
  /\ tab \in Tab
  /\ searchOpen \in BOOLEAN /\ searchQuery \in Query /\ active \in Nat
  /\ recents \in Seq(Tab) /\ Len(recents) <= RecentLimit
  /\ collapsed \in BOOLEAN /\ corner \in Corner
  /\ storage \in [recents : Seq(Seq(Tab)), collapsed : Seq({"true", "false"}), corner : Seq(Corner)]

\* The highlighted line exists whatever was typed after the arrows were used,
\* and a palette that was closed, in any of the five ways, opens empty.
PaletteSound == /\ active = 0 \/ active < Len(Hits)
                /\ ~searchOpen => searchQuery = Blank /\ active = 0

\* Loading the page again at any moment shows the list and the graph as they
\* are: nothing the user changed is still unsaved, and the cut on loading, which
\* repeated choices could reach, loses nothing.
StorageIsCurrent == /\ recents = LoadRecents
                    /\ \A i, j \in DOMAIN recents : recents[i] = recents[j] => i = j
                    /\ collapsed = LoadCollapsed
                    /\ corner = LoadCorner
=============================================================================
