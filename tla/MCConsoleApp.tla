---------------------------- MODULE MCConsoleApp ----------------------------
(* The console's pages over a cluster of three nodes, for TLC.              *)
EXTENDS ConsoleApp

CONSTANTS n1, n2, n3

Showing(healthy, leader) == [n \in Node |-> [healthy |-> n \in healthy, is_leader |-> n = leader]]

\* A failover, and the loss of the quorum.
MCViews == {Showing({n2, n3}, n2), Showing({n3}, n3)}
MCOrder == <<n1, n2, n3>>

MCTabs == <<"dashboard", "explorer", "raft", "architecture">>
\* A query that matches two pages, and the empty one.
MCMatches == [q \in {"", "a"} |-> IF q = "a" THEN {"raft", "architecture"} ELSE {}]
=============================================================================
