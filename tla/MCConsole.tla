------------------------------ MODULE MCConsole ------------------------------
(* A console of a cluster of two nodes, for TLC.                            *)
EXTENDS ConsoleFeed

CONSTANTS n1, n2

Showing(healthy, leader) == [n \in Node |-> [healthy |-> n \in healthy, is_leader |-> n = leader]]

\* Both nodes up, and a failover to the second node.
MCViews == {Showing({n1, n2}, n1), Showing({n2}, n2)}
=============================================================================
