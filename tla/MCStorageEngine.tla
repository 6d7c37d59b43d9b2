--------------------------- MODULE MCStorageEngine ---------------------------
(* Small instances of StorageEngine for TLC. *)
EXTENDS StorageEngine

MCKeys == 1..2
MCFourKeys == 1..4

\* A limit of one: a table's scan returns at most two of the four keys.
ShortScanShowsOnlyLive == ScanShowsOnlyLive(1)
=============================================================================
