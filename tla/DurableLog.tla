----------------------------- MODULE DurableLog -----------------------------
(***************************************************************************)
(* What a write-ahead log promises: entries are added at the end, a clean  *)
(* shutdown makes them permanent, and a failure keeps a prefix that holds  *)
(* at least the permanent ones.  An entry whose adding the failure cut     *)
(* short may be there or not.                                              *)
(***************************************************************************)
EXTENDS Naturals, Sequences

CONSTANT Entry

VARIABLES up, entries, stable

logVars == <<up, entries, stable>>

LogInit == up = FALSE /\ entries = <<>> /\ stable = 0

Start == ~up /\ up' = TRUE /\ UNCHANGED <<entries, stable>>

Put == /\ up
       /\ \E e \in Entry : entries' = Append(entries, e)
       /\ UNCHANGED <<up, stable>>

Shutdown == up /\ up' = FALSE /\ stable' = Len(entries) /\ UNCHANGED entries

Fail == /\ up' = FALSE
        /\ \E n \in stable..Len(entries) : entries' = SubSeq(entries, 1, n)
        /\ UNCHANGED stable

FailInPut == /\ up /\ up' = FALSE
             /\ \E e \in Entry : entries' = Append(entries, e)
             /\ UNCHANGED stable

LogNext == Start \/ Put \/ Shutdown \/ Fail \/ FailInPut

LogSpec == LogInit /\ [][LogNext]_logVars
=============================================================================
