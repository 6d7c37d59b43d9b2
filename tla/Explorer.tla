------------------------------ MODULE Explorer ------------------------------
(***************************************************************************)
(* The key explorer of the console (ExplorerView in frontend/src/App.tsx). *)
(* Execute sends the chosen operation on the key and adds a row to the     *)
(* history when the answer comes.  Nothing keeps the user from choosing    *)
(* another operation, or executing again, while an answer is awaited.      *)
(***************************************************************************)
EXTENDS Naturals, Sequences

CONSTANTS Key,        \* keys the user may type
          EmptyKey,
          RowLimit    \* rows kept (50 in the code)

ASSUME ExplorerAssumption == EmptyKey \notin Key /\ RowLimit \in Nat \ {0}

VARIABLES op, key, rows, requests

explorerVars == <<op, key, rows, requests>>

Ops == {"GET", "SET", "DEL", "SCAN"}
\* answers: the request the gateway's answer is about.
Row == [op : Ops, key : Key \cup {EmptyKey}, answers : Ops \X (Key \cup {EmptyKey}), ok : BOOLEAN]
Request == [op : Ops, key : Key \cup {EmptyKey}, mounted : BOOLEAN]

-----------------------------------------------------------------------------
\* The buttons, the input, and the examples, which fill in both.
Choose(o, k) == op' = o /\ key' = k /\ UNCHANGED <<rows, requests>>

Execute ==
  /\ key # EmptyKey \/ op = "SCAN"
  /\ requests' = Append(requests, [op |-> op, key |-> key, mounted |-> TRUE])
  /\ UNCHANGED <<op, key, rows>>

\* Mutant: the row names the operation that is chosen by now.
MutRowFor(r, ok) == [op |-> op, key |-> key, answers |-> <<r.op, r.key>>, ok |-> ok]
\* op and key are those of the render in which Execute was clicked.
RowFor(r, ok) == [op |-> r.op, key |-> r.key, answers |-> <<r.op, r.key>>, ok |-> ok]

\* An answer, or a failure, in any order; setRows of a view that is gone does nothing.
Response(i, ok) ==
  LET r == requests[i] IN
  /\ requests' = SubSeq(requests, 1, i - 1) \o SubSeq(requests, i + 1, Len(requests))
  /\ rows' = IF r.mounted
             THEN SubSeq(<<RowFor(r, ok)>> \o rows, 1,
                         IF Len(rows) < RowLimit THEN Len(rows) + 1 ELSE RowLimit)
             ELSE rows
  /\ UNCHANGED <<op, key>>

ExplorerUnmount ==
  /\ op' = "GET" /\ key' = EmptyKey /\ rows' = <<>>
  /\ requests' = [i \in DOMAIN requests |-> [requests[i] EXCEPT !.mounted = FALSE]]

ExplorerInit == op = "GET" /\ key = EmptyKey /\ rows = <<>> /\ requests = <<>>

ExplorerProgress == \E ok \in BOOLEAN : \E i \in DOMAIN requests : Response(i, ok)

-----------------------------------------------------------------------------
(* Properties *)

ExplorerTypeOK ==
  /\ op \in Ops /\ key \in Key \cup {EmptyKey}
  /\ rows \in Seq(Row) /\ Len(rows) <= RowLimit
  /\ requests \in Seq(Request)

\* Every row of the history shows an answer next to the operation and the key
\* it answers, whatever was chosen while it was under way.
RowsAreTrue == \A i \in DOMAIN rows : rows[i].answers = <<rows[i].op, rows[i].key>>
=============================================================================
