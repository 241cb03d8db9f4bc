------------------------------ MODULE RunnerLog ------------------------------
(* What a RunnerStore promises for one runner (src/runner/record.go): an       *)
(* append-only log anchored by one init record, whose sequence numbers count   *)
(* from 1 without gaps, and which Delete removes entirely.                     *)
EXTENDS Naturals, Sequences

CONSTANT Kind           \* record kinds; "init" is the anchor

VARIABLE log            \* what Load returns

Init == log = << >>

\* Append: the first record, and no other, is the init record.
Append_(k) ==
  /\ (k = "init") <=> (log = << >>)
  /\ log' = Append(log, [seq |-> Len(log) + 1, kind |-> k])

Delete == log' = << >>

Next == (\E k \in Kind : Append_(k)) \/ Delete

Spec == Init /\ [][Next]_log
=============================================================================
