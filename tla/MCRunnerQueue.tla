--------------------------- MODULE MCRunnerQueue ---------------------------
(* Instances of RunnerQueue for TLC: requests of two priorities. *)
EXTENDS RunnerQueue

CONSTANTS r1, r2, r3

MCPriority == [r \in Runner |-> IF r = r3 THEN 2 ELSE 1]
Three      == {r1, r2, r3}
First      == {r1}
Second     == {r2}
Last       == {r3}
=============================================================================
