--------------------------- MODULE MCRunnerEngine ---------------------------
(***************************************************************************)
(* RunnerEngine on small graphs.                                           *)
(***************************************************************************)
EXTENDS RunnerEngine, TLC

CONSTANTS a, b, c, d

MCNode == {a, b, c, d}

\* A diamond: a feeds b and c, d waits for both.
Diamond == (a :> {}) @@ (b :> {a}) @@ (c :> {a}) @@ (d :> {b, c})

\* The plan brings a, b and d; c comes from an agent or a caller.
DiamondInitial == {a, b, d}
=============================================================================
