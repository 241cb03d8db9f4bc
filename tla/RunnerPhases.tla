---------------------------- MODULE RunnerPhases ----------------------------
(***************************************************************************)
(* What a runner promises about its phase: the state diagram of            *)
(* architecture/runner-lifecycle.md and the comments of RunnerPhase.       *)
(* Settled is terminal, and Done closes, once, in the settled phase.       *)
(***************************************************************************)

VARIABLES phase, done

Init == phase = "created" /\ done = FALSE

\* The edges of the diagram other than those into settled.
Edge == {<<"created", "polishing">>, <<"created", "executing">>,
         <<"polishing", "awaiting_review">>,
         <<"awaiting_review", "executing">>, <<"awaiting_review", "awaiting_replan">>,
         <<"awaiting_replan", "polishing">>,
         <<"executing", "report">>}

Advance == <<phase, phase'>> \in Edge /\ UNCHANGED done

\* Abort settles from any phase, the engine from executing or report.
Settle == phase # "settled" /\ phase' = "settled" /\ UNCHANGED done

CloseDone == phase = "settled" /\ ~done /\ done' = TRUE /\ UNCHANGED phase

Next == Advance \/ Settle \/ CloseDone

Spec == Init /\ [][Next]_<<phase, done>>
=============================================================================
