------------------------- MODULE MCRunnerLifecycle -------------------------
(* Instances of RunnerLifecycle for TLC. *)
EXTENDS RunnerLifecycle

Setup(mode, polishers, cancel, abort) ==
    [mode |-> mode, plan |-> mode = "managed", polishers |-> polishers,
     cancel |-> cancel, abort |-> abort]

\* A managed runner with one replan, and a bare one without a plan, which nobody
\* aborts or cancels from outside; a managed runner that someone may abort, and
\* one whose context may be canceled
MCSetups == {Setup("managed", <<"polish1", "polish2">>, FALSE, FALSE),
             Setup("bare", <<>>, FALSE, FALSE),
             Setup("managed", <<"polish1">>, FALSE, TRUE),
             Setup("managed", <<"polish1">>, TRUE, FALSE)}
=============================================================================
