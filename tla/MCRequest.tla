----------------------------- MODULE MCRequest -----------------------------
EXTENDS Request

Reg(id, name, user, bound) == [id |-> id, name |-> name, user |-> user, bound |-> bound]

\* "x" comes with the system and is supplied by two users; one batch brings a
\* skill with a name of its own along, one a skill that is bound already.
MCBatches == [system |-> <<Reg(1, "x", FALSE, FALSE)>>,
              first  |-> <<Reg(2, "x", TRUE, FALSE), Reg(3, "y", FALSE, FALSE)>>,
              second |-> <<Reg(4, "x", TRUE, FALSE)>>,
              bound  |-> <<Reg(5, "z", TRUE, TRUE)>>]

Step(id, skill, deps) == [id |-> id, skill |-> skill, deps |-> deps]

MCRemovals == {<<"x">>, <<"x", "y">>}

MCRegistered == {<< >>, "x" :> [id |-> 0, user |-> FALSE, servers |-> {}]}

\* Plans that build when "x" is registered, and some that never do: an unknown
\* dependency, an id twice.
One  == <<Step("a", "x", {})>>
Two  == <<Step("a", "x", {}), Step("b", "x", {"a"})>>
Bad  == {<<Step("a", "x", {"c"})>>, <<Step("a", "x", {}), Step("a", "x", {})>>}

\* A plan that is a cycle, and one with a cycle next to a node that can run.
Cycle  == <<Step("a", "x", {"b"}), Step("b", "x", {"a"})>>
Cyclic == <<Step("a", "x", {}), Step("b", "x", {"c"}), Step("c", "x", {"b"})>>

Budget(c, f, k, d, ps, ts, b, m, o) ==
    [calls |-> c, faults |-> f, cancels |-> k, describes |-> d, plans |-> ps, texts |-> ts, buffer |-> b,
     depth |-> m, strict |-> o]

Drafted == <<"draft", "final">>

\* Calls of the registry; plans of every kind; a merge and a subscription that
\* overflow; an append that fails; another subscriber's overflow; a cancel; a describe.
MCBudgets ==
    {Budget(2, 0, 0, 0, {}, << >>, 9, 9, FALSE),
     Budget(0, 0, 0, 0, {Two, Cycle} \cup Bad, Drafted, 99, 99, FALSE),
     Budget(0, 0, 0, 0, {One}, << >>, 99, 2, FALSE),
     Budget(0, 0, 0, 0, {}, << >>, 1, 9, FALSE),
     Budget(0, 1, 0, 0, {One}, Drafted, 99, 99, FALSE),
     Budget(0, 0, 0, 0, {One}, << >>, 99, 99, TRUE),
     Budget(0, 0, 1, 0, {One}, << >>, 99, 99, FALSE),
     Budget(0, 0, 0, 1, {One}, Drafted, 99, 99, FALSE)}
MCCyclicBudgets == {Budget(0, 0, 0, 0, {Cyclic}, Drafted, 99, 99, FALSE)}
=============================================================================
