------------------------------ MODULE MCStream ------------------------------
(* Instances of Stream for TLC. *)
EXTENDS Stream

Settings(raw, wants, size, policy, last) ==
    [raw |-> raw, wants |-> wants, buffer |-> size, policy |-> policy,
     from |-> 0, last |-> last, noReplay |-> FALSE]

All == {"a", "b", "bundle"}

\* A plain event, and a merge bundle of two.
MCFrame == {[kind |-> "a", nested |-> <<>>], [kind |-> "bundle", nested |-> <<"b", "a">>]}

\* An expanding subscriber with a small buffer that asks for errors, and one that
\* gets raw frames.
TwoReaders == {"expanded", "raw"}
MCOption == [s \in {"expanded", "raw"} |->
               IF s = "raw" THEN Settings(TRUE, All, 0, "drop_newest", 2)
               ELSE Settings(FALSE, {"a", "b"}, 1, "error", 0)]

\* An expanding subscriber alone.
Strict == {"strict"}
StrictOption == [s \in Strict |-> Settings(FALSE, All, 1, "error", 0)]
=============================================================================
