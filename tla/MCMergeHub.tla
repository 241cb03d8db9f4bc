----------------------------- MODULE MCMergeHub -----------------------------
(* Instances of MergeHub for TLC. *)
EXTENDS MergeHub

\* Two upstreams: one with two events that can be joined and one that cannot, and
\* one with a single event.
Two == {"m1", "m2"}
TwoKeys == [m \in Two |-> IF m = "m1" THEN <<"x", "x", "none">> ELSE <<"x">>]

\* They have the same layer and id, or not.
SameIdentity  == [m \in Two |-> "a"]
OtherIdentity == [m \in Two |-> m]
=============================================================================
