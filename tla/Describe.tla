------------------------------ MODULE Describe ------------------------------
(***************************************************************************)
(* The describe view of a request (orchestrator/describe.go): what a       *)
(* replay of the request's event log makes of its frames.  A frame is a    *)
(* sequence of events with the sequence number the request stream gave it; *)
(* an event carries the fields the view reads, "" where it has none.       *)
(***************************************************************************)
EXTENDS Integers, Sequences, SequencesExt, Functions

Blank == [type |-> "", layer |-> "", status |-> "", runner |-> "", node |-> "",
          phase |-> "", path |-> "", text |-> ""]

StatusEvents == {"status.started", "status.progress", "status.completed", "status.failed"}
NodeEvents   == {"node.started", "node.completed", "node.failed"}

\* An empty DescribeView
Fresh == [runner |-> "", phase |-> "", status |-> "", nodes |-> << >>,
          artifacts |-> << >>, seq |-> 0, ok |-> TRUE]

FirstNonEmpty(a, b) == IF a # "" THEN a ELSE b

\* upsertArtifact: one entry for a path of a node, the last description wins.
UpsertArtifact(artifacts, a) ==
    LET same == {i \in DOMAIN artifacts : artifacts[i].node = a.node /\ artifacts[i].path = a.path}
    IN  IF same = {} THEN Append(artifacts, a) ELSE [i \in DOMAIN artifacts |->
            IF i \in same THEN a ELSE artifacts[i]]

\* The node n with status s and, when e is not "", the error e.
PutNode(nodes, n, s, e) ==
    LET old == IF n \in DOMAIN nodes THEN nodes[n] ELSE [status |-> "", error |-> ""]
    IN  (n :> [status |-> s, error |-> FirstNonEmpty(e, old.error)]) @@ nodes

\* applyEvent, by type of event.  A node event without a node and an artifact
\* without a path end the replay with an error.
ApplyStatus(v, e) == [v EXCEPT !.status = IF e.type = "status.failed" THEN "failed" ELSE @]

ApplyPhase(v, e) == [v EXCEPT !.phase = FirstNonEmpty(e.phase, @), !.status = FirstNonEmpty(e.status, @)]

ApplyNode(v, e) ==
    IF e.node = "" THEN [v EXCEPT !.ok = FALSE]
    ELSE [v EXCEPT !.nodes = PutNode(@, e.node, e.status, IF e.type = "node.failed" THEN e.text ELSE "")]

ApplyArtifact(v, e) ==
    IF e.path = "" THEN [v EXCEPT !.ok = FALSE]
    ELSE [v EXCEPT !.artifacts = UpsertArtifact(@, [node |-> e.node, path |-> e.path, text |-> e.text])]

ApplyEvent(v, e) ==
    LET w == [v EXCEPT !.runner = FirstNonEmpty(@, e.runner)]
    IN  CASE ~v.ok                                        -> v
          [] e.type \in StatusEvents                      -> ApplyStatus(w, e)
          [] e.type = "phase"                             -> ApplyPhase(w, e)
          [] e.type \in NodeEvents \cup {"node.added"}    -> ApplyNode(w, e)
          [] e.type = "artifact"                          -> ApplyArtifact(w, e)
          [] OTHER                                        -> w

\* One frame: its events in order, and then its sequence number if it is newer.
ApplyFrame(v, f) ==
    LET w == FoldLeft(ApplyEvent, v, f.events)
    IN  [w EXCEPT !.seq = IF f.seq > @ THEN f.seq ELSE @]

\* ReplayDescribeView: the frames of the log after the cursor, into view.
ReplayDescribeView(view, cursor, log) ==
    FoldLeft(ApplyFrame, view, SelectSeq(log, LAMBDA f : f.seq >= cursor + 1))
=============================================================================
