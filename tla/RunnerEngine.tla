---------------------------- MODULE RunnerEngine ----------------------------
(***************************************************************************)
(* The event loop of Runner.runEngine (runner/runner.go): one goroutine    *)
(* that owns the node graph and reacts to four channels, and one goroutine *)
(* per executing node that reports back on resultCh.                       *)
(*                                                                         *)
(* The model starts where the prelude of runEngine ends (the loop is about *)
(* to select for the first time); the prelude and what happens after the   *)
(* loop returns are in RunnerLifecycle.  A node is identified by its id,   *)
(* and Parents gives the ids of its Parents slice.  The map "children" of  *)
(* the code is the inverse of Parents restricted to the added nodes and is *)
(* not kept as a variable.  Outputs are abstracted to the set of the ids   *)
(* that have one.                                                          *)
(***************************************************************************)
EXTENDS Integers, FiniteSets

CONSTANTS
    Node,       \* node ids that plans, agents and callers may name
    Parents,    \* Parents[n]: the ids in the Parents slice of node n
    Initial,    \* Runner.initialNodes, queued by launchEngine
    MaxAdds     \* bound on the AddNodes calls made by others than launchEngine

ASSUME NodeAssumption    == IsFiniteSet(Node)
ASSUME ParentsAssumption == Parents \in [Node -> SUBSET Node]
ASSUME InitialAssumption == Initial \subseteq Node
ASSUME MaxAddsAssumption == MaxAdds \in Nat

VARIABLES
    loop,            \* "running" until runEngine returns, then "stopped"
    ctxDone,         \* the engine context is canceled
    status,          \* RunnerState.Status as the engine writes it
    launched,        \* launchEngine has queued (or failed to queue) Initial
    addNodeCh,       \* the channel of capacity 1: {} or a singleton batch
    adds,            \* AddNodes calls made so far, at most MaxAdds
    nodes,           \* ids in the map "nodes"
    pendingParents,  \* the map of that name, 0 for ids not in "nodes"
    outputs,         \* ids in the map "outputs"
    activeCount,     \* the counter of that name
    exec,            \* where the goroutine of each node stands
    starts           \* number of node goroutines ever started, per node

vars == <<loop, ctxDone, status, launched, addNodeCh, adds, nodes,
          pendingParents, outputs, activeCount, exec, starts>>

Status == {"running", "idle", "failed", "canceled"}

(***************************************************************************)
(* A node goroutine is "executing" until Agent.Execute returns, then it    *)
(* holds its result ("returned" or "errored") until the loop takes it      *)
(* ("received") or it notices the canceled context ("dropped").            *)
(***************************************************************************)
ExecState == {"none", "executing", "returned", "errored", "received", "dropped"}

Init ==
    /\ loop = "running"
    /\ ctxDone = FALSE
    /\ status = "running"
    /\ launched = FALSE
    /\ addNodeCh = {}
    /\ adds = 0
    /\ nodes = {}
    /\ pendingParents = [n \in Node |-> 0]
    /\ outputs = {}
    /\ activeCount = 0
    /\ exec = [n \in Node |-> "none"]
    /\ starts = [n \in Node |-> 0]

-----------------------------------------------------------------------------
\* Callers of the engine

\* launchEngine queues the initial nodes, or gives up and cancels the engine
\* when its context is already done (select picks either when both are ready).
QueueInitial ==
    /\ ~launched
    /\ launched' = TRUE
    /\ \/ /\ Initial = {}
          /\ UNCHANGED <<addNodeCh, ctxDone>>
       \/ /\ Initial # {}
          /\ addNodeCh = {}
          /\ addNodeCh' = {Initial}
          /\ UNCHANGED ctxDone
       \/ /\ Initial # {}
          /\ ctxDone
          /\ UNCHANGED <<addNodeCh, ctxDone>>
    /\ UNCHANGED <<loop, status, adds, nodes, pendingParents, outputs,
                   activeCount, exec, starts>>

\* Runner.AddNodes called by anyone else: blocks while the channel is full.
AddNodes(batch) ==
    /\ adds < MaxAdds
    /\ addNodeCh = {}
    /\ adds' = adds + 1
    /\ addNodeCh' = {batch}
    /\ UNCHANGED <<loop, ctxDone, status, launched, nodes, pendingParents,
                   outputs, activeCount, exec, starts>>

\* The context is canceled: by Complete, or by whoever owns the parent context.
Cancel ==
    /\ ~ctxDone
    /\ ctxDone' = TRUE
    /\ UNCHANGED <<loop, status, launched, addNodeCh, adds, nodes,
                   pendingParents, outputs, activeCount, exec, starts>>

-----------------------------------------------------------------------------
\* Node goroutines

\* Agent.Execute returns, with an output or with an error.
ExecuteReturns(n) ==
    /\ exec[n] = "executing"
    /\ \E r \in {"returned", "errored"} : exec' = [exec EXCEPT ![n] = r]
    /\ UNCHANGED <<loop, ctxDone, status, launched, addNodeCh, adds, nodes,
                   pendingParents, outputs, activeCount, starts>>

\* Mutant: runEngine does not cancel the context when it returns.
DropResultIfCanceled(n) ==
    /\ exec[n] \in {"returned", "errored"}
    /\ ctxDone
    /\ exec' = [exec EXCEPT ![n] = "dropped"]
    /\ UNCHANGED <<loop, ctxDone, status, launched, addNodeCh, adds, nodes,
                   pendingParents, outputs, activeCount, starts>>

\* The goroutine sees ctx.Done before the loop takes its result.  runEngine
\* cancels the context when it returns.
DropResult(n) ==
    /\ exec[n] \in {"returned", "errored"}
    /\ ctxDone \/ loop = "stopped"
    /\ exec' = [exec EXCEPT ![n] = "dropped"]
    /\ UNCHANGED <<loop, ctxDone, status, launched, addNodeCh, adds, nodes,
                   pendingParents, outputs, activeCount, starts>>

-----------------------------------------------------------------------------
\* The event loop

\* Mutant: a parent that is not in the graph yet is not counted.
PendingKnownOnly(n, done) == Cardinality((Parents[n] \cap nodes) \ done)

\* pending as addNodesInternal counts it, given the set of ids with an output.
Pending(n, done) == Cardinality(Parents[n] \ done)

\* addNodesInternal: the counters once the nodes of fresh are in the graph.
AddedPending(fresh) ==
    [n \in Node |-> IF n \in fresh THEN Pending(n, outputs) ELSE pendingParents[n]]

\* addNodesInternal runs a node at once when nothing is pending for it.
ReadyAmong(fresh) == {n \in fresh : Pending(n, outputs) = 0}

\* exec after runNode succeeded for every node of S.
Running(S, e) == [n \in Node |-> IF n \in S THEN "executing" ELSE e[n]]

Started(S) == [n \in Node |-> IF n \in S THEN starts[n] + 1 ELSE starts[n]]

\* children[p] of the code for the graph G, minus the order of its elements.
Children(p, G) == {n \in G : p \in Parents[n]}

\* Mutant: a node that is in the graph already is added again.
HandleAddAgain ==
    /\ loop = "running"
    /\ \E batch \in addNodeCh :
          LET ready == ReadyAmong(batch)
          IN  /\ nodes' = nodes \cup batch
              /\ pendingParents' = AddedPending(batch)
              /\ exec' = Running(ready, exec)
              /\ starts' = Started(ready)
              /\ activeCount' = activeCount + Cardinality(ready)
              /\ status' = IF ready = {} THEN status ELSE "running"
    /\ addNodeCh' = {}
    /\ UNCHANGED <<loop, ctxDone, launched, adds, outputs>>

\* Mutant: a node that is started does not take the runner out of idle.
HandleAddStaysIdle ==
    /\ loop = "running"
    /\ \E batch \in addNodeCh :
          LET fresh == batch \ nodes
              ready == ReadyAmong(fresh)
          IN  /\ nodes' = nodes \cup fresh
              /\ pendingParents' = AddedPending(fresh)
              /\ exec' = Running(ready, exec)
              /\ starts' = Started(ready)
              /\ activeCount' = activeCount + Cardinality(ready)
    /\ addNodeCh' = {}
    /\ UNCHANGED <<loop, ctxDone, status, launched, adds, outputs>>

\* case newNodes := <-r.addNodeCh, no call inside it fails.
HandleAdd ==
    /\ loop = "running"
    /\ \E batch \in addNodeCh :
          LET fresh == batch \ nodes
              ready == ReadyAmong(fresh)
          IN  /\ nodes' = nodes \cup fresh
              /\ pendingParents' = AddedPending(fresh)
              /\ exec' = Running(ready, exec)
              /\ starts' = Started(ready)
              /\ activeCount' = activeCount + Cardinality(ready)
              /\ status' = IF ready = {} THEN status ELSE "running"
    /\ addNodeCh' = {}
    /\ UNCHANGED <<loop, ctxDone, launched, adds, outputs>>

\* The same case when persisting or preparing node bad fails: the nodes of the
\* batch before it are in the graph and running, bad is in the graph only.
HandleAddFails(before, bad) ==
    /\ loop = "running"
    /\ \E batch \in addNodeCh :
          /\ before \subseteq batch \ nodes
          /\ bad \in (batch \ nodes) \ before
    /\ LET ready == ReadyAmong(before)
       IN  /\ exec' = Running(ready, exec)
           /\ starts' = Started(ready)
           /\ activeCount' = activeCount + Cardinality(ready)
    /\ nodes' = nodes \cup before \cup {bad}
    /\ pendingParents' = AddedPending(before \cup {bad})
    /\ addNodeCh' = {}
    /\ loop' = "stopped"
    /\ status' = "failed"
    /\ UNCHANGED <<ctxDone, launched, adds, outputs>>

\* Mutant: the children of n are collected before its new nodes are added.
HandleResultOldChildren(n, dyn) ==
    /\ loop = "running"
    /\ exec[n] = "returned"
    /\ LET fresh == dyn \ nodes
           readyNew == ReadyAmong(fresh)
           added == AddedPending(fresh)
           kids == Children(n, nodes)
           readyKids == {c \in kids : added[c] = 1}
           ready == readyNew \cup readyKids
       IN  /\ nodes' = nodes \cup fresh
           /\ outputs' = outputs \cup {n}
           /\ pendingParents' =
                [c \in Node |-> IF c \in kids THEN added[c] - 1 ELSE added[c]]
           /\ exec' = [Running(ready, exec) EXCEPT ![n] = "received"]
           /\ starts' = Started(ready)
           /\ activeCount' = (activeCount + Cardinality(readyNew)
                                + Cardinality(readyKids)) - 1
           /\ status' = IF activeCount' = 0 THEN "idle"
                        ELSE IF ready = {} THEN status ELSE "running"
    /\ UNCHANGED <<loop, ctxDone, launched, addNodeCh, adds>>

\* case res := <-r.resultCh with an output and the new nodes dyn.  The new
\* nodes enter the graph while outputs does not yet hold n; then n completes,
\* its children (the new ones included) lose a pending parent, and those that
\* reach zero run.
HandleResult(n, dyn) ==
    /\ loop = "running"
    /\ exec[n] = "returned"
    /\ LET fresh == dyn \ nodes
           readyNew == ReadyAmong(fresh)
           added == AddedPending(fresh)
           kids == Children(n, nodes \cup fresh)
           readyKids == {c \in kids : added[c] = 1}
           ready == readyNew \cup readyKids
       IN  /\ nodes' = nodes \cup fresh
           /\ outputs' = outputs \cup {n}
           /\ pendingParents' =
                [c \in Node |-> IF c \in kids THEN added[c] - 1 ELSE added[c]]
           /\ exec' = [Running(ready, exec) EXCEPT ![n] = "received"]
           /\ starts' = Started(ready)
           /\ activeCount' = (activeCount + Cardinality(readyNew)
                                + Cardinality(readyKids)) - 1
           /\ status' = IF activeCount' = 0 THEN "idle"
                        ELSE IF ready = {} THEN status ELSE "running"
    /\ UNCHANGED <<loop, ctxDone, launched, addNodeCh, adds>>

\* The result is an error: the engine stops, the other goroutines see ctx.Done.
HandleError(n) ==
    /\ loop = "running"
    /\ exec[n] = "errored"
    /\ exec' = [exec EXCEPT ![n] = "received"]
    /\ activeCount' = activeCount - 1
    /\ loop' = "stopped"
    /\ status' = "failed"
    /\ UNCHANGED <<ctxDone, launched, addNodeCh, adds, nodes, pendingParents,
                   outputs, starts>>

\* A result with an output, but adding one of its new nodes fails: those before
\* it are in the graph and running, bad is in the graph only, and n never gets
\* its output.
HandleResultAddFails(n, before, bad) ==
    /\ loop = "running"
    /\ exec[n] = "returned"
    /\ before \cap nodes = {}
    /\ bad \notin nodes \cup before
    /\ LET ready == ReadyAmong(before)
       IN  /\ exec' = [Running(ready, exec) EXCEPT ![n] = "received"]
           /\ starts' = Started(ready)
           /\ activeCount' = (activeCount + Cardinality(ready)) - 1
    /\ nodes' = nodes \cup before \cup {bad}
    /\ pendingParents' = AddedPending(before \cup {bad})
    /\ loop' = "stopped"
    /\ status' = "failed"
    /\ UNCHANGED <<ctxDone, launched, addNodeCh, adds, outputs>>

\* A result with an output whose handling fails after n got it: the event, memo
\* or status could not be persisted, or one child failed.  The children in done
\* were handled; those in bad (at most one) lost a pending parent but could not
\* be started; the others were not reached or their handoff failed.
HandleResultLateFails(n, dyn, done, bad) ==
    /\ loop = "running"
    /\ exec[n] = "returned"
    /\ LET fresh == dyn \ nodes
           readyNew == ReadyAmong(fresh)
           added == AddedPending(fresh)
           kids == Children(n, nodes \cup fresh)
           readyKids == {c \in done : added[c] = 1}
           ready == readyNew \cup readyKids
       IN  /\ done \subseteq kids
           /\ bad \subseteq kids \ done
           /\ Cardinality(bad) <= 1
           /\ \A c \in bad : added[c] = 1
           /\ nodes' = nodes \cup fresh
           /\ pendingParents' =
                [c \in Node |-> IF c \in done \cup bad THEN added[c] - 1 ELSE added[c]]
           /\ exec' = [Running(ready, exec) EXCEPT ![n] = "received"]
           /\ starts' = Started(ready)
           /\ activeCount' = (activeCount + Cardinality(readyNew)
                                + Cardinality(readyKids)) - 1
    /\ outputs' = outputs \cup {n}
    /\ loop' = "stopped"
    /\ status' = "failed"
    /\ UNCHANGED <<ctxDone, launched, addNodeCh, adds>>

\* case <-ctx.Done()
HandleDone ==
    /\ loop = "running"
    /\ ctxDone
    /\ loop' = "stopped"
    /\ status' = "canceled"
    /\ UNCHANGED <<ctxDone, launched, addNodeCh, adds, nodes, pendingParents,
                   outputs, activeCount, exec, starts>>

-----------------------------------------------------------------------------
Next ==
    \/ QueueInitial
    \/ \E batch \in SUBSET Node : AddNodes(batch)
    \/ Cancel
    \/ \E n \in Node : ExecuteReturns(n) \/ DropResult(n)
    \/ HandleAdd
    \/ \E before \in SUBSET Node, bad \in Node : HandleAddFails(before, bad)
    \/ \E n \in Node : HandleError(n)
    \/ \E n \in Node, dyn \in SUBSET Node : HandleResult(n, dyn)
    \/ \E n, bad \in Node, before \in SUBSET Node : HandleResultAddFails(n, before, bad)
    \/ \E n \in Node, dyn, done, bad \in SUBSET Node :
          HandleResultLateFails(n, dyn, done, bad)
    \/ HandleDone

Spec == Init /\ [][Next]_vars

(***************************************************************************)
(* Go runs every goroutine that can run, and a blocked select proceeds     *)
(* once one of its cases stays ready; an agent's Execute is assumed to     *)
(* return.  Nobody is obliged to call AddNodes or to cancel, and no call   *)
(* is obliged to fail.                                                     *)
(***************************************************************************)
Fairness ==
    /\ WF_vars(QueueInitial)
    /\ WF_vars(HandleAdd)
    /\ WF_vars(HandleDone)
    /\ \A n \in Node : /\ WF_vars(ExecuteReturns(n))
                       /\ WF_vars(DropResult(n))
                       /\ WF_vars(HandleError(n))
                       /\ WF_vars(\E dyn \in SUBSET Node : HandleResult(n, dyn))

FairSpec == Spec /\ Fairness

-----------------------------------------------------------------------------
\* Properties

\* Every variable of the event loop holds a value of its type.
TypeOK ==
    /\ loop \in {"running", "stopped"}
    /\ ctxDone \in BOOLEAN
    /\ status \in Status
    /\ launched \in BOOLEAN
    /\ addNodeCh \in SUBSET (SUBSET Node)
    /\ adds \in 0 .. MaxAdds
    /\ nodes \in SUBSET Node
    /\ pendingParents \in [Node -> Int]
    /\ outputs \in SUBSET Node
    /\ activeCount \in Int
    /\ exec \in [Node -> ExecState]
    /\ starts \in [Node -> Nat]

\* Nodes whose goroutine was started and whose result the loop never took.
Active == {n \in Node : exec[n] \in {"executing", "returned", "errored", "dropped"}}

\* A node starts only after every parent has an output: runNode reads
\* outputs[p] for each parent, and would pass nil inputs otherwise.
StartsAfterParents == \A n \in Node : starts[n] > 0 => Parents[n] \subseteq outputs

\* No node is started twice, whatever mix of AddNodes batches, dynamic nodes
\* and completions the loop sees (runNode is called from two places).
StartedOnce == \A n \in Node : starts[n] <= 1

\* A node starts at most once, and then after all its parents.
StartsOnceAfterParents == StartsAfterParents /\ StartedOnce

\* No lost wakeup: while the loop runs, a node of the graph is not started
\* only if one of its parents still has no output, and its counter is exactly
\* the number of those parents (the counter set by addNodesInternal and the
\* decrements of the result case agree, new nodes depending on the very node
\* that returned them included).
WaitingIsJustified ==
    loop = "running" =>
        \A n \in nodes : /\ pendingParents[n] = Pending(n, outputs)
                         /\ starts[n] = 0 => ~(Parents[n] \subseteq outputs)

\* activeCount counts the goroutines whose result is still owed, on the error
\* paths too; the loop tells its caller it is idle from this counter alone.
ActiveCountExact == activeCount = Cardinality(Active)

\* While the loop runs the runner is reported idle exactly when some node has
\* completed and no goroutine is owed: acceptAndComplete completes the runner
\* on the first EngineIdle event.
IdleMeansQuiescent ==
    loop = "running" => (status = "idle" <=> (outputs # {} /\ Active = {}))

\* Parents has no cycle: every non-empty set has a member with no parent in it.
Acyclic == \A S \in (SUBSET Node) \ {{}} : \E n \in S : Parents[n] \cap S = {}

\* Every parent of a node of the graph is in the graph.
ParentsAdded == \A n \in nodes : Parents[n] \subseteq nodes

\* For an acyclic plan whose parents are all present, idle means that every
\* node of the graph has completed, so that the completion that
\* acceptAndComplete triggers never cuts work short.
IdleMeansComplete ==
    (Acyclic /\ ParentsAdded /\ loop = "running" /\ status = "idle")
        => nodes \subseteq outputs

\* acceptAndComplete may trust the idle status: nothing runs, and nothing is left
\* to run.
IdleIsHonest == IdleMeansQuiescent /\ IdleMeansComplete

\* Every node of an acyclic graph with all its parents eventually completes,
\* unless the engine stops (failure or cancellation).
NodesComplete ==
    \A n \in Node :
        (Acyclic /\ ParentsAdded /\ n \in nodes) ~> (n \in outputs \/ loop = "stopped")

\* Canceling the context (what Complete does) stops the loop, and a loop that
\* stops, canceled or failed, leaves no node goroutine behind that waits forever
\* for somebody to take its result from resultCh.
StopEndsGoroutines ==
    (ctxDone \/ loop = "stopped")
        ~> (loop = "stopped" /\ \A n \in Node : exec[n] \in {"none", "received", "dropped"})

\* The event loop gets to the end of the graph, or stops and takes every goroutine
\* it started with it.
EngineEnds == NodesComplete /\ StopEndsGoroutines
=============================================================================
