------------------------- MODULE RunnerEngineProofs -------------------------
(***************************************************************************)
(* Safety of the runner's event loop, for every finite set of nodes and    *)
(* every graph on it.                                                      *)
(***************************************************************************)
EXTENDS RunnerEngine, FiniteSetTheorems, TLAPS

(***************************************************************************)
(* The inductive invariant.  The properties alone are not inductive: that  *)
(* a node starts once needs to know that a node in the graph with nothing  *)
(* pending has been started already, which needs the counters to be exact, *)
(* which needs that a node whose result is on its way has no output yet.   *)
(***************************************************************************)
StartsMatchExec ==
    \A n \in Node : /\ starts[n] \in {0, 1}
                    /\ starts[n] = 0 <=> exec[n] = "none"

StartedIsReady ==
    \A n \in Node : exec[n] # "none" => n \in nodes /\ Parents[n] \subseteq outputs

OutputsReceived ==
    /\ \A n \in outputs : exec[n] = "received"
    /\ loop = "running" => \A n \in Node : exec[n] = "received" => n \in outputs

CountersExact ==
    loop = "running" =>
        \A n \in nodes : /\ pendingParents[n] = Pending(n, outputs)
                         /\ exec[n] = "none" => ~(Parents[n] \subseteq outputs)

StatusExact ==
    loop = "running" => /\ status \in {"running", "idle"}
                        /\ status = "idle" <=> (outputs # {} /\ Active = {})

IndInv ==
    /\ TypeOK
    /\ StartsMatchExec
    /\ StartedIsReady
    /\ OutputsReceived
    /\ CountersExact
    /\ ActiveCountExact
    /\ StatusExact

-----------------------------------------------------------------------------
\* Finite sets and the counters built from them

\* Two disjoint sets of nodes are counted by adding their counts: runNode adds
\* one to activeCount per node it starts.
LEMMA DisjointCount ==
    ASSUME NEW S \in SUBSET Node, NEW T \in SUBSET Node, S \cap T = {}
    PROVE  /\ Cardinality(S \cup T) = Cardinality(S) + Cardinality(T)
           /\ Cardinality(S) \in Nat
           /\ Cardinality(T) \in Nat
<1>1. IsFiniteSet(S) /\ IsFiniteSet(T)
  BY NodeAssumption, FS_Subset
<1>2. Cardinality(S) \in Nat /\ Cardinality(T) \in Nat
  BY <1>1, FS_CardinalityType
<1>3. Cardinality(S \cap T) = 0
  BY FS_EmptySet
<1>4. Cardinality(S \cup T) = Cardinality(S) + Cardinality(T) - Cardinality(S \cap T)
  BY <1>1, FS_Union
<1> QED
  BY <1>2, <1>3, <1>4

\* Pending is a natural number, zero exactly for a node whose parents all have
\* an output, and it drops by one when a missing parent gets its output.
LEMMA PendingFacts ==
    ASSUME NEW n \in Node, NEW done \in SUBSET Node
    PROVE  /\ Pending(n, done) \in Nat
           /\ Pending(n, done) = 0 <=> Parents[n] \subseteq done
           /\ \A p \in Node \ done :
                Pending(n, done \cup {p}) =
                    IF p \in Parents[n] THEN Pending(n, done) - 1
                                        ELSE Pending(n, done)
<1> DEFINE M == Parents[n] \ done
<1>1. M \in SUBSET Node
  BY ParentsAssumption
<1>2. IsFiniteSet(M)
  BY <1>1, NodeAssumption, FS_Subset
<1>3. Cardinality(M) \in Nat
  BY <1>2, FS_CardinalityType
<1>4. Cardinality(M) = 0 <=> M = {}
  BY <1>2, FS_EmptySet
<1>5. ASSUME NEW p \in Node \ done
      PROVE  Cardinality(Parents[n] \ (done \cup {p})) =
                IF p \in Parents[n] THEN Cardinality(M) - 1 ELSE Cardinality(M)
  <2>1. Parents[n] \ (done \cup {p}) = M \ {p}
    OBVIOUS
  <2>2. p \in M <=> p \in Parents[n]
    OBVIOUS
  <2> QED
    BY <1>2, <2>1, <2>2, FS_RemoveElement
<1> QED
  BY <1>3, <1>4, <1>5 DEF Pending

\* What starting the nodes of S does to the bookkeeping of the goroutines, when
\* each of them is in the graph, has its inputs and was never started.
LEMMA StartNodes ==
    ASSUME IndInv,
           NEW S \in SUBSET Node,
           \A x \in S : /\ exec[x] = "none"
                        /\ x \in nodes'
                        /\ Parents[x] \subseteq outputs',
           nodes \subseteq nodes', outputs \subseteq outputs',
           exec' = Running(S, exec),
           starts' = Started(S),
           activeCount' = activeCount + Cardinality(S)
    PROVE  /\ exec' \in [Node -> ExecState]
           /\ starts' \in [Node -> Nat]
           /\ activeCount' \in Int
           /\ StartsMatchExec'
           /\ StartedIsReady'
           /\ ActiveCountExact'
           /\ Active' = Active \cup S
<1>1. exec' \in [Node -> ExecState] /\ starts' \in [Node -> Nat]
  BY DEF IndInv, TypeOK, Running, Started, ExecState
<1>2. StartsMatchExec'
  BY DEF IndInv, TypeOK, StartsMatchExec, Running, Started
<1>3. StartedIsReady'
  BY DEF IndInv, TypeOK, StartedIsReady, Running
<1>4. Active' = Active \cup S
  BY DEF IndInv, TypeOK, Active, Running
<1>5. Active \cap S = {} /\ Active \in SUBSET Node
  BY DEF Active
<1>6. activeCount' \in Int /\ ActiveCountExact'
  <2>1. Cardinality(Active \cup S) = Cardinality(Active) + Cardinality(S)
    BY <1>5, DisjointCount
  <2>2. Cardinality(Active) \in Nat /\ Cardinality(S) \in Nat
    BY <1>5, DisjointCount
  <2> QED
    BY <1>4, <2>1, <2>2 DEF IndInv, ActiveCountExact
<1> QED
  BY <1>1, <1>2, <1>3, <1>4, <1>6

\* The same when the loop first takes the result of node n.
LEMMA TakeResultAndStartNodes ==
    ASSUME IndInv,
           NEW n \in Node, n \in Active,
           NEW S \in SUBSET Node,
           \A x \in S : /\ exec[x] = "none"
                        /\ x \in nodes'
                        /\ Parents[x] \subseteq outputs',
           nodes \subseteq nodes', outputs \subseteq outputs',
           exec' = [Running(S, exec) EXCEPT ![n] = "received"],
           starts' = Started(S),
           activeCount' = (activeCount + Cardinality(S)) - 1
    PROVE  /\ exec' \in [Node -> ExecState]
           /\ starts' \in [Node -> Nat]
           /\ activeCount' \in Int
           /\ StartsMatchExec'
           /\ StartedIsReady'
           /\ ActiveCountExact'
           /\ Active' = (Active \ {n}) \cup S
<1>0. exec[n] # "none" /\ n \notin S
  BY DEF Active
<1>1. exec' \in [Node -> ExecState] /\ starts' \in [Node -> Nat]
  BY DEF IndInv, TypeOK, Running, Started, ExecState
<1>2. StartsMatchExec'
  BY <1>0 DEF IndInv, TypeOK, StartsMatchExec, Running, Started
<1>3. StartedIsReady'
  BY <1>0 DEF IndInv, TypeOK, StartedIsReady, Running
<1>4. Active' = (Active \ {n}) \cup S
  BY <1>0 DEF IndInv, TypeOK, Active, Running
<1>5. (Active \ {n}) \cap S = {} /\ Active \in SUBSET Node /\ Active \ {n} \in SUBSET Node
  BY DEF Active
<1>6. activeCount' \in Int /\ ActiveCountExact'
  <2>1. /\ Cardinality((Active \ {n}) \cup S) = Cardinality(Active \ {n}) + Cardinality(S)
        /\ Cardinality(S) \in Nat
    BY <1>5, DisjointCount
  <2>2. IsFiniteSet(Active)
    BY <1>5, NodeAssumption, FS_Subset
  <2>3. Cardinality(Active \ {n}) = Cardinality(Active) - 1 /\ Cardinality(Active) \in Nat
    BY <2>2, FS_RemoveElement, FS_CardinalityType
  <2> QED
    BY <1>4, <2>1, <2>3 DEF IndInv, ActiveCountExact
<1> QED
  BY <1>1, <1>2, <1>3, <1>4, <1>6

\* What addNodesInternal computes for nodes that are not in the graph yet.
LEMMA AddFacts ==
    ASSUME IndInv, loop = "running", NEW fresh \in SUBSET (Node \ nodes)
    PROVE  /\ AddedPending(fresh) \in [Node -> Int]
           /\ \A x \in nodes \cup fresh : AddedPending(fresh)[x] = Pending(x, outputs)
           /\ \A x \in fresh : exec[x] = "none" /\ x \in Node
           /\ \A x \in fresh : x \in ReadyAmong(fresh) <=> Parents[x] \subseteq outputs
           /\ ReadyAmong(fresh) \subseteq fresh
<1>1. \A x \in Node : /\ Pending(x, outputs) \in Nat
                      /\ Pending(x, outputs) = 0 <=> Parents[x] \subseteq outputs
  BY PendingFacts DEF IndInv, TypeOK
<1>2. AddedPending(fresh) \in [Node -> Int]
  BY <1>1 DEF IndInv, TypeOK, AddedPending
<1>3. \A x \in nodes \cup fresh : AddedPending(fresh)[x] = Pending(x, outputs)
  BY DEF IndInv, TypeOK, AddedPending, CountersExact
<1>4. \A x \in fresh : exec[x] = "none" /\ x \in Node
  BY DEF IndInv, StartedIsReady
<1> QED
  BY <1>1, <1>2, <1>3, <1>4 DEF ReadyAmong

-----------------------------------------------------------------------------
\* One lemma per action that changes the graph

\* Taking a batch from addNodeCh keeps the invariant: fresh nodes get an exact
\* counter and those with nothing pending are started and counted.
LEMMA HandleAddStep ==
    ASSUME IndInv, HandleAdd
    PROVE  IndInv'
<1>1. PICK batch \in addNodeCh :
          LET fresh == batch \ nodes
              ready == ReadyAmong(fresh)
          IN  /\ nodes' = nodes \cup fresh
              /\ pendingParents' = AddedPending(fresh)
              /\ exec' = Running(ready, exec)
              /\ starts' = Started(ready)
              /\ activeCount' = activeCount + Cardinality(ready)
              /\ status' = IF ready = {} THEN status ELSE "running"
  BY DEF HandleAdd
<1> DEFINE fresh == batch \ nodes
           ready == ReadyAmong(fresh)
<1>2. /\ loop = "running" /\ loop' = loop /\ outputs' = outputs
      /\ ctxDone' = ctxDone /\ launched' = launched /\ adds' = adds
      /\ addNodeCh' = {}
  BY DEF HandleAdd
<1>3. fresh \in SUBSET (Node \ nodes)
  BY DEF IndInv, TypeOK
<1>4. /\ AddedPending(fresh) \in [Node -> Int]
      /\ \A x \in nodes \cup fresh : AddedPending(fresh)[x] = Pending(x, outputs)
      /\ \A x \in fresh : exec[x] = "none" /\ x \in Node
      /\ \A x \in fresh : x \in ready <=> Parents[x] \subseteq outputs
      /\ ready \subseteq fresh
  BY <1>2, <1>3, AddFacts
<1> HIDE DEF ready
<1>5. /\ exec' \in [Node -> ExecState]
      /\ starts' \in [Node -> Nat]
      /\ activeCount' \in Int
      /\ StartsMatchExec'
      /\ StartedIsReady'
      /\ ActiveCountExact'
      /\ Active' = Active \cup ready
  <2>1. ready \in SUBSET Node
    BY <1>4
  <2>2. \A x \in ready : exec[x] = "none" /\ x \in nodes' /\ Parents[x] \subseteq outputs'
    BY <1>1, <1>2, <1>4
  <2> QED
    BY <1>1, <1>2, <2>1, <2>2, StartNodes DEF ready
<1>6. TypeOK'
  BY <1>1, <1>2, <1>3, <1>4, <1>5 DEF IndInv, TypeOK, Status
<1>7. OutputsReceived'
  BY <1>1, <1>2, <1>4 DEF IndInv, TypeOK, OutputsReceived, Running, ready
<1>8. CountersExact'
  <2> SUFFICES ASSUME NEW x \in nodes'
               PROVE  /\ pendingParents'[x] = Pending(x, outputs)
                      /\ exec'[x] = "none" => ~(Parents[x] \subseteq outputs)
    BY <1>2 DEF CountersExact, Pending
  <2>1. pendingParents'[x] = Pending(x, outputs)
    BY <1>1, <1>4
  <2>2. CASE x \in nodes
    BY <1>1, <1>2, <1>4, <2>2 DEF IndInv, TypeOK, CountersExact, Running, ready
  <2>3. CASE x \in fresh
    BY <1>1, <1>2, <1>4, <2>3 DEF Running, ready
  <2> QED
    BY <1>1, <2>1, <2>2, <2>3
<1>9. StatusExact'
  BY <1>1, <1>2, <1>5 DEF IndInv, StatusExact, ready
<1> QED
  BY <1>5, <1>6, <1>7, <1>8, <1>9 DEF IndInv

\* The same when a node of the batch cannot be added or started.
LEMMA HandleAddFailsStep ==
    ASSUME IndInv, NEW before \in SUBSET Node, NEW bad \in Node,
           HandleAddFails(before, bad)
    PROVE  IndInv'
<1> DEFINE ready == ReadyAmong(before)
<1>1. /\ loop = "running" /\ loop' = "stopped" /\ outputs' = outputs
      /\ ctxDone' = ctxDone /\ launched' = launched /\ adds' = adds
      /\ addNodeCh' = {} /\ status' = "failed"
      /\ nodes' = nodes \cup before \cup {bad}
      /\ pendingParents' = AddedPending(before \cup {bad})
      /\ exec' = Running(ready, exec)
      /\ starts' = Started(ready)
      /\ activeCount' = activeCount + Cardinality(ready)
  BY DEF HandleAddFails
<1>2. before \in SUBSET (Node \ nodes) /\ before \cup {bad} \in SUBSET (Node \ nodes)
  BY DEF HandleAddFails
<1>3. AddedPending(before \cup {bad}) \in [Node -> Int]
  BY <1>1, <1>2, AddFacts
<1>4. /\ \A x \in before : exec[x] = "none" /\ x \in Node
      /\ \A x \in before : x \in ready <=> Parents[x] \subseteq outputs
      /\ ready \subseteq before
  BY <1>1, <1>2, AddFacts
<1> HIDE DEF ready
<1>5. /\ exec' \in [Node -> ExecState]
      /\ starts' \in [Node -> Nat]
      /\ activeCount' \in Int
      /\ StartsMatchExec'
      /\ StartedIsReady'
      /\ ActiveCountExact'
  <2>1. ready \in SUBSET Node
    BY <1>4
  <2>2. \A x \in ready : exec[x] = "none" /\ x \in nodes' /\ Parents[x] \subseteq outputs'
    BY <1>1, <1>4
  <2> QED
    BY <1>1, <2>1, <2>2, StartNodes
<1>6. TypeOK'
  BY <1>1, <1>3, <1>5 DEF IndInv, TypeOK, Status
<1>7. OutputsReceived'
  BY <1>1, <1>4 DEF IndInv, TypeOK, OutputsReceived, Running
<1>8. CountersExact' /\ StatusExact'
  BY <1>1 DEF CountersExact, StatusExact
<1> QED
  BY <1>5, <1>6, <1>7, <1>8 DEF IndInv

\* The nodes that a result makes ready: the new ones without a missing parent
\* and the children for which n was the last one.
MakesReady(n, fresh) ==
    LET readyNew == ReadyAmong(fresh)
        added == AddedPending(fresh)
        kids == Children(n, nodes \cup fresh)
        readyKids == {c \in kids : added[c] = 1}
    IN  /\ n \in Active /\ n \notin outputs
        /\ readyNew \in SUBSET Node /\ readyKids \in SUBSET Node
        /\ readyNew \cap readyKids = {}
        /\ \A x \in readyNew \cup readyKids : /\ exec[x] = "none"
                                             /\ x \in nodes \cup fresh
                                             /\ Parents[x] \subseteq outputs \cup {n}
        /\ \A c \in nodes \cup fresh :
              Pending(c, outputs \cup {n}) =
                 IF c \in kids THEN added[c] - 1 ELSE added[c]
        /\ \A c \in nodes \cup fresh :
              exec[c] = "none" /\ Parents[c] \subseteq outputs \cup {n}
                 => c \in readyNew \cup readyKids

\* A result makes exactly those nodes ready.
LEMMA ResultFacts ==
    ASSUME IndInv, loop = "running",
           NEW n \in Node, exec[n] = "returned", NEW fresh \in SUBSET (Node \ nodes)
    PROVE  MakesReady(n, fresh)
<1> DEFINE readyNew == ReadyAmong(fresh)
           added == AddedPending(fresh)
           kids == Children(n, nodes \cup fresh)
           readyKids == {c \in kids : added[c] = 1}
<1>1. n \in Active /\ n \notin outputs
  BY DEF IndInv, OutputsReceived, Active
<1>2. /\ \A x \in nodes \cup fresh : added[x] = Pending(x, outputs)
      /\ \A x \in fresh : exec[x] = "none" /\ x \in Node
      /\ \A x \in fresh : x \in readyNew <=> Parents[x] \subseteq outputs
      /\ readyNew \subseteq fresh
  BY AddFacts
<1> HIDE DEF added, readyNew
<1>3. outputs \in SUBSET Node /\ outputs \cup {n} \in SUBSET Node /\ nodes \subseteq Node
  BY DEF IndInv, TypeOK
<1>4. \A c \in nodes \cup fresh :
         /\ Pending(c, outputs) \in Nat
         /\ Pending(c, outputs) = 0 <=> Parents[c] \subseteq outputs
         /\ Pending(c, outputs \cup {n}) =
               IF n \in Parents[c] THEN Pending(c, outputs) - 1 ELSE Pending(c, outputs)
         /\ Pending(c, outputs \cup {n}) = 0 <=> Parents[c] \subseteq outputs \cup {n}
  <2> TAKE c \in nodes \cup fresh
  <2>1. c \in Node /\ n \in Node \ outputs
    BY <1>1, <1>3
  <2> QED
    BY <1>3, <2>1, PendingFacts
<1>5. kids = {c \in nodes \cup fresh : n \in Parents[c]}
  BY DEF Children
<1> HIDE DEF kids
<1>6. readyNew \in SUBSET Node /\ readyKids \in SUBSET Node
  BY <1>2, <1>3, <1>5
<1>7. readyNew \cap readyKids = {}
  BY <1>1, <1>2, <1>5
<1>8. \A x \in readyKids : /\ exec[x] = "none"
                           /\ x \in nodes \cup fresh
                           /\ Parents[x] \subseteq outputs \cup {n}
  <2> TAKE x \in readyKids
  <2>1. x \in nodes \cup fresh /\ n \in Parents[x] /\ Pending(x, outputs) = 1
    BY <1>2, <1>5
  <2>2. ~(Parents[x] \subseteq outputs) /\ Parents[x] \subseteq outputs \cup {n}
    BY <1>4, <2>1
  <2> QED
    BY <1>3, <2>1, <2>2 DEF IndInv, StartedIsReady
<1>9. \A c \in nodes \cup fresh :
         Pending(c, outputs \cup {n}) = IF c \in kids THEN added[c] - 1 ELSE added[c]
  BY <1>2, <1>4, <1>5
<1>10. ASSUME NEW c \in nodes \cup fresh, exec[c] = "none",
              Parents[c] \subseteq outputs \cup {n}
       PROVE  c \in readyNew \cup readyKids
  <2>1. CASE n \in Parents[c]
    <3>1. Pending(c, outputs) = 1
      BY <1>4, <1>10, <2>1
    <3> QED
      BY <1>2, <1>5, <2>1, <3>1
  <2>2. CASE n \notin Parents[c]
    <3>1. Parents[c] \subseteq outputs
      BY <1>10, <2>2
    <3>2. c \in fresh
      BY <1>10, <3>1 DEF IndInv, CountersExact
    <3> QED
      BY <1>2, <3>1, <3>2
  <2> QED
    BY <2>1, <2>2
<1>11. \A x \in readyNew : /\ exec[x] = "none"
                           /\ x \in nodes \cup fresh
                           /\ Parents[x] \subseteq outputs \cup {n}
  BY <1>2
<1> QED
  BY <1>1, <1>6, <1>7, <1>8, <1>9, <1>10, <1>11 DEF added, readyNew, kids, MakesReady

\* A result with an output keeps the invariant: the counters of the children
\* follow the new output, and exactly the children that reach zero are started.
LEMMA HandleResultStep ==
    ASSUME IndInv, NEW n \in Node, NEW dyn \in SUBSET Node, HandleResult(n, dyn)
    PROVE  IndInv'
<1> DEFINE fresh == dyn \ nodes
           readyNew == ReadyAmong(fresh)
           added == AddedPending(fresh)
           kids == Children(n, nodes \cup fresh)
           readyKids == {c \in kids : added[c] = 1}
           ready == readyNew \cup readyKids
<1>1. /\ loop = "running" /\ loop' = "running" /\ exec[n] = "returned"
      /\ ctxDone' = ctxDone /\ launched' = launched /\ adds' = adds
      /\ addNodeCh' = addNodeCh
      /\ nodes' = nodes \cup fresh
      /\ outputs' = outputs \cup {n}
      /\ pendingParents' = [c \in Node |-> IF c \in kids THEN added[c] - 1 ELSE added[c]]
      /\ exec' = [Running(ready, exec) EXCEPT ![n] = "received"]
      /\ starts' = Started(ready)
      /\ activeCount' = (activeCount + Cardinality(readyNew) + Cardinality(readyKids)) - 1
      /\ status' = IF activeCount' = 0 THEN "idle"
                   ELSE IF ready = {} THEN status ELSE "running"
  BY DEF HandleResult
<1>2. fresh \in SUBSET (Node \ nodes)
  OBVIOUS
<1>3. added \in [Node -> Int]
  BY <1>1, <1>2, AddFacts
<1>4. /\ n \in Active /\ n \notin outputs
      /\ readyNew \in SUBSET Node /\ readyKids \in SUBSET Node
      /\ readyNew \cap readyKids = {}
      /\ \A x \in ready : /\ exec[x] = "none"
                          /\ x \in nodes \cup fresh
                          /\ Parents[x] \subseteq outputs \cup {n}
      /\ \A c \in nodes \cup fresh :
            Pending(c, outputs \cup {n}) = IF c \in kids THEN added[c] - 1 ELSE added[c]
      /\ \A c \in nodes \cup fresh :
            exec[c] = "none" /\ Parents[c] \subseteq outputs \cup {n} => c \in ready
  <2>1. loop = "running" /\ exec[n] = "returned"
    BY <1>1
  <2> HIDE DEF fresh
  <2>2. MakesReady(n, fresh)
    BY <1>2, <2>1, ResultFacts
  <2> QED
    BY <2>2, Zenon DEF MakesReady
<1> HIDE DEF fresh, readyNew, added, kids, readyKids
<1>5. activeCount' = (activeCount + Cardinality(ready)) - 1
  <2>1. /\ Cardinality(ready) = Cardinality(readyNew) + Cardinality(readyKids)
        /\ Cardinality(readyNew) \in Nat /\ Cardinality(readyKids) \in Nat
    BY <1>4, DisjointCount
  <2> QED
    BY <1>1, <2>1 DEF IndInv, TypeOK
<1>6. /\ exec' \in [Node -> ExecState]
      /\ starts' \in [Node -> Nat]
      /\ activeCount' \in Int
      /\ StartsMatchExec'
      /\ StartedIsReady'
      /\ ActiveCountExact'
      /\ Active' = (Active \ {n}) \cup ready
  <2>1. ready \in SUBSET Node
    BY <1>4
  <2>2. \A x \in ready : exec[x] = "none" /\ x \in nodes' /\ Parents[x] \subseteq outputs'
    BY <1>1, <1>4
  <2>3. nodes \subseteq nodes' /\ outputs \subseteq outputs'
    BY <1>1
  <2> HIDE DEF ready
  <2> QED
    BY <1>1, <1>4, <1>5, <2>1, <2>2, <2>3, TakeResultAndStartNodes
<1>7. status' \in {"running", "idle"}
  BY <1>1 DEF IndInv, StatusExact
<1>8. TypeOK'
  <2>1. pendingParents' \in [Node -> Int]
    BY <1>1, <1>3
  <2>2. nodes' \in SUBSET Node /\ outputs' \in SUBSET Node
    BY <1>1, <1>2 DEF IndInv, TypeOK
  <2> QED
    BY <1>1, <1>6, <1>7, <2>1, <2>2 DEF IndInv, TypeOK, Status
<1>9. OutputsReceived'
  BY <1>1, <1>4 DEF IndInv, TypeOK, OutputsReceived, Running
<1>10. CountersExact'
  <2> SUFFICES ASSUME NEW x \in nodes'
               PROVE  /\ pendingParents'[x] = Pending(x, outputs')
                      /\ exec'[x] = "none" => ~(Parents[x] \subseteq outputs')
    BY DEF CountersExact, Pending
  <2>1. x \in Node /\ x \in nodes \cup fresh
    BY <1>1, <1>8 DEF TypeOK
  <2>2. pendingParents'[x] = Pending(x, outputs')
    BY <1>1, <1>4, <2>1
  <2>3. exec'[x] = "none" => exec[x] = "none" /\ x \notin ready
    BY <1>1, <2>1 DEF IndInv, TypeOK, Running
  <2> QED
    BY <1>1, <1>4, <2>1, <2>2, <2>3
<1>11. StatusExact'
  <2>1. activeCount' = 0 <=> Active' = {}
    <3>1. Active' \in SUBSET Node
      BY <1>8 DEF Active, TypeOK
    <3>2. IsFiniteSet(Active')
      BY <3>1, NodeAssumption, FS_Subset
    <3> QED
      BY <1>6, <3>2, FS_EmptySet DEF ActiveCountExact
  <2>2. status = "running"
    BY <1>1, <1>4 DEF IndInv, StatusExact
  <2>3. outputs' # {}
    BY <1>1
  <2> QED
    BY <1>1, <1>7, <2>1, <2>2, <2>3 DEF StatusExact
<1> QED
  BY <1>6, <1>8, <1>9, <1>10, <1>11 DEF IndInv

\* A result one of whose new nodes cannot be added stops the loop and keeps the
\* invariant.
LEMMA HandleResultAddFailsStep ==
    ASSUME IndInv, NEW n \in Node, NEW before \in SUBSET Node, NEW bad \in Node,
           HandleResultAddFails(n, before, bad)
    PROVE  IndInv'
<1> DEFINE ready == ReadyAmong(before)
<1>1. /\ loop = "running" /\ loop' = "stopped" /\ exec[n] = "returned"
      /\ outputs' = outputs
      /\ ctxDone' = ctxDone /\ launched' = launched /\ adds' = adds
      /\ addNodeCh' = addNodeCh /\ status' = "failed"
      /\ nodes' = nodes \cup before \cup {bad}
      /\ pendingParents' = AddedPending(before \cup {bad})
      /\ exec' = [Running(ready, exec) EXCEPT ![n] = "received"]
      /\ starts' = Started(ready)
      /\ activeCount' = (activeCount + Cardinality(ready)) - 1
  BY DEF HandleResultAddFails
<1>2. before \in SUBSET (Node \ nodes) /\ before \cup {bad} \in SUBSET (Node \ nodes)
  BY DEF HandleResultAddFails
<1>3. AddedPending(before \cup {bad}) \in [Node -> Int]
  BY <1>1, <1>2, AddFacts
<1>4. /\ \A x \in before : exec[x] = "none" /\ x \in Node
      /\ \A x \in before : x \in ready <=> Parents[x] \subseteq outputs
      /\ ready \subseteq before
  BY <1>1, <1>2, AddFacts
<1> HIDE DEF ready
<1>5. n \in Active
  BY <1>1 DEF Active
<1>6. /\ exec' \in [Node -> ExecState]
      /\ starts' \in [Node -> Nat]
      /\ activeCount' \in Int
      /\ StartsMatchExec'
      /\ StartedIsReady'
      /\ ActiveCountExact'
  <2>1. ready \in SUBSET Node
    BY <1>4
  <2>2. \A x \in ready : exec[x] = "none" /\ x \in nodes' /\ Parents[x] \subseteq outputs'
    BY <1>1, <1>4
  <2> QED
    BY <1>1, <1>5, <2>1, <2>2, TakeResultAndStartNodes
<1>7. TypeOK'
  BY <1>1, <1>3, <1>6 DEF IndInv, TypeOK, Status
<1>8. OutputsReceived'
  BY <1>1, <1>4 DEF IndInv, TypeOK, OutputsReceived, Running
<1>9. CountersExact' /\ StatusExact'
  BY <1>1 DEF CountersExact, StatusExact
<1> QED
  BY <1>6, <1>7, <1>8, <1>9 DEF IndInv

\* A result whose children can be handled only in part stops the loop and keeps
\* the invariant.
LEMMA HandleResultLateFailsStep ==
    ASSUME IndInv, NEW n \in Node, NEW dyn \in SUBSET Node,
           NEW done \in SUBSET Node, NEW bad \in SUBSET Node,
           HandleResultLateFails(n, dyn, done, bad)
    PROVE  IndInv'
<1> DEFINE fresh == dyn \ nodes
           readyNew == ReadyAmong(fresh)
           added == AddedPending(fresh)
           kids == Children(n, nodes \cup fresh)
           readyKids == {c \in done : added[c] = 1}
           ready == readyNew \cup readyKids
<1>1. /\ loop = "running" /\ loop' = "stopped" /\ exec[n] = "returned"
      /\ ctxDone' = ctxDone /\ launched' = launched /\ adds' = adds
      /\ addNodeCh' = addNodeCh /\ status' = "failed"
      /\ done \subseteq kids
      /\ nodes' = nodes \cup fresh
      /\ outputs' = outputs \cup {n}
      /\ pendingParents' =
            [c \in Node |-> IF c \in done \cup bad THEN added[c] - 1 ELSE added[c]]
      /\ exec' = [Running(ready, exec) EXCEPT ![n] = "received"]
      /\ starts' = Started(ready)
      /\ activeCount' = (activeCount + Cardinality(readyNew) + Cardinality(readyKids)) - 1
  BY DEF HandleResultLateFails
<1>2. fresh \in SUBSET (Node \ nodes)
  OBVIOUS
<1>3. added \in [Node -> Int]
  BY <1>1, <1>2, AddFacts
<1>4. /\ n \in Active /\ n \notin outputs
      /\ readyNew \in SUBSET Node /\ readyKids \in SUBSET Node
      /\ readyNew \cap readyKids = {}
      /\ \A x \in ready : /\ exec[x] = "none"
                          /\ x \in nodes \cup fresh
                          /\ Parents[x] \subseteq outputs \cup {n}
  <2> DEFINE all == {c \in kids : added[c] = 1}
  <2>0. readyKids \subseteq all
    BY <1>1
  <2>1. loop = "running" /\ exec[n] = "returned"
    BY <1>1
  <2> HIDE DEF fresh
  <2>2. MakesReady(n, fresh)
    BY <1>2, <2>1, ResultFacts
  <2>3. /\ n \in Active /\ n \notin outputs
        /\ readyNew \in SUBSET Node /\ all \in SUBSET Node
        /\ readyNew \cap all = {}
        /\ \A x \in readyNew \cup all : /\ exec[x] = "none"
                                       /\ x \in nodes \cup fresh
                                       /\ Parents[x] \subseteq outputs \cup {n}
    BY <2>2, Zenon DEF MakesReady
  <2> HIDE DEF readyNew, readyKids, all
  <2> QED
    BY <2>0, <2>3
<1> HIDE DEF fresh, readyNew, added, kids, readyKids
<1>5. activeCount' = (activeCount + Cardinality(ready)) - 1
  <2>1. /\ Cardinality(ready) = Cardinality(readyNew) + Cardinality(readyKids)
        /\ Cardinality(readyNew) \in Nat /\ Cardinality(readyKids) \in Nat
    BY <1>4, DisjointCount
  <2> QED
    BY <1>1, <2>1 DEF IndInv, TypeOK
<1>6. /\ exec' \in [Node -> ExecState]
      /\ starts' \in [Node -> Nat]
      /\ activeCount' \in Int
      /\ StartsMatchExec'
      /\ StartedIsReady'
      /\ ActiveCountExact'
  <2>1. ready \in SUBSET Node
    BY <1>4
  <2>2. \A x \in ready : exec[x] = "none" /\ x \in nodes' /\ Parents[x] \subseteq outputs'
    BY <1>1, <1>4
  <2>3. nodes \subseteq nodes' /\ outputs \subseteq outputs'
    BY <1>1
  <2> HIDE DEF ready
  <2> QED
    BY <1>1, <1>4, <1>5, <2>1, <2>2, <2>3, TakeResultAndStartNodes
<1>7. TypeOK'
  <2>1. pendingParents' \in [Node -> Int]
    BY <1>1, <1>3
  <2>2. nodes' \in SUBSET Node /\ outputs' \in SUBSET Node
    BY <1>1, <1>2 DEF IndInv, TypeOK
  <2> QED
    BY <1>1, <1>6, <2>1, <2>2 DEF IndInv, TypeOK, Status
<1>8. OutputsReceived'
  BY <1>1, <1>4 DEF IndInv, TypeOK, OutputsReceived, Running
<1>9. CountersExact' /\ StatusExact'
  BY <1>1 DEF CountersExact, StatusExact
<1> QED
  BY <1>6, <1>7, <1>8, <1>9 DEF IndInv

\* The steps that only move a goroutine or a channel: the graph, its counters
\* and the starts stay as they are.
LEMMA OtherSteps ==
    ASSUME IndInv,
           \/ QueueInitial \/ Cancel \/ HandleDone
           \/ \E batch \in SUBSET Node : AddNodes(batch)
           \/ \E n \in Node : ExecuteReturns(n) \/ DropResult(n)
           \/ UNCHANGED vars
    PROVE  IndInv'
<1>1. ASSUME QueueInitial \/ Cancel \/ HandleDone \/ UNCHANGED vars
              \/ \E batch \in SUBSET Node : AddNodes(batch)
      PROVE  IndInv'
  <2>1. /\ nodes' = nodes /\ pendingParents' = pendingParents /\ outputs' = outputs
        /\ activeCount' = activeCount /\ exec' = exec /\ starts' = starts
        /\ \/ loop' = loop /\ status' = status
           \/ loop' = "stopped" /\ status' = "canceled"
    BY <1>1 DEF QueueInitial, Cancel, HandleDone, AddNodes, vars
  <2>2. TypeOK'
    <3>1. ctxDone' \in BOOLEAN /\ launched' \in BOOLEAN
      BY <1>1, Zenon DEF IndInv, TypeOK, QueueInitial, Cancel, HandleDone, AddNodes, vars
    <3>2. adds' = adds \/ (adds < MaxAdds /\ adds' = adds + 1)
      BY <1>1, Zenon DEF QueueInitial, Cancel, HandleDone, AddNodes, vars
    <3>3. adds' \in 0 .. MaxAdds
      BY <3>2, MaxAddsAssumption DEF IndInv, TypeOK
    <3>4. addNodeCh' = addNodeCh \/ \E batch \in SUBSET Node : addNodeCh' = {batch}
      BY <1>1, InitialAssumption
      DEF QueueInitial, Cancel, HandleDone, AddNodes, vars
    <3>5. addNodeCh' \in SUBSET (SUBSET Node)
      BY <3>4 DEF IndInv, TypeOK
    <3> QED
      BY <2>1, <3>1, <3>3, <3>5, Zenon DEF IndInv, TypeOK, Status
  <2>3. StartsMatchExec' /\ StartedIsReady' /\ OutputsReceived' /\ CountersExact'
    BY <2>1 DEF IndInv, StartsMatchExec, StartedIsReady, OutputsReceived,
                CountersExact, Pending
  <2>4. ActiveCountExact' /\ StatusExact'
    BY <2>1 DEF IndInv, ActiveCountExact, StatusExact, Active
  <2> QED
    BY <2>2, <2>3, <2>4 DEF IndInv
<1>2. ASSUME NEW n \in Node, ExecuteReturns(n) \/ DropResult(n)
      PROVE  IndInv'
  <2>1. /\ UNCHANGED <<loop, ctxDone, status, launched, addNodeCh, adds, nodes,
                       pendingParents, outputs, activeCount, starts>>
        /\ exec[n] \in {"executing", "returned", "errored"}
        /\ \E r \in {"returned", "errored", "dropped"} : exec' = [exec EXCEPT ![n] = r]
    BY <1>2 DEF ExecuteReturns, DropResult
  <2>2. TypeOK'
    BY <2>1 DEF IndInv, TypeOK, ExecState
  <2>3. Active' = Active
    BY <2>1 DEF IndInv, TypeOK, Active
  <2>4. StartsMatchExec' /\ StartedIsReady' /\ OutputsReceived' /\ CountersExact'
    <3>1. \A m \in Node : \/ exec'[m] = exec[m]
                          \/ m = n /\ exec[m] \notin {"none", "received"}
                             /\ exec'[m] \notin {"none", "received"}
      BY <2>1 DEF IndInv, TypeOK
    <3>2. StartsMatchExec' /\ StartedIsReady'
      BY <2>1, <3>1, SMTT(20) DEF IndInv, StartsMatchExec, StartedIsReady
    <3>3. OutputsReceived'
      BY <2>1, <3>1, SMTT(20) DEF IndInv, TypeOK, OutputsReceived
    <3>4. CountersExact'
      BY <2>1, <3>1, SMTT(20) DEF IndInv, TypeOK, CountersExact, Pending
    <3> QED
      BY <3>2, <3>3, <3>4
  <2>5. ActiveCountExact' /\ StatusExact'
    BY <2>1, <2>3 DEF IndInv, ActiveCountExact, StatusExact
  <2> QED
    BY <2>2, <2>4, <2>5 DEF IndInv
<1> QED
  BY <1>1, <1>2

\* A failed node stops the loop and is no longer counted active.
LEMMA HandleErrorStep ==
    ASSUME IndInv, NEW n \in Node, HandleError(n)
    PROVE  IndInv'
<1>1. /\ loop = "running" /\ loop' = "stopped" /\ status' = "failed"
      /\ exec[n] = "errored"
      /\ exec' = [exec EXCEPT ![n] = "received"]
      /\ activeCount' = activeCount - 1
      /\ UNCHANGED <<ctxDone, launched, addNodeCh, adds, nodes, pendingParents,
                     outputs, starts>>
  BY DEF HandleError
<1>2. Active' = Active \ {n} /\ n \in Active /\ Active \in SUBSET Node
  BY <1>1 DEF IndInv, TypeOK, Active
<1>3. IsFiniteSet(Active)
  BY <1>2, NodeAssumption, FS_Subset
<1>4. Cardinality(Active') = Cardinality(Active) - 1
  BY <1>2, <1>3, FS_RemoveElement
<1>5. TypeOK'
  BY <1>1 DEF IndInv, TypeOK, ExecState, Status
<1>6. StartsMatchExec' /\ StartedIsReady' /\ OutputsReceived'
  BY <1>1 DEF IndInv, TypeOK, StartsMatchExec, StartedIsReady, OutputsReceived
<1>7. CountersExact' /\ StatusExact' /\ ActiveCountExact'
  BY <1>1, <1>4 DEF IndInv, CountersExact, StatusExact, ActiveCountExact
<1> QED
  BY <1>5, <1>6, <1>7 DEF IndInv

-----------------------------------------------------------------------------
\* The invariant IndInv holds in every reachable state of the event loop.
THEOREM Invariance == Spec => []IndInv
<1>1. Init => IndInv
  <2> SUFFICES ASSUME Init PROVE IndInv
    OBVIOUS
  <2>1. TypeOK
    <3>1. 0 \in 0 .. MaxAdds /\ 0 \in Int /\ 0 \in Nat
      BY MaxAddsAssumption
    <3>2. /\ pendingParents \in [Node -> Int]
          /\ exec \in [Node -> ExecState]
          /\ starts \in [Node -> Nat]
      BY DEF Init, ExecState
    <3> QED
      BY <3>1, <3>2, Zenon DEF Init, TypeOK, Status
  <2>2. Active = {}
    BY DEF Init, Active
  <2>3. ActiveCountExact
    BY <2>2, FS_EmptySet DEF Init, ActiveCountExact
  <2>4. StartsMatchExec /\ StartedIsReady /\ OutputsReceived
    BY DEF Init, StartsMatchExec, StartedIsReady, OutputsReceived
  <2>5. CountersExact /\ StatusExact
    BY DEF Init, CountersExact, StatusExact
  <2> QED
    BY <2>1, <2>3, <2>4, <2>5 DEF IndInv
<1>2. IndInv /\ [Next]_vars => IndInv'
  <2> SUFFICES ASSUME IndInv, [Next]_vars PROVE IndInv'
    OBVIOUS
  <2>1. CASE HandleAdd
    BY <2>1, HandleAddStep
  <2>2. CASE \E before \in SUBSET Node, bad \in Node : HandleAddFails(before, bad)
    BY <2>2, HandleAddFailsStep
  <2>3. CASE \E n \in Node : HandleError(n)
    BY <2>3, HandleErrorStep
  <2>4. CASE \E n \in Node, dyn \in SUBSET Node : HandleResult(n, dyn)
    BY <2>4, HandleResultStep
  <2>5. CASE \E n, bad \in Node, before \in SUBSET Node :
               HandleResultAddFails(n, before, bad)
    BY <2>5, HandleResultAddFailsStep
  <2>6. CASE \E n \in Node, dyn, done, bad \in SUBSET Node :
               HandleResultLateFails(n, dyn, done, bad)
    BY <2>6, HandleResultLateFailsStep
  <2>7. CASE \/ QueueInitial \/ Cancel \/ HandleDone
             \/ \E batch \in SUBSET Node : AddNodes(batch)
             \/ \E n \in Node : ExecuteReturns(n) \/ DropResult(n)
             \/ UNCHANGED vars
    BY <2>7, OtherSteps
  <2> QED
    BY <2>1, <2>2, <2>3, <2>4, <2>5, <2>6, <2>7 DEF Next
<1> QED
  BY <1>1, <1>2, PTL DEF Spec

\* Every variable of the event loop keeps its type.
THEOREM TypeCorrect == Spec => []TypeOK
<1>1. IndInv => TypeOK
  BY DEF IndInv
<1> QED
  BY <1>1, Invariance, PTL

\* On every graph, a node is started only when all its parents have an output.
THEOREM ParentsFirst == Spec => []StartsAfterParents
<1>1. IndInv => StartsAfterParents
  BY DEF IndInv, StartsMatchExec, StartedIsReady, StartsAfterParents
<1> QED
  BY <1>1, Invariance, PTL

\* On every graph, no node is started twice.
THEOREM OnceOnly == Spec => []StartedOnce
<1>1. IndInv => StartedOnce
  BY DEF IndInv, StartsMatchExec, StartedOnce
<1> QED
  BY <1>1, Invariance, PTL

\* On every graph, while the loop runs the counters are exact and no node that
\* could run is left waiting.
THEOREM NoLostWakeup == Spec => []WaitingIsJustified
<1>1. IndInv => WaitingIsJustified
  BY DEF IndInv, TypeOK, StartsMatchExec, CountersExact, WaitingIsJustified
<1> QED
  BY <1>1, Invariance, PTL

\* The loop reports idle exactly when it has completed something and owes
\* nothing.
THEOREM IdleIsQuiescent == Spec => []IdleMeansQuiescent
<1>1. IndInv => IdleMeansQuiescent
  BY DEF IndInv, StatusExact, IdleMeansQuiescent
<1> QED
  BY <1>1, Invariance, PTL

\* On an acyclic graph with all parents present, idle means that every node has
\* completed.  The least unfinished node would have all its parents finished,
\* so it would have been started, and nothing started is still owed.
THEOREM IdleIsComplete == Spec => []IdleMeansComplete
<1>1. IndInv => IdleMeansComplete
  <2> SUFFICES ASSUME IndInv, Acyclic, ParentsAdded, loop = "running",
                      status = "idle", nodes \ outputs # {}
               PROVE  FALSE
    BY DEF IdleMeansComplete
  <2>1. nodes \ outputs \in (SUBSET Node) \ {{}}
    BY DEF IndInv, TypeOK
  <2>2. PICK n \in nodes \ outputs : Parents[n] \cap (nodes \ outputs) = {}
    BY <2>1 DEF Acyclic
  <2>3. n \in Node /\ Parents[n] \subseteq outputs
    BY <2>2 DEF ParentsAdded, IndInv, TypeOK
  <2>4. exec[n] # "none"
    BY <2>2, <2>3 DEF IndInv, CountersExact
  <2>5. exec[n] # "received"
    BY <2>2, <2>3 DEF IndInv, OutputsReceived
  <2>6. n \in Active
    BY <2>3, <2>4, <2>5 DEF IndInv, TypeOK, ExecState, Active
  <2> QED
    BY <2>6 DEF IndInv, StatusExact
<1> QED
  BY <1>1, Invariance, PTL

\* On every graph, a node is started at most once and after all its parents.
THEOREM StartsAreRight == Spec => []StartsOnceAfterParents
<1>1. StartsAfterParents /\ StartedOnce => StartsOnceAfterParents
  BY DEF StartsOnceAfterParents
<1> QED
  BY <1>1, ParentsFirst, OnceOnly, PTL

\* On every graph, the idle status that completes a runner is honest.
THEOREM IdleCanBeTrusted == Spec => []IdleIsHonest
<1>1. IdleMeansQuiescent /\ IdleMeansComplete => IdleIsHonest
  BY DEF IdleIsHonest
<1> QED
  BY <1>1, IdleIsQuiescent, IdleIsComplete, PTL
=============================================================================
