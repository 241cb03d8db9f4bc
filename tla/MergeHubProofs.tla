--------------------------- MODULE MergeHubProofs ---------------------------
(***************************************************************************)
(* The registration counter of merge hubs is exact, for any number of      *)
(* merges, hubs and events.                                                *)
(***************************************************************************)
EXTENDS MergeHub, FiniteSetTheorems, TLAPS

Counted == {"first", "unpend", "register"}

\* The inductive invariant adds to PendingIsExact that a started merge has its hub.
RegInv ==
    /\ pc = [m \in Merge |-> pc[m]]
    /\ hub \in [Merge -> Hub \cup {0}]
    /\ pending \in [Hub -> Nat]
    /\ \A m \in Merge : pc[m] # "new" => hub[m] \in Hub
    /\ PendingIsExact

\* The map of hubs holds a hub or nothing.
CurrentIsHub == current \in Hub \cup {0}

\* Only mergeHub and stopMergeHubs write the map.
LEMMA MapHoldsHubs == CurrentIsHub /\ [Next]_vars => CurrentIsHub'
<1> SUFFICES ASSUME CurrentIsHub, [Next]_vars PROVE CurrentIsHub'
  OBVIOUS
<1> USE DEF CurrentIsHub
<1>1. CASE \E m \in Merge : GetHub(m)
  BY <1>1 DEF GetHub
<1>2. CASE \E m \in Merge : Feeder(m) \/ Stop(m)
  BY <1>2 DEF Feeder, Begin, First, Unpend, Register, Enqueue, Check, NextEvent, Unregister,
              CloseUpstream, Drain, FeederPops, FeederEmits, StopIfIdle, CancelHub, Exit,
              Stop, hubs
<1>3. CASE \E h \in Hub : Run(h)
  BY <1>3 DEF Run, HubPops, HubEmits, HubCancels, HubExits
<1>4. CASE Close \/ Closing
  BY <1>4 DEF Close, Closing, StopHubs, StopHub, HubStopped, hubs
<1>5. CASE UNCHANGED vars
  BY <1>5 DEF vars, hubs
<1> QED
  BY <1>1, <1>2, <1>3, <1>4, <1>5 DEF Next

\* The feeders of a hub are finitely many.
LEMMA RegisteringIsFinite == \A h : IsFiniteSet(Registering(h))
<1> SUFFICES ASSUME NEW h PROVE IsFiniteSet(Registering(h))
  OBVIOUS
<1>1. Registering(h) \in SUBSET Merge
  BY DEF Registering
<1> QED
  BY <1>1, FS_Subset, MergeAssumption

\* A step that moves no feeder and leaves counters and hubs alone changes nothing here.
LEMMA NothingMoves ==
    ASSUME RegInv, pc' = pc, hub' = hub, pending' = pending
    PROVE  RegInv'
BY DEF RegInv, PendingIsExact, Registering

\* A feeder that moves within the counted part of its code, or outside it.
LEMMA MoveKeepsCount ==
    ASSUME RegInv, NEW m \in Merge, NEW l, Goto(m, l), pc[m] # "new",
           pc[m] \in Counted <=> l \in Counted,
           hub' = hub, pending' = pending
    PROVE  RegInv'
<1>1. \A h \in Hub : Registering(h)' = Registering(h)
  BY DEF RegInv, Registering, Goto, Counted
<1>2. pc' = [x \in Merge |-> pc'[x]]
  BY DEF RegInv, Goto
<1>3. \A x \in Merge : pc'[x] # "new" => hub[x] \in Hub
  BY DEF RegInv, Goto
<1> QED
  BY <1>1, <1>2, <1>3 DEF RegInv, PendingIsExact

\* mergeHub gives a merge a hub before it is counted.
LEMMA GetHubKeepsCount ==
    ASSUME RegInv, CurrentIsHub, NEW m \in Merge, GetHub(m)
    PROVE  RegInv'
<1>1. PICK h \in Hub \cup {0} : hub' = [hub EXCEPT ![m] = h] /\ h # 0
  BY DEF GetHub, Hub, CurrentIsHub
<1>2. pc[m] = "new" /\ pc' = [pc EXCEPT ![m] = "begin"] /\ pending' = pending
  BY DEF GetHub, Goto
<1>3. \A g \in Hub : Registering(g)' = Registering(g)
  BY <1>1, <1>2 DEF RegInv, Registering
<1>4. pc' = [x \in Merge |-> pc'[x]]
  BY <1>2 DEF RegInv
<1>5. hub' \in [Merge -> Hub \cup {0}] /\ \A x \in Merge : pc'[x] # "new" => hub'[x] \in Hub
  BY <1>1, <1>2 DEF RegInv
<1> QED
  BY <1>2, <1>3, <1>4, <1>5 DEF RegInv, PendingIsExact

\* beginRegistration counts its feeder, which was not counted before.
LEMMA BeginCounts ==
    ASSUME RegInv, NEW m \in Merge, Begin(m)
    PROVE  RegInv'
<1>1. /\ pc[m] = "begin" /\ pc' = [pc EXCEPT ![m] = "first"] /\ hub' = hub
      /\ pending' = [pending EXCEPT ![hub[m]] = @ + 1]
  BY DEF Begin, Goto
<1>2. hub[m] \in Hub
  BY <1>1 DEF RegInv
<1>3. Registering(hub[m])' = Registering(hub[m]) \cup {m} /\ m \notin Registering(hub[m])
  BY <1>1 DEF RegInv, Registering
<1>4. Cardinality(Registering(hub[m])') = Cardinality(Registering(hub[m])) + 1
  BY <1>3, FS_AddElement, RegisteringIsFinite
<1>5. \A h \in Hub : h # hub[m] => Registering(h)' = Registering(h)
  BY <1>1 DEF RegInv, Registering
<1>6. PendingIsExact'
  BY <1>1, <1>2, <1>4, <1>5 DEF RegInv, PendingIsExact
<1> QED
  BY <1>1, <1>2, <1>6 DEF RegInv

\* A counted feeder that leaves the counted part finds the counter positive, so
\* that the guard of the decrement never keeps it from counting down.
LEMMA LeaveUncounts ==
    ASSUME RegInv, NEW m \in Merge, NEW l, Goto(m, l), pc[m] \in Counted, l \notin Counted,
           hub' = hub,
           pending' = [pending EXCEPT ![hub[m]] = IF @ > 0 THEN @ - 1 ELSE @]
    PROVE  RegInv'
<1>1. hub[m] \in Hub
  BY DEF RegInv, Counted
<1>2. Registering(hub[m])' = Registering(hub[m]) \ {m} /\ m \in Registering(hub[m])
  BY DEF RegInv, Registering, Goto, Counted
<1>3. Cardinality(Registering(hub[m])') = Cardinality(Registering(hub[m])) - 1
  BY <1>2, FS_RemoveElement, RegisteringIsFinite
<1>4. Cardinality(Registering(hub[m])) # 0 /\ Cardinality(Registering(hub[m])) \in Nat
  BY <1>2, FS_EmptySet, FS_CardinalityType, RegisteringIsFinite
<1>5. \A h \in Hub : h # hub[m] => Registering(h)' = Registering(h)
  BY DEF RegInv, Registering, Goto
<1>6. pending' \in [Hub -> Nat] /\ PendingIsExact'
  BY <1>1, <1>3, <1>4, <1>5 DEF RegInv, PendingIsExact
<1>7. pc' = [x \in Merge |-> pc'[x]]
  BY DEF RegInv, Goto
<1>8. \A x \in Merge : pc'[x] # "new" => hub[x] \in Hub
  BY <1>1 DEF RegInv, Goto
<1> QED
  BY <1>6, <1>7, <1>8 DEF RegInv

\* One step of a feeder.
LEMMA FeederKeepsCount ==
    ASSUME RegInv, NEW m \in Merge, Feeder(m)
    PROVE  RegInv'
<1> USE DEF hubs, Then, Counted
<1>1. CASE Begin(m)
  BY <1>1, BeginCounts
<1>2. CASE First(m)
  <2>1. PICK l \in {"register", "unpend"} : Goto(m, l)
    BY <1>2 DEF First
  <2> QED
    BY <1>2, <2>1, MoveKeepsCount DEF First
<1>3. CASE Unpend(m)
  <2>1. PICK l \in {"cancelExit", "exit"} : Goto(m, l)
    BY <1>3 DEF Unpend
  <2> QED
    BY <1>3, <2>1, LeaveUncounts DEF Unpend
<1>4. CASE Register(m)
  <2>1. PICK l \in {"stopIfIdle", "enqueue"} : Goto(m, l)
    BY <1>4 DEF Register
  <2> QED
    BY <1>4, <2>1, LeaveUncounts DEF Register
<1>5. CASE Enqueue(m)
  <2>1. PICK l \in {"check", "unregister"} : Goto(m, l)
    BY <1>5 DEF Enqueue
  <2> QED
    BY <1>5, <2>1, MoveKeepsCount DEF Enqueue
<1>6. CASE Check(m)
  <2>1. PICK l \in {"unregister", "exit", "next"} : Goto(m, l)
    BY <1>6 DEF Check
  <2> QED
    BY <1>6, <2>1, MoveKeepsCount DEF Check
<1>7. CASE NextEvent(m)
  <2>1. PICK l \in {"enqueue", "closeUpstream", "unregister"} : Goto(m, l)
    BY <1>7 DEF NextEvent
  <2> QED
    BY <1>7, <2>1, MoveKeepsCount DEF NextEvent
<1>8. CASE Unregister(m)
  <2>1. PICK l \in {"cancelExit", "exit"} : Goto(m, l)
    BY <1>8 DEF Unregister
  <2> QED
    BY <1>8, <2>1, MoveKeepsCount DEF Unregister
<1>9. CASE CloseUpstream(m)
  <2>1. PICK l \in {"cancelDrain", "drain"} : Goto(m, l)
    BY <1>9 DEF CloseUpstream
  <2> QED
    BY <1>9, <2>1, MoveKeepsCount DEF CloseUpstream
<1>10. CASE Drain(m)
  <2>1. PICK l \in {"flush", "stopIfIdle"} : Goto(m, l)
    BY <1>10 DEF Drain
  <2> QED
    BY <1>10, <2>1, MoveKeepsCount DEF Drain
<1>11. CASE FeederPops(m)
  <2>1. PICK l \in {"emit", "cancelEnd", "stopIfIdle"} : Goto(m, l)
    BY <1>11 DEF FeederPops
  <2> QED
    BY <1>11, <2>1, MoveKeepsCount DEF FeederPops
<1>12. CASE FeederEmits(m)
  <2>1. PICK l \in {"cancelDrain", "drain", "cancelEnd", "stopIfIdle"} : Goto(m, l)
    BY <1>12 DEF FeederEmits
  <2> QED
    BY <1>12, <2>1, MoveKeepsCount DEF FeederEmits
<1>13. CASE StopIfIdle(m)
  <2>1. PICK l \in {"cancelExit", "exit"} : Goto(m, l)
    BY <1>13 DEF StopIfIdle
  <2> QED
    BY <1>13, <2>1, MoveKeepsCount DEF StopIfIdle
<1>14. CASE CancelHub(m)
  <2>1. PICK l \in {"exit", "drain", "stopIfIdle"} : Goto(m, l)
    BY <1>14 DEF CancelHub
  <2> QED
    BY <1>14, <2>1, MoveKeepsCount DEF CancelHub
<1>15. CASE Exit(m)
  BY <1>15, MoveKeepsCount DEF Exit
<1> QED
  BY <1>1, <1>2, <1>3, <1>4, <1>5, <1>6, <1>7, <1>8, <1>9, <1>10, <1>11, <1>12,
     <1>13, <1>14, <1>15 DEF Feeder

\* The hub's goroutine, Stop and Close do not touch the counter.
LEMMA OthersKeepCount ==
    ASSUME RegInv,
           (\E h \in Hub : Run(h)) \/ (\E m \in Merge : Stop(m)) \/ Close \/ Closing
    PROVE  RegInv'
<1>1. pc' = pc /\ hub' = hub /\ pending' = pending
  <2>1. CASE \E h \in Hub : Run(h)
    BY <2>1 DEF Run, HubPops, HubEmits, HubCancels, HubExits, feeders
  <2>2. CASE \E m \in Merge : Stop(m)
    BY <2>2 DEF Stop, hubs
  <2>3. CASE Close \/ Closing
    BY <2>3 DEF Close, Closing, StopHubs, StopHub, HubStopped, hubs, feeders
  <2> QED
    BY <2>1, <2>2, <2>3
<1> QED
  BY <1>1, NothingMoves

\* pendingRegistrations of every hub is the number of its feeders that have not yet
\* seen an event, whatever merges, stops, cancellations and Close do.
THEOREM CounterIsExact == Spec => []PendingIsExact
<1>1. Init => RegInv /\ CurrentIsHub
  <2> SUFFICES ASSUME Init PROVE RegInv /\ CurrentIsHub
    OBVIOUS
  <2>1. \A h \in Hub : Registering(h) = {}
    BY DEF Init, Registering
  <2>2. PendingIsExact
    BY <2>1, FS_EmptySet DEF Init, PendingIsExact
  <2> QED
    BY <2>2 DEF Init, RegInv, CurrentIsHub
<1>2. RegInv /\ CurrentIsHub /\ [Next]_vars => RegInv'
  <2> SUFFICES ASSUME RegInv, CurrentIsHub, [Next]_vars PROVE RegInv'
    OBVIOUS
  <2>1. CASE UNCHANGED vars
    BY <2>1, NothingMoves DEF vars, hubs, feeders
  <2>2. CASE Next
    BY <2>2, GetHubKeepsCount, FeederKeepsCount, OthersKeepCount DEF Next
  <2> QED
    BY <2>1, <2>2
<1>3. RegInv => PendingIsExact
  BY DEF RegInv
<1> QED
  BY <1>1, <1>2, <1>3, MapHoldsHubs, PTL DEF Spec
=============================================================================
