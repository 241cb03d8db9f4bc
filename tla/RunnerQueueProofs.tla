------------------------- MODULE RunnerQueueProofs -------------------------
(***************************************************************************)
(* The execution slots, for every number of requests, every limit and all  *)
(* priorities.                                                             *)
(***************************************************************************)
EXTENDS RunnerQueue, FiniteSetTheorems, TLAPS

(***************************************************************************)
(* The inductive invariant.  That a freed slot is filled is only visible   *)
(* when the entries a dispatch takes do not hold slots already, and that   *)
(* needs the request's own progress: nobody holds a slot, waits or is      *)
(* being started before submitManagedRunner has decided.                   *)
(***************************************************************************)
Undecided(r) == request[r] \in {"new", "registered"}

SlotInv ==
    /\ TypeOK
    /\ Max > 0 => Cardinality(running) <= Max
    /\ Max = 0 => queue = {}
    /\ queue \cap running = {}
    /\ \A r \in Runner : Undecided(r) => r \notin queue /\ r \notin running
    /\ NoIdleSlot

(***************************************************************************)
(* A runner that nobody calls StartRunner on is started by one call at     *)
(* most, and when it is at work, or can still be put to work by a call     *)
(* under way, it holds a slot.                                             *)
(***************************************************************************)
Underway(r, s) == call[<<r, s>>] \in {"enter", "start"}

Work(r) ==
    /\ Undecided(r) => r \notin canceled
    /\ Undecided(r) \/ r \in queue =>
          /\ call[<<r, "submit">>] = "none" /\ call[<<r, "queue">>] = "none"
          /\ life[r] \in {"created", "aborted"}
    /\ call[<<r, "submit">>] = "none" \/ call[<<r, "queue">>] = "none"
    /\ r \in canceled => call[<<r, "submit">>] = "none" /\ life[r] \in {"created", "aborted"}
                         /\ call[<<r, "queue">>] \in {"none", "abort", "end"}
    /\ \A s \in {"submit", "queue"} :
          /\ Underway(r, s) => life[r] \in {"created", "aborted"}
          /\ call[<<r, s>>] \in {"release", "recover"} => life[r] = "aborted"
          /\ Underway(r, s) /\ life[r] = "created" /\ Max > 0 => r \in running
    /\ Live(r) /\ Max > 0 => r \in running

Good(r) == (r \in byID => r \in queue) /\ (Managed(r) => Work(r))

WorkInv == \A r \in Runner : Good(r)

-----------------------------------------------------------------------------
\* What a dispatch does

\* Sets of runners are finite and have a size.
LEMMA Sizes ==
    ASSUME NEW S \in SUBSET Runner
    PROVE  IsFiniteSet(S) /\ Cardinality(S) \in Nat
  BY RunnerAssumption, FS_Subset, FS_CardinalityType

\* A set that is as large as one it is part of is that set.
LEMMA WholeSet ==
    ASSUME NEW T \in SUBSET Runner, NEW S \in SUBSET T,
           Cardinality(S) = Cardinality(T)
    PROVE  S = T
  BY Sizes, FS_Subset

\* Slots are counted by adding those held and those handed out.
LEMMA AddedSlots ==
    ASSUME NEW S \in SUBSET Runner, NEW T \in SUBSET Runner, S \cap T = {}
    PROVE  Cardinality(S \cup T) = Cardinality(S) + Cardinality(T)
<1>1. Cardinality(S \cup T) = Cardinality(S) + Cardinality(T) - Cardinality(S \cap T)
  BY Sizes, FS_Union
<1>2. Cardinality(S \cap T) = 0
  BY FS_EmptySet
<1> QED
  BY <1>1, <1>2, Sizes

\* collectQueuedStartsLocked never hands out more slots than are free, takes
\* from the queue whom it hands one, and leaves nobody startable waiting when
\* slots stay free.
LEMMA CollectSlots ==
    ASSUME TypeOK,
           NEW run \in SUBSET Runner, NEW ids \in SUBSET Runner,
           NEW can \in SUBSET Runner, NEW calls \in [Runner \X Source -> Calls],
           Max > 0 => Cardinality(run) <= Max,
           Max = 0 => queue = {},
           queue \cap run = {},
           Collect(run, ids, can, calls),
           ctxDone' = ctxDone
    PROVE  /\ running' \in SUBSET Runner /\ queue' \in SUBSET Runner
           /\ byID' \in SUBSET Runner /\ canceled' \in SUBSET Runner
           /\ call' \in [Runner \X Source -> Calls]
           /\ Max > 0 => Cardinality(running') <= Max
           /\ queue' \subseteq queue
           /\ running' \subseteq run \cup queue
           /\ queue' \cap running' = {}
           /\ NoIdleSlot'
<1>1. PICK S \in SUBSET queue :
        /\ Chosen(S, run, can)
        /\ running' = IF Max = 0 THEN run ELSE run \cup S
        /\ queue' = queue \ (S \cup Skipped(S, run, can))
        /\ byID' = ids \ (S \cup Skipped(S, run, can))
        /\ canceled' = can \cup (Skipped(S, run, can) \ can)
        /\ call' = [c \in Runner \X Source |->
                      IF c[2] # "queue" THEN calls[c]
                      ELSE IF c[1] \in S THEN "enter"
                      ELSE IF c[1] \in Skipped(S, run, can) \ can THEN "abort" ELSE calls[c]]
  BY Zenon DEF Collect
<1>2. S \in SUBSET Runner /\ Skipped(S, run, can) \in SUBSET Runner /\ Startable(can) \in SUBSET Runner
  BY DEF TypeOK, Skipped, Startable
<1>3. /\ running' \in SUBSET Runner /\ queue' \in SUBSET Runner
      /\ byID' \in SUBSET Runner /\ canceled' \in SUBSET Runner
      /\ queue' \subseteq queue /\ running' \subseteq run \cup queue
      /\ queue' \cap running' = {}
  BY <1>1, <1>2 DEF TypeOK
<1>4. call' \in [Runner \X Source -> Calls]
  BY <1>1 DEF Calls
<1>5. Cardinality(run \cup S) = Cardinality(run) + Cardinality(S)
  <2>1. run \cap S = {}
    OBVIOUS
  <2> QED
    BY <1>2, <2>1, AddedSlots
<1>6. /\ Cardinality(run) \in Nat /\ Cardinality(S) \in Nat
      /\ Cardinality(Startable(can)) \in Nat
  BY <1>2, Sizes
<1>7. Max > 0 => /\ Cardinality(running') <= Max
                 /\ Cardinality(running') < Max => Cardinality(S) = Cardinality(Startable(can))
  <2>1. SUFFICES ASSUME Max > 0
                 PROVE  /\ Cardinality(running') <= Max
                        /\ Cardinality(running') < Max => Cardinality(S) = Cardinality(Startable(can))
    OBVIOUS
  <2>2. Max # 0 /\ Max \in Nat
    BY <2>1, MaxAssumption
  <2>3. running' = run \cup S
    BY <1>1, <2>2
  <2>4. Cardinality(running') = Cardinality(run) + Cardinality(S)
    BY <1>5, <2>3
  <2>5. Cardinality(run) <= Max
    BY <2>1
  <2>6. Cardinality(S) = LET free == IF Cardinality(run) < Max THEN Max - Cardinality(run) ELSE 0
                         IN IF Cardinality(Startable(can)) < free
                            THEN Cardinality(Startable(can)) ELSE free
    BY <1>1, <2>2 DEF Chosen
  <2> QED
    BY <1>6, <2>2, <2>4, <2>5, <2>6
<1>8. NoIdleSlot'
  <2>1. CASE Max = 0
    BY <2>1, <1>3 DEF NoIdleSlot, Startable
  <2>2. CASE Max # 0
    <3>1. SUFFICES ASSUME Cardinality(running') < Max
                   PROVE  Startable(canceled)' = {}
      BY <2>2 DEF NoIdleSlot, SlotFree
    <3>2. Max > 0
      BY <2>2, MaxAssumption
    <3>3. S \in SUBSET Startable(can)
      BY <1>1 DEF Chosen
    <3>4. S = Startable(can)
      BY <1>2, <1>7, <3>1, <3>2, <3>3, WholeSet
    <3> QED
      BY <1>1, <3>4 DEF Startable
  <2> QED
    BY <2>1, <2>2
<1> QED
  BY <1>3, <1>4, <1>7, <1>8

-----------------------------------------------------------------------------
\* The slots: SlotInv is inductive

\* The steps that dispatch the queue and take at most the slot of one runner.
LEMMA DispatchingSteps ==
    ASSUME SlotInv, NEW run \in SUBSET running,
           NEW ids \in SUBSET Runner, NEW can \in SUBSET Runner,
           NEW calls \in [Runner \X Source -> Calls],
           Collect(run, ids, can, calls),
           ctxDone' = ctxDone, entries' = entries,
           registered' \in SUBSET Runner, life' \in [Runner -> Life], left' = left,
           request' \in [Runner -> Requests], watcher' \in [Runner -> Watchers],
           \A r \in Runner : Undecided(r)' => Undecided(r)
    PROVE  SlotInv'
<1>1. /\ TypeOK /\ run \in SUBSET Runner /\ queue \cap run = {}
      /\ Max = 0 => queue = {}
  BY DEF SlotInv, TypeOK
<1>2. Max > 0 => Cardinality(run) <= Max
  <2>1. /\ Cardinality(run) <= Cardinality(running)
        /\ Cardinality(run) \in Nat /\ Cardinality(running) \in Nat
    <3>1. running \in SUBSET Runner
      BY <1>1 DEF TypeOK
    <3> QED
      BY <1>1, <3>1, Sizes, FS_Subset
  <2> QED
    BY <2>1, MaxAssumption DEF SlotInv
<1>3. /\ running' \in SUBSET Runner /\ queue' \in SUBSET Runner
      /\ byID' \in SUBSET Runner /\ canceled' \in SUBSET Runner
      /\ call' \in [Runner \X Source -> Calls]
      /\ Max > 0 => Cardinality(running') <= Max
      /\ queue' \subseteq queue
      /\ running' \subseteq run \cup queue
      /\ queue' \cap running' = {}
      /\ NoIdleSlot'
  BY <1>1, <1>2, CollectSlots, Zenon
<1>4. TypeOK'
  BY <1>1, <1>3 DEF TypeOK, entries
<1> QED
  BY <1>1, <1>3, <1>4 DEF SlotInv

\* The steps that leave slots, queue and cancellations alone.
LEMMA QuietSteps ==
    ASSUME SlotInv,
           running' = running, queue' = queue, ctxDone \subseteq ctxDone',
           canceled \subseteq canceled', TypeOK',
           \A r \in Runner : Undecided(r)' => Undecided(r)
    PROVE  SlotInv'
  BY DEF SlotInv, NoIdleSlot, SlotFree, Startable

\* submitManagedRunner takes a slot only when one is free.
LEMMA SubmitStartStep ==
    ASSUME SlotInv, NEW r \in Runner, SubmitStart(r)
    PROVE  SlotInv'
<1>1. TypeOK'
  BY DEF SlotInv, TypeOK, SubmitStart, entries, Requests, Calls, Source
<1>2. r \notin queue /\ r \notin running /\ running \in SUBSET Runner
  BY DEF SlotInv, SubmitStart, Undecided, TypeOK
<1>3. Max > 0 => Cardinality(running') <= Max
  <2>1. SUFFICES ASSUME Max > 0 PROVE Cardinality(running') <= Max
    OBVIOUS
  <2>2. running' = running \cup {r} /\ Cardinality(running) < Max
    BY <2>1, MaxAssumption DEF SubmitStart, SlotFree
  <2>3. Cardinality(running \cup {r}) = Cardinality(running) + 1
    BY <1>2, Sizes, FS_AddElement
  <2> QED
    BY <1>2, <2>2, <2>3, MaxAssumption, Sizes
<1>4. Startable(canceled)' = Startable(canceled)
  BY DEF SubmitStart, Startable
<1>5. NoIdleSlot'
  BY <1>4 DEF SubmitStart, SlotInv, NoIdleSlot
<1>6. /\ queue' \cap running' = {}
      /\ \A q \in Runner : Undecided(q)' => q \notin queue' /\ q \notin running'
  BY <1>2 DEF SlotInv, SubmitStart, Undecided, TypeOK
<1> QED
  BY <1>1, <1>3, <1>5, <1>6 DEF SlotInv, SubmitStart

\* submitManagedRunner queues only when no slot is free.
LEMMA SubmitQueueStep ==
    ASSUME SlotInv, NEW r \in Runner, SubmitQueue(r)
    PROVE  SlotInv'
<1>1. TypeOK'
  BY DEF SlotInv, TypeOK, SubmitQueue, Requests, Watchers
<1>2. ~SlotFree'
  BY DEF SubmitQueue, SlotFree
<1>3. r \notin running
  BY DEF SlotInv, SubmitQueue, Undecided
<1>4. Max # 0
  BY DEF SubmitQueue, SlotFree
<1>5. \A q \in Runner : Undecided(q)' => q \notin queue' /\ q \notin running'
  BY <1>3 DEF SlotInv, SubmitQueue, Undecided, TypeOK
<1> QED
  BY <1>1, <1>2, <1>3, <1>4, <1>5 DEF SlotInv, SubmitQueue, NoIdleSlot

\* Every step keeps the slots in order.
LEMMA SlotStep ==
    ASSUME SlotInv, [Next]_vars
    PROVE  SlotInv'
<1> USE DEF SlotInv
<1>0. TypeOK
  OBVIOUS
<1>1. ASSUME NEW r \in Runner, Register(r) PROVE SlotInv'
  <2>1. TypeOK'
    BY <1>0, <1>1 DEF Register, TypeOK, slots, entries, Requests
  <2> QED
    BY <1>0, <1>1, <2>1, QuietSteps DEF Register, slots, Undecided, TypeOK
<1>2. ASSUME NEW r \in Runner, SubmitCanceled(r) PROVE SlotInv'
  <2>1. TypeOK'
    BY <1>0, <1>2 DEF SubmitCanceled, Abort, TypeOK, slots, entries, Requests, Life
  <2> QED
    BY <1>0, <1>2, <2>1, QuietSteps DEF SubmitCanceled, slots, Undecided, TypeOK
<1>3. ASSUME NEW r \in Runner, ReleaseSlot(r) PROVE SlotInv'
  <2>1. request' \in [Runner -> Requests]
    BY <1>0, <1>3 DEF ReleaseSlot, TypeOK, Requests
  <2>2. \A q \in Runner : Undecided(q)' => Undecided(q)
    BY <1>0, <1>3 DEF ReleaseSlot, Undecided, TypeOK
  <2> QED
    BY <1>0, <1>3, <2>1, <2>2, DispatchingSteps, Zenon DEF ReleaseSlot, TypeOK
<1>4. ASSUME NEW r \in Runner, WatchDone(r) PROVE SlotInv'
  <2>1. TypeOK'
    BY <1>0, <1>4 DEF WatchDone, TypeOK, slots, entries, Watchers
  <2> QED
    BY <1>0, <1>4, <2>1, QuietSteps DEF WatchDone, slots, Undecided, TypeOK
<1>5. ASSUME NEW r \in Runner, CancelQueued(r) PROVE SlotInv'
  <2>1. watcher' \in [Runner -> Watchers]
    BY <1>0, <1>5 DEF CancelQueued, TypeOK, Watchers
  <2>2. \A q \in Runner : Undecided(q)' => Undecided(q)
    BY <1>0, <1>5 DEF CancelQueued, Undecided
  <2>3. CASE Collect(running, byID \ {r}, canceled \cup {r}, call)
    BY <1>0, <1>5, <2>1, <2>2, <2>3, DispatchingSteps, Zenon DEF CancelQueued, TypeOK
  <2>4. CASE UNCHANGED <<slots, call>>
    <3>1. TypeOK'
      BY <1>0, <1>5, <2>1, <2>4 DEF CancelQueued, TypeOK, slots, entries
    <3> QED
      BY <1>0, <1>5, <2>2, <2>4, <3>1, QuietSteps DEF CancelQueued, slots
  <2> QED
    BY <1>5, <2>3, <2>4 DEF CancelQueued
<1>6. ASSUME NEW r \in Runner, AbortQueued(r) PROVE SlotInv'
  <2>1. TypeOK'
    BY <1>0, <1>6 DEF AbortQueued, Abort, TypeOK, slots, entries, Watchers, Life
  <2> QED
    BY <1>0, <1>6, <2>1, QuietSteps DEF AbortQueued, slots, Undecided
<1>7. ASSUME NEW r \in Runner, FinishCanceled(r) PROVE SlotInv'
  <2>1. TypeOK'
    BY <1>0, <1>7, Zenon DEF FinishCanceled, Abort, TypeOK, slots, entries, Calls, Life
  <2> QED
    BY <1>0, <1>7, <2>1, QuietSteps DEF FinishCanceled, slots, Undecided
<1>8. ASSUME NEW r \in Runner, RemoveRunner(r) PROVE SlotInv'
  <2>1. \A q \in Runner : Undecided(q)' => Undecided(q)
    BY <1>8 DEF RemoveRunner, Undecided
  <2> DEFINE can == IF r \in byID THEN canceled \cup {r} ELSE canceled
  <2>2. can \in SUBSET Runner /\ Collect(running, byID \ {r}, can, call)
    BY <1>0, <1>8 DEF RemoveRunner, TypeOK
  <2>3. /\ ctxDone' = ctxDone /\ entries' = entries /\ registered' \in SUBSET Runner
        /\ life' \in [Runner -> Life] /\ left' = left /\ request' \in [Runner -> Requests]
        /\ watcher' \in [Runner -> Watchers]
        /\ byID \ {r} \in SUBSET Runner /\ call \in [Runner \X Source -> Calls]
    BY <1>0, <1>8 DEF RemoveRunner, TypeOK
  <2> HIDE DEF can
  <2> QED
    BY <2>1, <2>2, <2>3, DispatchingSteps, Zenon
<1>9. ASSUME NEW r \in Runner, StartRunner(r) PROVE SlotInv'
  <2>1. TypeOK'
    BY <1>0, <1>9, Zenon DEF StartRunner, TypeOK, slots, entries, Calls
  <2> QED
    BY <1>0, <1>9, <2>1, QuietSteps DEF StartRunner, slots, Undecided
<1>10. ASSUME NEW r \in Runner, CancelRequest(r) PROVE SlotInv'
  <2>1. TypeOK'
    BY <1>0, <1>10 DEF CancelRequest, TypeOK, slots, entries
  <2> QED
    BY <1>0, <1>10, <2>1, QuietSteps DEF CancelRequest, slots, Undecided
<1>11. ASSUME NEW r \in Runner, RunnerStep(r) PROVE SlotInv'
  <2>1. TypeOK'
    BY <1>0, <1>11 DEF RunnerStep, Abort, TypeOK, slots, entries, Life
  <2> QED
    BY <1>0, <1>11, <2>1, QuietSteps DEF RunnerStep, slots, Undecided
<1>12. ASSUME NEW c \in Runner \X Source, StartManagedRunner(c) PROVE SlotInv'
  <2>1. CASE EnterStart(c)
    <3>1. TypeOK'
      BY <1>0, <2>1 DEF EnterStart, TypeOK, entries, Calls
    <3> QED
      BY <1>0, <2>1, <3>1, QuietSteps DEF EnterStart, Undecided
  <2>2. CASE StartManaged(c)
    <3>1. TypeOK'
      BY <1>0, <2>2 DEF StartManaged, Abort, Returned, TypeOK, slots, entries, Calls, Life, Requests
    <3>2. \A q \in Runner : Undecided(q)' => Undecided(q)
      BY <1>0, <2>2 DEF StartManaged, Returned, Undecided, TypeOK
    <3> QED
      BY <1>0, <2>2, <3>1, <3>2, QuietSteps DEF StartManaged, slots
  <2>3. CASE ReleaseFailed(c)
    <3>1. [call EXCEPT ![c] = "recover"] \in [Runner \X Source -> Calls]
      BY <1>0 DEF TypeOK, Calls
    <3>2. /\ Collect(running \ {c[1]}, byID, canceled, [call EXCEPT ![c] = "recover"])
          /\ running \ {c[1]} \in SUBSET running
          /\ byID \in SUBSET Runner /\ canceled \in SUBSET Runner
          /\ ctxDone' = ctxDone /\ entries' = entries /\ registered' \in SUBSET Runner
          /\ life' \in [Runner -> Life] /\ left' = left /\ request' \in [Runner -> Requests]
          /\ watcher' \in [Runner -> Watchers]
      BY <1>0, <2>3 DEF ReleaseFailed, TypeOK
    <3>3. \A q \in Runner : Undecided(q)' => Undecided(q)
      BY <2>3 DEF ReleaseFailed, Undecided
    <3> QED
      BY <3>1, <3>2, <3>3, DispatchingSteps, Zenon
  <2>4. CASE Recover(c)
    <3>1. TypeOK'
      BY <1>0, <2>4 DEF Recover, Abort, Returned, TypeOK, slots, entries, Calls, Life, Requests
    <3>2. \A q \in Runner : Undecided(q)' => Undecided(q)
      BY <1>0, <2>4 DEF Recover, Returned, Undecided, TypeOK
    <3> QED
      BY <1>0, <2>4, <3>1, <3>2, QuietSteps DEF Recover, slots
  <2> QED
    BY <1>12, <2>1, <2>2, <2>3, <2>4 DEF StartManagedRunner
<1>13. ASSUME NEW r \in Runner, ObserverLeaves(r) PROVE SlotInv'
  <2>1. TypeOK'
    BY <1>0, <1>13 DEF ObserverLeaves, TypeOK, slots, entries
  <2> QED
    BY <1>0, <1>13, <2>1, QuietSteps DEF ObserverLeaves, slots, Undecided
<1>14. CASE UNCHANGED vars
  BY <1>14 DEF vars, slots, entries, TypeOK, Undecided, NoIdleSlot, SlotFree, Startable
<1> QED
  BY <1>1, <1>2, <1>3, <1>4, <1>5, <1>6, <1>7, <1>8, <1>9, <1>10, <1>11, <1>12, <1>13, <1>14,
     SubmitStartStep, SubmitQueueStep
  DEF Next, Submit, Watch

\* The slots are never overbooked and their bookkeeping stays consistent.
THEOREM SlotInvariance == Spec => []SlotInv
<1>1. Init => SlotInv
  <2>1. SUFFICES ASSUME Init PROVE SlotInv
    OBVIOUS
  <2>2. TypeOK
    BY <2>1 DEF Init, TypeOK, Life, Requests, Watchers, Calls, Source
  <2>3. Max > 0 => Cardinality(running) <= Max
    BY <2>1, FS_EmptySet, MaxAssumption DEF Init
  <2> QED
    BY <2>1, <2>2, <2>3 DEF Init, SlotInv, NoIdleSlot, Startable
<1>2. SlotInv /\ [Next]_vars => SlotInv'
  BY SlotStep
<1> QED
  BY <1>1, <1>2, PTL DEF Spec

\* Every variable of the queue keeps its type.
THEOREM TypeCorrect == Spec => []TypeOK
<1>1. SlotInv => TypeOK
  BY DEF SlotInv
<1> QED
  BY <1>1, SlotInvariance, PTL

\* No slot stays free while a request that could have it waits: submissions,
\* cancellations, removals and releases all dispatch the queue.
THEOREM SlotsAreUsed == Spec => []NoIdleSlot
<1>1. SlotInv => NoIdleSlot
  BY DEF SlotInv
<1> QED
  BY <1>1, SlotInvariance, PTL

-----------------------------------------------------------------------------
\* The work: WorkInv is inductive

\* A dispatch marks, starts and cancels only entries that nobody has started,
\* provided the slot it takes away belongs to a runner that is through.
LEMMA CollectWork ==
    ASSUME SlotInv, WorkInv,
           NEW gone \in SUBSET Runner, NEW out \in SUBSET Runner,
           NEW calls \in [Runner \X Source -> Calls],
           \A r \in gone : Managed(r) => life[r] \in {"completed", "aborted"},
           out \subseteq byID,
           \A r \in Runner, s \in Source :
              \/ calls[<<r, s>>] = call[<<r, s>>]
              \/ call[<<r, s>>] = "release" /\ calls[<<r, s>>] = "recover",
           Collect(running \ gone, byID \ out, canceled \cup out, calls),
           life' = life,
           \A r \in Runner : Undecided(r)' => Undecided(r)
    PROVE  WorkInv'
<1>1. PICK S \in SUBSET queue :
        LET run == running \ gone
            can == canceled \cup out
        IN  /\ Chosen(S, run, can)
            /\ running' = IF Max = 0 THEN run ELSE run \cup S
            /\ queue' = queue \ (S \cup Skipped(S, run, can))
            /\ byID' = (byID \ out) \ (S \cup Skipped(S, run, can))
            /\ canceled' = can \cup (Skipped(S, run, can) \ can)
            /\ call' = [c \in Runner \X Source |->
                      IF c[2] # "queue" THEN calls[c]
                      ELSE IF c[1] \in S THEN "enter"
                      ELSE IF c[1] \in Skipped(S, run, can) \ can THEN "abort" ELSE calls[c]]
  BY Zenon DEF Collect
<1> DEFINE can  == canceled \cup out
           drop == Skipped(S, running \ gone, can)
<1>2. /\ S \subseteq queue /\ S \cap can = {} /\ S \cap drop = {} /\ drop \subseteq queue
      /\ running' = (IF Max = 0 THEN running \ gone ELSE (running \ gone) \cup S)
      /\ queue' = queue \ (S \cup drop) /\ byID' = (byID \ out) \ (S \cup drop)
      /\ canceled' = can \cup drop
  BY <1>1 DEF Chosen, Startable, Skipped
<1>3. \A r \in Runner :
         /\ call'[<<r, "api">>] = calls[<<r, "api">>]
         /\ call'[<<r, "submit">>] = calls[<<r, "submit">>]
         /\ call'[<<r, "queue">>] = IF r \in S THEN "enter"
                                    ELSE IF r \in drop \ can THEN "abort"
                                    ELSE calls[<<r, "queue">>]
  BY <1>1, Zenon DEF Source
<1> HIDE DEF can, drop
<1>4. can = canceled \cup out
  BY DEF can
<1>5. queue \subseteq Runner /\ byID \subseteq queue /\ canceled \subseteq Runner
  BY DEF SlotInv, WorkInv, Good, TypeOK
<1>a. \A r \in Runner : Managed(r)' => Managed(r)
  BY <1>3, Zenon DEF Managed, Source
<1>b. \A r \in Runner : (r \in byID => r \in queue)'
  BY <1>2, <1>5
<1>6. SUFFICES ASSUME NEW r \in Runner, Managed(r)
               PROVE  /\ (Undecided(r) => r \notin canceled)'
                      /\ (Undecided(r) \/ r \in queue =>
                            /\ call[<<r, "submit">>] = "none" /\ call[<<r, "queue">>] = "none"
                            /\ life[r] \in {"created", "aborted"})'
                      /\ (call[<<r, "submit">>] = "none" \/ call[<<r, "queue">>] = "none")'
                      /\ (r \in canceled => call[<<r, "submit">>] = "none" /\ life[r] \in {"created", "aborted"}
                             /\ call[<<r, "queue">>] \in {"none", "abort", "end"})'
                      /\ \A s \in {"submit", "queue"} :
                           /\ (Underway(r, s) => life[r] \in {"created", "aborted"})'
                           /\ (call[<<r, s>>] \in {"release", "recover"} => life[r] = "aborted")'
                           /\ (Underway(r, s) /\ life[r] = "created" /\ Max > 0 => r \in running)'
                      /\ (Live(r) /\ Max > 0 => r \in running)'
  BY <1>a, <1>b, Zenon DEF WorkInv, Good, Work
<1>7. /\ Undecided(r) => r \notin canceled /\ r \notin queue
      /\ Undecided(r) \/ r \in queue =>
              /\ call[<<r, "submit">>] = "none" /\ call[<<r, "queue">>] = "none"
              /\ life[r] \in {"created", "aborted"}
      /\ call[<<r, "submit">>] = "none" \/ call[<<r, "queue">>] = "none"
      /\ r \in canceled => call[<<r, "submit">>] = "none" /\ life[r] \in {"created", "aborted"}
                             /\ call[<<r, "queue">>] \in {"none", "abort", "end"}
  BY <1>6 DEF WorkInv, Good, Work, SlotInv
<1>8. \A s \in {"submit", "queue"} :
        /\ Underway(r, s) => life[r] \in {"created", "aborted"}
        /\ call[<<r, s>>] \in {"release", "recover"} => life[r] = "aborted"
        /\ Underway(r, s) /\ life[r] = "created" /\ Max > 0 => r \in running
  BY <1>6, Zenon DEF WorkInv, Good, Work
<1>9. \A s \in Source : \/ calls[<<r, s>>] = call[<<r, s>>]
                        \/ call[<<r, s>>] = "release" /\ calls[<<r, s>>] = "recover"
  OBVIOUS
<1>10. Live(r) /\ Max > 0 => r \in running
  BY <1>6, Zenon DEF WorkInv, Good, Work
<1>11. r \in can \cup drop => \/ r \in canceled
                              \/ r \in queue
  BY <1>2, <1>4, <1>5
<1>13. (Undecided(r) => r \notin canceled)'
  BY <1>2, <1>5, <1>7, <1>11
<1>14. (Undecided(r) \/ r \in queue =>
           /\ call[<<r, "submit">>] = "none" /\ call[<<r, "queue">>] = "none"
           /\ life[r] \in {"created", "aborted"})'
  BY <1>2, <1>3, <1>7, <1>9 DEF Source
<1>15. (call[<<r, "submit">>] = "none" \/ call[<<r, "queue">>] = "none")'
  BY <1>2, <1>3, <1>7, <1>9 DEF Source
<1>16. (r \in canceled => call[<<r, "submit">>] = "none" /\ life[r] \in {"created", "aborted"}
                          /\ call[<<r, "queue">>] \in {"none", "abort", "end"})'
  BY <1>2, <1>3, <1>4, <1>7, <1>9, <1>11 DEF Source
<1>17. \A s \in {"submit", "queue"} :
          /\ (Underway(r, s) => life[r] \in {"created", "aborted"})'
          /\ (call[<<r, s>>] \in {"release", "recover"} => life[r] = "aborted")'
          /\ (Underway(r, s) /\ life[r] = "created" /\ Max > 0 => r \in running)'
  <2>1. r \in gone => life[r] # "created"
    BY <1>6
  <2>2. r \in S => life[r] \in {"created", "aborted"} /\ (Max > 0 => r \in running')
    BY <1>2, <1>7, MaxAssumption, SMTT(20)
  <2>3. r \in running /\ life[r] = "created" => r \in running'
    BY <1>2, <2>1
  <2> QED
    BY <1>3, <1>8, <1>9, <2>2, <2>3, SMTT(20) DEF Underway, Source
<1>18. (Live(r) /\ Max > 0 => r \in running)'
  BY <1>2, <1>6, <1>10 DEF Live
<1> QED
  BY <1>13, <1>14, <1>15, <1>16, <1>17, <1>18

\* A step that concerns one runner leaves the others' work as it is.
LEMMA OneRunner ==
    ASSUME WorkInv, NEW r \in Runner,
           \A q \in Runner \ {r} : /\ life'[q] = life[q]
                                   /\ \A s \in Source : call'[<<q, s>>] = call[<<q, s>>]
                                   /\ q \in queue' <=> q \in queue
                                   /\ q \in byID' <=> q \in byID
                                   /\ q \in canceled' <=> q \in canceled
                                   /\ q \in running => q \in running'
                                   /\ Undecided(q)' => Undecided(q),
           Good(r)'
    PROVE  WorkInv'
<1>1. SUFFICES ASSUME NEW q \in Runner, q # r PROVE Good(q)'
  BY DEF WorkInv
<1>2. Good(q)
  BY DEF WorkInv
<1>3. /\ call'[<<q, "api">>] = call[<<q, "api">>]
      /\ call'[<<q, "submit">>] = call[<<q, "submit">>]
      /\ call'[<<q, "queue">>] = call[<<q, "queue">>]
  BY <1>1 DEF Source
<1>4. /\ life'[q] = life[q] /\ (q \in queue' <=> q \in queue) /\ (q \in byID' <=> q \in byID)
      /\ (q \in canceled' <=> q \in canceled) /\ (q \in running => q \in running')
      /\ (Undecided(q)' => Undecided(q))
  BY <1>1
<1> QED
  BY <1>2, <1>3, <1>4 DEF Good, Managed, Work, Underway, Live

\* A step that changes no call, no queue and no slot.
LEMMA CallsUntouched ==
    ASSUME WorkInv, UNCHANGED <<slots, call, life>>,
           \A q \in Runner : Undecided(q)' => Undecided(q)
    PROVE  WorkInv'
  BY Zenon DEF WorkInv, Good, Managed, Work, slots, Underway, Live

\* Abort ends a runner, if only to get stuck when it was polishing.
LEMMA AbortIs ==
    ASSUME TypeOK, NEW r \in Runner, Abort(r)
    PROVE  /\ life' \in [Runner -> Life] /\ \A q \in Runner \ {r} : life'[q] = life[q]
           /\ life'[r] \in {"aborted", "stuck"}
           /\ life[r] # "polishing" => life'[r] = "aborted"
<1>1. life \in [Runner -> Life] /\ "aborted" \in Life /\ "stuck" \in Life
  BY DEF TypeOK, Life
<1>2. CASE life' = [life EXCEPT ![r] = "aborted"]
  BY <1>1, <1>2
<1>3. CASE life[r] = "polishing" /\ life' = [life EXCEPT ![r] = "stuck"]
  BY <1>1, <1>3
<1> QED
  BY <1>2, <1>3 DEF Abort

\* An Abort, whoever calls it, breaks nothing: an aborted runner needs no slot.
LEMMA AbortWork ==
    ASSUME SlotInv, WorkInv, NEW r \in Runner, Abort(r),
           UNCHANGED <<slots, call>>,
           \A q \in Runner : Undecided(q)' => Undecided(q)
    PROVE  WorkInv'
<1>1. /\ \A q \in Runner \ {r} : life'[q] = life[q]
      /\ life'[r] \in {"aborted", "stuck"} /\ (life[r] # "polishing" => life'[r] = "aborted")
  BY AbortIs, Zenon DEF SlotInv
<1>2. Good(r)'
  BY <1>1 DEF WorkInv, Good, Managed, Work, slots, Underway, Live
<1> QED
  BY <1>1, <1>2, OneRunner DEF slots

\* startManagedRunner, called for a runner that only the queue starts.
LEMMA ManagedStart ==
    ASSUME SlotInv, WorkInv, NEW c \in Runner \X Source, NEW r \in Runner, NEW s \in Source,
           c = <<r, s>>, c[1] = r, c[2] = s, Managed(r), StartManagedRunner(c)
    PROVE  WorkInv'
<1>0. TypeOK
  BY DEF SlotInv
<1>1. call[c] # "none" /\ s \in {"submit", "queue"}
  BY DEF StartManagedRunner, EnterStart, StartManaged, ReleaseFailed, Recover,
         Managed, Source
<1>2. r \notin queue /\ r \notin byID /\ ~Undecided(r)
  BY <1>1, Zenon DEF WorkInv, Good, Work
<1>3. CASE EnterStart(c)
  <2>1. /\ canceled' = canceled /\ byID' = byID /\ queue' = queue /\ running' = running
        /\ life' = life /\ request' = request
    BY <1>2, <1>3 DEF EnterStart
  <2>2. \A q \in Runner, t \in Source :
           call'[<<q, t>>] = IF q = r /\ t = s THEN "start" ELSE call[<<q, t>>]
    BY <1>0, <1>3 DEF EnterStart, TypeOK
  <2>3. call[<<r, s>>] = "enter"
    BY <1>3 DEF EnterStart
  <2>4. Work(r)'
    <3>1. Work(r)
      BY DEF WorkInv, Good
    <3> QED
      BY <1>1, <1>2, <2>1, <2>2, <2>3, <3>1, Zenon DEF Work, Undecided, Underway, Live, Source
  <2> QED
    BY <2>1, <2>2, <2>4, <1>2, OneRunner DEF Undecided, Good
<1>4. CASE StartManaged(c)
  <2>1. call[<<r, s>>] = "start" /\ UNCHANGED slots
    BY <1>4 DEF StartManaged
  <2>2. \A q \in Runner : Undecided(q)' => Undecided(q)
    BY <1>0, <1>4 DEF StartManaged, Returned, Undecided, TypeOK
  <2>4. life[r] \in {"created", "aborted"}
    BY <1>1, <2>1, Zenon DEF WorkInv, Good, Work, Underway
  <2>3. \/ /\ \A q \in Runner \ {r} : life'[q] = life[q]
           /\ life'[r] = "aborted"
           /\ call' = [call EXCEPT ![c] = "release"]
        \/ /\ life[r] = "created"
           /\ \A q \in Runner : life'[q] = IF q = r THEN "polishing" ELSE life[q]
           /\ call' = [call EXCEPT ![c] = "end"]
        \/ /\ life[r] # "created" /\ life' = life
           /\ call' = [call EXCEPT ![c] = "release"]
    <3>1. CASE Abort(r) /\ call' = [call EXCEPT ![c] = "release"]
      BY <1>0, <2>4, <3>1, AbortIs
    <3>2. CASE life[r] = "created" /\ life' = [life EXCEPT ![r] = "polishing"] /\ call' = [call EXCEPT ![c] = "end"]
      BY <1>0, <3>2 DEF TypeOK
    <3> QED
      BY <1>4, <3>1, <3>2, Zenon DEF StartManaged
  <2>5. ASSUME NEW v, call' = [call EXCEPT ![c] = v]
        PROVE  /\ \A q \in Runner \ {r}, t \in Source : call'[<<q, t>>] = call[<<q, t>>]
               /\ call'[<<r, s>>] = v
               /\ \A t \in Source \ {s} : call'[<<r, t>>] = call[<<r, t>>]
    BY <1>0, <2>5 DEF TypeOK
  <2>6. r \notin canceled /\ (life[r] = "created" /\ Max > 0 => r \in running)
    BY <1>1, <2>1, Zenon DEF WorkInv, Good, Work, Underway
  <2>7. \A t \in {"submit", "queue"} : t # s => call[<<r, t>>] = "none"
    BY <1>1, <2>1 DEF WorkInv, Good, Work
  <2>8. CASE /\ \A q \in Runner \ {r} : life'[q] = life[q]
             /\ life'[r] = "aborted"
             /\ call' = [call EXCEPT ![c] = "release"]
    <3>1. /\ \A q \in Runner \ {r}, t \in Source : call'[<<q, t>>] = call[<<q, t>>]
          /\ call'[<<r, s>>] = "release"
          /\ \A t \in Source \ {s} : call'[<<r, t>>] = call[<<r, t>>]
      BY <2>5, <2>8, Zenon
    <3>2. Work(r)'
      <4>1. Work(r)
        BY DEF WorkInv, Good
      <4> QED
        BY <1>1, <1>2, <2>1, <2>2, <2>4, <2>6, <2>7, <2>8, <3>1, <4>1
        DEF Work, slots, Underway, Live, Source
    <3> QED
      BY <2>1, <2>2, <2>8, <3>1, <3>2, <1>2, OneRunner DEF slots, Good
  <2>9. CASE /\ life[r] = "created"
             /\ \A q \in Runner : life'[q] = IF q = r THEN "polishing" ELSE life[q]
             /\ call' = [call EXCEPT ![c] = "end"]
    <3>1. /\ \A q \in Runner \ {r}, t \in Source : call'[<<q, t>>] = call[<<q, t>>]
          /\ call'[<<r, s>>] = "end"
          /\ \A t \in Source \ {s} : call'[<<r, t>>] = call[<<r, t>>]
      BY <2>5, <2>9, Zenon
    <3>2. Work(r)'
      <4>1. Work(r)
        BY DEF WorkInv, Good
      <4> QED
        BY <1>1, <1>2, <2>1, <2>2, <2>4, <2>6, <2>7, <2>9, <3>1, <4>1
        DEF Work, slots, Underway, Live, Source
    <3> QED
      BY <2>1, <2>2, <2>9, <3>1, <3>2, <1>2, OneRunner DEF slots, Good
  <2>10. CASE /\ life[r] # "created" /\ life' = life
              /\ call' = [call EXCEPT ![c] = "release"]
    <3>1. /\ \A q \in Runner \ {r}, t \in Source : call'[<<q, t>>] = call[<<q, t>>]
          /\ call'[<<r, s>>] = "release"
          /\ \A t \in Source \ {s} : call'[<<r, t>>] = call[<<r, t>>]
      BY <2>5, <2>10, Zenon
    <3>2. Work(r)'
      <4>1. Work(r)
        BY DEF WorkInv, Good
      <4> QED
        BY <1>1, <1>2, <2>1, <2>2, <2>4, <2>6, <2>7, <2>10, <3>1, <4>1
        DEF Work, slots, Underway, Live, Source
    <3> QED
      BY <2>1, <2>2, <2>10, <3>1, <3>2, <1>2, OneRunner DEF slots, Good
  <2> QED
    BY <2>3, <2>8, <2>9, <2>10
<1>5. CASE ReleaseFailed(c)
  <2> DEFINE calls == [call EXCEPT ![c] = "recover"]
  <2>1. byID \ {} = byID /\ canceled \cup {} = canceled
    OBVIOUS
  <2>2. Collect(running \ {r}, byID \ {}, canceled \cup {}, calls)
    BY <1>5, <2>1 DEF ReleaseFailed
  <2>3. /\ calls \in [Runner \X Source -> Calls]
        /\ \A q \in Runner, t \in Source :
              \/ calls[<<q, t>>] = call[<<q, t>>]
              \/ call[<<q, t>>] = "release" /\ calls[<<q, t>>] = "recover"
    BY <1>0, <1>5 DEF ReleaseFailed, TypeOK, Calls
  <2>4. life[r] = "aborted" /\ life' = life
    BY <1>1, <1>5, Zenon DEF ReleaseFailed, WorkInv, Good, Work
  <2>5. \A q \in Runner : Undecided(q)' => Undecided(q)
    BY <1>5 DEF ReleaseFailed, Undecided
  <2> DEFINE gone == {r}
             out  == {}
  <2>6. /\ gone \in SUBSET Runner /\ out \in SUBSET Runner /\ out \subseteq byID
        /\ \A q \in gone : life[q] \in {"completed", "aborted"}
        /\ Collect(running \ gone, byID \ out, canceled \cup out, calls)
    BY <2>2, <2>4
  <2> HIDE DEF calls, gone, out
  <2> QED
    BY <2>3, <2>4, <2>5, <2>6, CollectWork, Zenon
<1>6. CASE Recover(c)
  <2>1. call[<<r, s>>] = "recover" /\ life[r] = "aborted" /\ life' = life /\ UNCHANGED slots
    BY <1>1, <1>6, Zenon DEF Recover, WorkInv, Good, Work
  <2>2. \A q \in Runner, t \in Source :
           call'[<<q, t>>] = IF q = r /\ t = s THEN "end" ELSE call[<<q, t>>]
    BY <1>0, <1>6 DEF Recover, TypeOK
  <2>3. \A q \in Runner : Undecided(q)' => Undecided(q)
    BY <1>0, <1>6 DEF Recover, Returned, Undecided, TypeOK
  <2>4. Work(r)'
    BY <1>1, <1>2, <2>1, <2>2, <2>3, Zenon DEF WorkInv, Good, Work, slots, Underway, Live, Source
  <2> QED
    BY <2>1, <2>2, <2>3, <2>4, <1>2, OneRunner DEF slots, Good
<1> QED
  BY <1>3, <1>4, <1>5, <1>6 DEF StartManagedRunner

\* startManagedRunner, called for a runner that StartRunner was called on: the
\* others keep their slots.
LEMMA ApartStart ==
    ASSUME SlotInv, WorkInv, NEW c \in Runner \X Source, NEW r \in Runner, NEW s \in Source,
           c = <<r, s>>, c[1] = r, c[2] = s, ~Managed(r), StartManagedRunner(c)
    PROVE  WorkInv'
<1>0. TypeOK
  BY DEF SlotInv
<1>1. \A q \in Runner : Undecided(q)' => Undecided(q)
  BY <1>0 DEF StartManagedRunner, EnterStart, StartManaged, ReleaseFailed, Recover, Returned,
              Undecided, TypeOK
<1>2. CASE ReleaseFailed(c)
  <2> DEFINE calls == [call EXCEPT ![c] = "recover"]
             gone  == {r}
             out   == {}
  <2>1. byID \ out = byID /\ canceled \cup out = canceled
    OBVIOUS
  <2>2. Collect(running \ gone, byID \ out, canceled \cup out, calls)
    BY <1>2, <2>1 DEF ReleaseFailed
  <2>3. /\ calls \in [Runner \X Source -> Calls]
        /\ \A q \in Runner, t \in Source :
              \/ calls[<<q, t>>] = call[<<q, t>>]
              \/ call[<<q, t>>] = "release" /\ calls[<<q, t>>] = "recover"
    BY <1>0, <1>2 DEF ReleaseFailed, TypeOK, Calls
  <2>4. /\ gone \in SUBSET Runner /\ out \in SUBSET Runner /\ out \subseteq byID
        /\ \A q \in gone : Managed(q) => life[q] \in {"completed", "aborted"}
        /\ life' = life
    BY <1>2 DEF ReleaseFailed
  <2> HIDE DEF calls, gone, out
  <2> QED
    BY <1>1, <2>2, <2>3, <2>4, CollectWork, Zenon
<1>3. CASE EnterStart(c) \/ StartManaged(c) \/ Recover(c)
  <2>1. PICK v \in Calls \ {"none"} : call' = [call EXCEPT ![c] = v]
    BY <1>3 DEF EnterStart, StartManaged, Recover, Calls
  <2>2. \A q \in Runner, t \in Source :
           call'[<<q, t>>] = IF q = r /\ t = s THEN v ELSE call[<<q, t>>]
    BY <1>0, <2>1 DEF TypeOK
  <2>3. \A q \in Runner \ {r} : /\ life'[q] = life[q]
                                /\ q \in byID' <=> q \in byID
                                /\ q \in canceled' <=> q \in canceled
    BY <1>0, <1>3 DEF EnterStart, StartManaged, Recover, Abort, TypeOK, slots
  <2>4. queue' = queue /\ running' = running /\ byID' \subseteq byID
    BY <1>3 DEF EnterStart, StartManaged, Recover, slots
  <2>5. Good(r)'
    BY <2>2, <2>4, Zenon DEF WorkInv, Good, Managed, Source
  <2> QED
    BY <1>1, <2>2, <2>3, <2>4, <2>5, OneRunner
<1> QED
  BY <1>2, <1>3 DEF StartManagedRunner

\* Every step keeps the work within the slots.
LEMMA WorkStep ==
    ASSUME SlotInv, WorkInv, [Next]_vars
    PROVE  WorkInv'
<1>0. TypeOK
  BY DEF SlotInv
<1>a. \A c \in Runner \X Source : c = <<c[1], c[2]>> /\ c[1] \in Runner /\ c[2] \in Source
  OBVIOUS
<1>1. ASSUME NEW r \in Runner, Register(r) PROVE WorkInv'
  BY <1>0, <1>1, CallsUntouched DEF Register, slots, Undecided, TypeOK
<1>2. ASSUME NEW r \in Runner, SubmitCanceled(r) PROVE WorkInv'
  BY <1>0, <1>2, AbortWork DEF SubmitCanceled, Undecided, TypeOK, slots
<1>3. ASSUME NEW r \in Runner, SubmitStart(r) PROVE WorkInv'
  <2>1. /\ r \notin queue /\ Undecided(r)
        /\ Managed(r) => /\ r \notin canceled
                         /\ call[<<r, "submit">>] = "none" /\ call[<<r, "queue">>] = "none"
                         /\ life[r] \in {"created", "aborted"}
    BY <1>3 DEF SubmitStart, SlotInv, WorkInv, Good, Work, Undecided
  <2>2. \A q \in Runner, s \in Source :
           call'[<<q, s>>] = IF q = r /\ s = "submit" THEN "enter" ELSE call[<<q, s>>]
    BY <1>0, <1>3 DEF SubmitStart, TypeOK
  <2>3. \A q \in Runner : /\ Undecided(q)' => Undecided(q) /\ q # r
                          /\ q \in running => q \in running'
                          /\ Max > 0 /\ q = r => q \in running'
    BY <1>0, <1>3, MaxAssumption DEF SubmitStart, Undecided, TypeOK
  <2>4. queue' = queue /\ byID' = byID /\ canceled' = canceled /\ life' = life
    BY <1>3 DEF SubmitStart
  <2>5. Good(r)'
    <3>1. Good(r)
      BY DEF WorkInv
    <3> QED
      BY <2>1, <2>2, <2>3, <2>4, <3>1 DEF Good, Managed, Work, Underway, Live, Source
  <2> QED
    BY <2>2, <2>3, <2>4, <2>5, OneRunner
<1>4. ASSUME NEW r \in Runner, SubmitQueue(r) PROVE WorkInv'
  <2>1. Undecided(r) /\ \A q \in Runner : Undecided(q)' => Undecided(q) /\ q # r
    BY <1>0, <1>4 DEF SubmitQueue, Undecided, TypeOK
  <2>2. /\ queue' = queue \cup {r} /\ byID' = byID \cup {r} /\ canceled' = canceled
        /\ life' = life /\ call' = call /\ running' = running
    BY <1>4 DEF SubmitQueue
  <2>3. Good(r)'
    BY <2>1, <2>2 DEF WorkInv, Good, Managed, Work, Underway, Live
  <2> QED
    BY <2>1, <2>2, <2>3, OneRunner
<1>5. ASSUME NEW r \in Runner, ReleaseSlot(r) PROVE WorkInv'
  <2>1. \A q \in Runner : Undecided(q)' => Undecided(q)
    BY <1>0, <1>5 DEF ReleaseSlot, Undecided, TypeOK
  <2>2. Collect(running \ {r}, byID \ {}, canceled \cup {}, call)
    <3>1. byID \ {} = byID /\ canceled \cup {} = canceled
      OBVIOUS
    <3> QED
      BY <1>5, <3>1 DEF ReleaseSlot
  <2>3. life[r] \in {"completed", "aborted"} /\ life' = life /\ call \in [Runner \X Source -> Calls]
    BY <1>0, <1>5 DEF ReleaseSlot, Settled, TypeOK
  <2> DEFINE gone == {r}
             out  == {}
  <2>4. /\ gone \in SUBSET Runner /\ out \in SUBSET Runner /\ out \subseteq byID
        /\ \A q \in gone : life[q] \in {"completed", "aborted"}
        /\ Collect(running \ gone, byID \ out, canceled \cup out, call)
    BY <2>2, <2>3
  <2> HIDE DEF gone, out
  <2> QED
    BY <2>1, <2>3, <2>4, CollectWork, Zenon
<1>6. ASSUME NEW r \in Runner, WatchDone(r) PROVE WorkInv'
  BY <1>6, CallsUntouched DEF WatchDone, slots, Undecided
<1>7. ASSUME NEW r \in Runner, CancelQueued(r) PROVE WorkInv'
  <2>1. \A q \in Runner : Undecided(q)' => Undecided(q)
    BY <1>7 DEF CancelQueued, Undecided
  <2>2. CASE r \in byID /\ Collect(running, byID \ {r}, canceled \cup {r}, call)
    <3>1. running \ {} = running
      OBVIOUS
    <3>2. Collect(running \ {}, byID \ {r}, canceled \cup {r}, call)
      BY <2>2, <3>1
    <3>3. life' = life /\ call \in [Runner \X Source -> Calls]
      BY <1>0, <1>7 DEF CancelQueued, TypeOK
    <3> DEFINE gone == {}
               out  == {r}
    <3>4. /\ gone \in SUBSET Runner /\ out \in SUBSET Runner /\ out \subseteq byID
          /\ \A q \in gone : life[q] \in {"completed", "aborted"}
          /\ Collect(running \ gone, byID \ out, canceled \cup out, call)
      BY <2>2, <3>2
    <3> HIDE DEF gone, out
    <3> QED
      BY <2>1, <3>3, <3>4, CollectWork, Zenon
  <2>3. CASE UNCHANGED <<slots, call>>
    BY <1>7, <2>1, <2>3, CallsUntouched DEF CancelQueued, slots
  <2> QED
    BY <1>7, <2>2, <2>3 DEF CancelQueued
<1>8. ASSUME NEW r \in Runner, AbortQueued(r) PROVE WorkInv'
  BY <1>8, AbortWork DEF AbortQueued, Undecided, slots
<1>9. ASSUME NEW r \in Runner, FinishCanceled(r) PROVE WorkInv'
  <2>1. /\ \A q \in Runner \ {r} : life'[q] = life[q]
        /\ life'[r] \in {"aborted", "stuck"} /\ (life[r] # "polishing" => life'[r] = "aborted")
    BY <1>0, <1>9, AbortIs, Zenon DEF FinishCanceled
  <2>2. \A q \in Runner, s \in Source :
           call'[<<q, s>>] = IF q = r /\ s = "queue" THEN "end" ELSE call[<<q, s>>]
    BY <1>0, <1>9 DEF FinishCanceled, TypeOK
  <2>3. call[<<r, "queue">>] = "abort" /\ UNCHANGED slots
    BY <1>9 DEF FinishCanceled
  <2>4. \A q \in Runner : Undecided(q)' => Undecided(q)
    BY <1>9 DEF FinishCanceled, Undecided
  <2>5. Good(r)'
    BY <2>1, <2>2, <2>3, <2>4 DEF WorkInv, Good, Managed, Work, slots, Underway, Live, Source
  <2> QED
    BY <2>1, <2>2, <2>3, <2>4, <2>5, OneRunner DEF slots
<1>10. ASSUME NEW r \in Runner, RemoveRunner(r) PROVE WorkInv'
  <2>1. \A q \in Runner : Undecided(q)' => Undecided(q)
    BY <1>10 DEF RemoveRunner, Undecided
  <2> DEFINE gone == {}
             out  == IF r \in byID THEN {r} ELSE {}
  <2>2. /\ running \ gone = running /\ gone \in SUBSET Runner
        /\ \A q \in gone : life[q] \in {"completed", "aborted"}
        /\ byID \ {r} = byID \ out
        /\ (IF r \in byID THEN canceled \cup {r} ELSE canceled) = canceled \cup out
        /\ out \subseteq byID /\ out \in SUBSET Runner
    OBVIOUS
  <2>3. Collect(running \ gone, byID \ out, canceled \cup out, call)
    BY <1>10, <2>2 DEF RemoveRunner
  <2>4. life' = life /\ call \in [Runner \X Source -> Calls]
    BY <1>0, <1>10 DEF RemoveRunner, TypeOK
  <2> HIDE DEF gone, out
  <2> QED
    BY <2>1, <2>2, <2>3, <2>4, CollectWork, Zenon
<1>11. ASSUME NEW r \in Runner, StartRunner(r) PROVE WorkInv'
  <2>1. \A q \in Runner, s \in Source :
           call'[<<q, s>>] = IF q = r /\ s = "api" THEN "enter" ELSE call[<<q, s>>]
    BY <1>0, <1>11 DEF StartRunner, TypeOK
  <2>2. UNCHANGED <<slots, life, request>>
    BY <1>11 DEF StartRunner
  <2>3. Good(r)'
    BY <2>1, <2>2, Zenon DEF WorkInv, Good, Managed, slots, Source
  <2> QED
    BY <2>1, <2>2, <2>3, OneRunner DEF slots, Undecided
<1>12. ASSUME NEW r \in Runner, CancelRequest(r) PROVE WorkInv'
  BY <1>12, CallsUntouched DEF CancelRequest, slots, Undecided
<1>13. ASSUME NEW r \in Runner, RunnerStep(r) PROVE WorkInv'
  <2>1. Live(r) /\ UNCHANGED <<slots, call, request>>
    BY <1>13 DEF RunnerStep, Live
  <2>2. \A q \in Runner : q # r => life'[q] = life[q]
    BY <1>0, <1>13 DEF RunnerStep, Abort, TypeOK
  <2>3. life'[r] \in {"executing", "completed", "aborted", "stuck"}
    BY <1>0, <1>13 DEF RunnerStep, Abort, TypeOK
  <2>4. Good(r)'
    BY <2>1, <2>3 DEF WorkInv, Good, Managed, Work, slots, Undecided, Underway, Live
  <2> QED
    BY <2>1, <2>2, <2>4, OneRunner DEF slots, Undecided
<1>14. ASSUME NEW c \in Runner \X Source, StartManagedRunner(c) PROVE WorkInv'
  <2>0. PICK r \in Runner, s \in Source : c = <<r, s>> /\ c[1] = r /\ c[2] = s
    BY <1>a
  <2> QED
    BY <1>14, <2>0, ManagedStart, ApartStart
<1>15. ASSUME NEW r \in Runner, ObserverLeaves(r) PROVE WorkInv'
  BY <1>15, CallsUntouched DEF ObserverLeaves, slots, Undecided
<1>16. CASE UNCHANGED vars
  BY <1>16, CallsUntouched DEF vars, slots, Undecided
<1> QED
  BY <1>1, <1>2, <1>3, <1>4, <1>5, <1>6, <1>7, <1>8, <1>9, <1>10, <1>11, <1>12, <1>13,
     <1>14, <1>15, <1>16
  DEF Next, Submit, Watch

\* Whoever is at work through the queue holds a slot.
THEOREM WorkInvariance == Spec => [](SlotInv /\ WorkInv)
<1>1. Init => WorkInv
  BY DEF Init, WorkInv, Good, Work, Undecided, Underway, Live, Source
<1>2. SlotInv /\ WorkInv /\ [Next]_vars => WorkInv'
  BY WorkStep
<1> QED
  BY <1>1, <1>2, SlotInvariance, PTL DEF Spec

\* At most Max of the runners that only the queue starts are at work at once,
\* whatever StartRunner does to the others.
THEOREM NeverOverbooked == Spec => []ExecutionBound
<1>1. SlotInv /\ WorkInv => ExecutionBound
  <2>1. SUFFICES ASSUME SlotInv, WorkInv, Max > 0
                 PROVE  Cardinality({r \in Runner : Managed(r) /\ Live(r)}) <= Max
    BY DEF ExecutionBound
  <2> DEFINE live == {r \in Runner : Managed(r) /\ Live(r)}
  <2>2. live \subseteq running /\ running \in SUBSET Runner
    BY <2>1, Zenon DEF SlotInv, TypeOK, WorkInv, Good, Work
  <2>3. Cardinality(live) <= Cardinality(running) /\ Cardinality(running) <= Max
    BY <2>1, <2>2, Sizes, FS_Subset DEF SlotInv
  <2>4. Cardinality(live) \in Nat /\ Cardinality(running) \in Nat
    BY <2>2, Sizes
  <2> QED
    BY <2>3, <2>4, MaxAssumption
<1> QED
  BY <1>1, WorkInvariance, PTL

\* An entry that was canceled or removed while it waited is never put to work by
\* the queue.
THEOREM DroppedStayOut == Spec => []DroppedNeverRuns
<1>1. SlotInv /\ WorkInv => DroppedNeverRuns
  BY Zenon DEF SlotInv, TypeOK, WorkInv, Good, Work, DroppedNeverRuns, Live
<1> QED
  BY <1>1, WorkInvariance, PTL

\* For any number of runners, priorities and slots, the slots are used in full,
\* never beyond, and by no entry that was dropped.
THEOREM SlotsHold == Spec => []SlotsAreRight
<1>1. ExecutionBound /\ NoIdleSlot /\ DroppedNeverRuns => SlotsAreRight
  BY DEF SlotsAreRight
<1> QED
  BY <1>1, NeverOverbooked, SlotsAreUsed, DroppedStayOut, PTL

\* What GrantsInOrder says of one step.
InOrder ==
  \A r \in running' \ running, s \in queue' :
    s \notin canceled' /\ s \notin ctxDone' => r \in queue /\ Before(r, s)

\* A dispatch that follows the release of a slot, or of an entry, grants in order.
LEMMA CollectInOrder ==
  ASSUME NEW run, NEW ids, NEW can, NEW calls, run \subseteq running,
         Collect(run, ids, can, calls), UNCHANGED ctxDone
  PROVE  InOrder
<1>1. PICK S \in SUBSET queue :
        /\ Chosen(S, run, can)
        /\ running' = IF Max = 0 THEN run ELSE run \cup S
        /\ queue' = queue \ (S \cup Skipped(S, run, can))
        /\ canceled' = can \cup (Skipped(S, run, can) \ can)
  BY DEF Collect
<1>2. SUFFICES ASSUME NEW r \in running' \ running, NEW s \in queue',
                      s \notin canceled', s \notin ctxDone'
               PROVE  r \in queue /\ Before(r, s)
  BY DEF InOrder
<1>3. r \in S
  BY <1>1, <1>2
<1>4. s \in Startable(can) \ S
  BY <1>1, <1>2 DEF Startable
<1> QED
  BY <1>1, <1>3, <1>4 DEF Chosen

\* A step that gives no slot away grants in order.
LEMMA NoGrant == UNCHANGED running => InOrder
  BY DEF InOrder

\* For any number of runners, priorities and slots: a slot goes to the first of
\* those who wait, and a newcomer gets one only when nobody waits
\* (collectQueuedStartsLocked, runnerStartQueue.Less, submitManagedRunner).
THEOREM SlotsGoInOrder == Spec => GrantsInOrder
<1>1. NoIdleSlot /\ [Next]_vars => [InOrder]_vars
  <2> SUFFICES ASSUME NoIdleSlot, Next PROVE InOrder
    OBVIOUS
  <2>1. ASSUME NEW r \in Runner, ReleaseSlot(r) PROVE InOrder
    BY <2>1, CollectInOrder DEF ReleaseSlot
  <2>2. ASSUME NEW r \in Runner, CancelQueued(r) PROVE InOrder
    BY <2>2, CollectInOrder, NoGrant DEF CancelQueued, slots
  <2>3. ASSUME NEW r \in Runner, RemoveRunner(r) PROVE InOrder
    BY <2>3, CollectInOrder DEF RemoveRunner
  <2>4. ASSUME NEW r \in Runner, SubmitStart(r) PROVE InOrder
    BY <2>4 DEF SubmitStart, NoIdleSlot, Startable, InOrder
  <2>5. ASSUME NEW r \in Runner,
               \/ Register(r) \/ SubmitCanceled(r) \/ SubmitQueue(r) \/ WatchDone(r) \/ AbortQueued(r)
               \/ FinishCanceled(r) \/ StartRunner(r) \/ CancelRequest(r) \/ RunnerStep(r) \/ ObserverLeaves(r)
        PROVE  InOrder
    BY <2>5, NoGrant, Zenon
    DEF Register, SubmitCanceled, SubmitQueue, WatchDone, AbortQueued, FinishCanceled, StartRunner,
        CancelRequest, RunnerStep, ObserverLeaves, slots
  <2>6. ASSUME NEW c \in Runner \X Source, StartManagedRunner(c) PROVE InOrder
    <3>1. CASE ReleaseFailed(c)
      BY <3>1, CollectInOrder DEF ReleaseFailed
    <3>2. CASE EnterStart(c) \/ StartManaged(c) \/ Recover(c)
      BY <3>2, NoGrant DEF EnterStart, StartManaged, Recover, slots
    <3> QED
      BY <2>6, <3>1, <3>2 DEF StartManagedRunner
  <2> QED
    BY <2>1, <2>2, <2>3, <2>4, <2>5, <2>6 DEF Next, Submit, Watch
<1>2. [][InOrder]_vars => GrantsInOrder
  BY DEF InOrder, GrantsInOrder
<1> QED
  BY <1>1, <1>2, SlotsAreUsed, PTL DEF Spec
=============================================================================
