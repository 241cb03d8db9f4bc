---------------------------- MODULE RunnerQueue ----------------------------
(***************************************************************************)
(* The orchestrator's execution slots and start queue                      *)
(* (orchestrator/queue.go, and the operations of orchestrator.go and       *)
(* request.go that use them).  A request's runner takes a slot or is       *)
(* queued by priority; a slot that is given back goes to the queue.        *)
(*                                                                         *)
(* A step is a critical section under o.mu, or what follows it up to the   *)
(* next one.  The runner is reduced to the stages the orchestrator can     *)
(* tell apart; RunnerLifecycle has the rest.  Each request has a runner    *)
(* of its own, so an entry of the queue is named by its runner.            *)
(***************************************************************************)
EXTENDS Integers, FiniteSets

CONSTANTS
    Runner,      \* the runners of the requests that may be made
    Priority,    \* RequestPriority of each
    Max,         \* maxRunningRunners, 0 for no limit
    MayCancel,   \* the runners whose request context may be canceled
    MayRemove,   \* the runners somebody may call RemoveRunner on
    MayStart     \* the runners somebody may call StartRunner on, once

ASSUME RunnerAssumption == IsFiniteSet(Runner)
ASSUME PriorityAssumption == Priority \in [Runner -> Int]
ASSUME MaxAssumption == Max \in Nat
ASSUME EnvironmentAssumption == /\ MayCancel \subseteq Runner
                                /\ MayRemove \subseteq Runner
                                /\ MayStart \subseteq Runner

VARIABLES
    registered,  \* o.runners
    running,     \* o.runningRunnerIDs
    queue,       \* the entries of o.queuedRunners, canceled ones included
    order,       \* order of each entry
    nextOrder,   \* o.nextQueueOrder
    byID,        \* o.queuedRunnerByID: an entry leaves it when deactivated
    canceled,    \* entries marked canceled
    ctxDone,     \* runners whose request context is canceled
    life,        \* the stage each runner is in
    left,        \* runners whose settle observer, the only closer of Done, is gone
    request,     \* where startRequestWithStream, then watchRunnerDone, stands
    watcher,     \* where watchQueuedRunner stands
    call         \* where each call of startManagedRunner stands

slots   == <<running, queue, byID, canceled>>
entries == <<order, nextOrder>>
vars    == <<registered, slots, entries, ctxDone, life, left, request, watcher, call>>

\* Who calls startManagedRunner: submitManagedRunner, a dispatch, StartRunner.
Source == {"submit", "queue", "api"}

\* A runner is "stuck" when it was aborted while its agents polished and their
\* goroutine then wrote over the settled phase, with its lifecycle waiting for Done.
Life     == {"created", "polishing", "executing", "completed", "aborted", "stuck"}
Requests == {"new", "registered", "starting", "watching", "released", "failed"}
Watchers == {"off", "watching", "abort", "end"}
Calls    == {"none", "abort", "enter", "start", "release", "recover", "end"}

Init ==
    /\ registered = {}
    /\ running = {} /\ queue = {} /\ byID = {} /\ canceled = {}
    /\ order = [r \in Runner |-> 0] /\ nextOrder = 0
    /\ ctxDone = {}
    /\ life = [r \in Runner |-> "created"] /\ left = {}
    /\ request = [r \in Runner |-> "new"]
    /\ watcher = [r \in Runner |-> "off"]
    /\ call = [c \in Runner \X Source |-> "none"]

Settled(r) == life[r] \in {"completed", "aborted"}
Live(r)    == life[r] \in {"polishing", "executing"}

-----------------------------------------------------------------------------
\* Dispatch

\* runnerStartQueue.Less: higher priority first, then first come first served.
Before(r, s) == \/ Priority[r] > Priority[s]
                \/ Priority[r] = Priority[s] /\ order[r] < order[s]

\* Mutant: entries marked canceled are started.
StartableCanceled(can) == queue \ ctxDone

\* The entries a dispatch would start: neither marked canceled (can) nor with a
\* canceled context.
Startable(can) == {r \in queue : r \notin can /\ r \notin ctxDone}

\* Mutant: as many entries as there are free slots, in any order.
ChosenUnordered(S, run, can) ==
    /\ S \subseteq Startable(can)
    /\ IF Max = 0 THEN S = Startable(can)
       ELSE LET free == IF Cardinality(run) < Max THEN Max - Cardinality(run) ELSE 0
            IN  Cardinality(S) = IF Cardinality(Startable(can)) < free
                                 THEN Cardinality(Startable(can)) ELSE free

\* S is what collectQueuedStartsLocked starts when run holds the slots: the
\* first startable entries, as many as there are free slots.
Chosen(S, run, can) ==
    /\ S \subseteq Startable(can)
    /\ IF Max = 0 THEN S = Startable(can)
       ELSE LET free == IF Cardinality(run) < Max THEN Max - Cardinality(run) ELSE 0
            IN  Cardinality(S) = IF Cardinality(Startable(can)) < free
                                 THEN Cardinality(Startable(can)) ELSE free
    /\ \A r \in S, s \in Startable(can) \ S : Before(r, s)

\* The entries it pops and does not start: all that are left over when slots
\* stay free, else those ahead of the last one started.
Skipped(S, run, can) ==
    {r \in queue \ Startable(can) :
        \/ Max = 0 \/ Cardinality(run) + Cardinality(S) < Max
        \/ \E s \in S : Before(r, s)}

\* collectQueuedStartsLocked, with run in the slots, ids in queuedRunnerByID and
\* can marked canceled; calls is how the calls stand otherwise.  What is started,
\* and what is canceled because its context is done, leaves for
\* finishQueuedDispatch.
Collect(run, ids, can, calls) ==
    \E S \in SUBSET queue :
        /\ Chosen(S, run, can)
        /\ LET skipped  == Skipped(S, run, can)
               toCancel == skipped \ can
           IN  /\ running' = IF Max = 0 THEN run ELSE run \cup S
               /\ queue' = queue \ (S \cup skipped)
               /\ byID' = ids \ (S \cup skipped)
               /\ canceled' = can \cup toCancel
               /\ call' = [c \in Runner \X Source |->
                             IF c[2] # "queue" THEN calls[c]
                             ELSE IF c[1] \in S THEN "enter"
                             ELSE IF c[1] \in toCancel THEN "abort" ELSE calls[c]]

\* Runner.Abort; a polish stage that is at work may undo it (runPolishStage).
Abort(r) ==
    \/ life' = [life EXCEPT ![r] = "aborted"]
    \/ life[r] = "polishing" /\ life' = [life EXCEPT ![r] = "stuck"]

\* finishQueuedDispatch: a request that was canceled while queued is aborted.
FinishCanceled(r) ==
    /\ call[<<r, "queue">>] = "abort"
    /\ Abort(r)
    /\ call' = [call EXCEPT ![<<r, "queue">>] = "end"]
    /\ UNCHANGED <<registered, slots, entries, ctxDone, left, request, watcher>>

-----------------------------------------------------------------------------
\* startManagedRunner

\* An entry that is still queued is taken out of the queue's hands.
EnterStart(c) ==
    /\ call[c] = "enter"
    /\ canceled' = IF c[1] \in byID THEN canceled \cup {c[1]} ELSE canceled
    /\ byID' = byID \ {c[1]}
    /\ call' = [call EXCEPT ![c] = "start"]
    /\ UNCHANGED <<registered, running, queue, entries, ctxDone, life, left, request, watcher>>

\* After a submission succeeded its runner is watched until it is done.
Returned(c, l) == request' = IF c[2] = "submit" THEN [request EXCEPT ![c[1]] = l] ELSE request

\* StartManaged: a canceled context aborts the runner whatever it is doing, any
\* runner but a fresh one is refused.  StartRunner's own context may be done.
StartManaged(c) ==
    LET r == c[1] IN
    /\ call[c] = "start"
    /\ \/ /\ r \in ctxDone \/ c[2] = "api"
          /\ Abort(r)
          /\ call' = [call EXCEPT ![c] = "release"]
          /\ UNCHANGED request
       \/ /\ r \notin ctxDone \/ c[2] = "api"
          /\ life[r] = "created"
          /\ life' = [life EXCEPT ![r] = "polishing"]
          /\ call' = [call EXCEPT ![c] = "end"]
          /\ Returned(c, "watching")
       \/ /\ r \notin ctxDone \/ c[2] = "api"
          /\ life[r] # "created"
          /\ call' = [call EXCEPT ![c] = "release"]
          /\ UNCHANGED <<life, request>>
    /\ UNCHANGED <<registered, slots, entries, ctxDone, left, watcher>>

\* Mutant: the slot is given back and nobody is dispatched.
ReleaseFailedQuietly(c) ==
    /\ call[c] = "release"
    /\ running' = running \ {c[1]}
    /\ call' = [call EXCEPT ![c] = "recover"]
    /\ UNCHANGED <<registered, queue, byID, canceled, entries, ctxDone, life, left, request, watcher>>

\* Mutant: a start that failed keeps its slot.
ReleaseFailedNothing(c) ==
    /\ call[c] = "release"
    /\ call' = [call EXCEPT ![c] = "recover"]
    /\ UNCHANGED <<registered, slots, entries, ctxDone, life, left, request, watcher>>

\* A start that failed gives the slot back ...
ReleaseFailed(c) ==
    /\ call[c] = "release"
    /\ Collect(running \ {c[1]}, byID, canceled, [call EXCEPT ![c] = "recover"])
    /\ UNCHANGED <<registered, entries, ctxDone, life, left, request, watcher>>

\* ... and aborts the runner if its status is still pending.
Recover(c) ==
    /\ call[c] = "recover"
    /\ IF life[c[1]] \in {"created", "polishing"} THEN Abort(c[1]) ELSE UNCHANGED life
    /\ call' = [call EXCEPT ![c] = "end"]
    /\ Returned(c, "failed")
    /\ UNCHANGED <<registered, slots, entries, ctxDone, left, watcher>>

StartManagedRunner(c) == EnterStart(c) \/ StartManaged(c) \/ ReleaseFailed(c) \/ Recover(c)

-----------------------------------------------------------------------------
\* startRequestWithStream

Register(r) ==
    /\ request[r] = "new"
    /\ registered' = registered \cup {r}
    /\ request' = [request EXCEPT ![r] = "registered"]
    /\ UNCHANGED <<slots, entries, ctxDone, life, left, watcher, call>>

\* submitManagedRunner with a context that is already done
SubmitCanceled(r) ==
    /\ request[r] = "registered" /\ r \in ctxDone
    /\ Abort(r)
    /\ request' = [request EXCEPT ![r] = "failed"]
    /\ UNCHANGED <<registered, slots, entries, ctxDone, left, watcher, call>>

\* Mutant: one runner too many.
SlotFreeOffByOne == Max = 0 \/ Cardinality(running) <= Max

SlotFree == Max = 0 \/ Cardinality(running) < Max

\* ... with a free slot
SubmitStart(r) ==
    /\ request[r] = "registered" /\ SlotFree
    /\ running' = IF Max = 0 THEN running ELSE running \cup {r}
    /\ request' = [request EXCEPT ![r] = "starting"]
    /\ call' = [call EXCEPT ![<<r, "submit">>] = "enter"]
    /\ UNCHANGED <<registered, queue, byID, canceled, entries, ctxDone, life, left, watcher>>

\* ... with none: queued, and watched for cancellation and for its end
SubmitQueue(r) ==
    /\ request[r] = "registered" /\ ~SlotFree
    /\ queue' = queue \cup {r}
    /\ byID' = byID \cup {r}
    /\ order' = [order EXCEPT ![r] = nextOrder]
    /\ nextOrder' = nextOrder + 1
    /\ watcher' = [watcher EXCEPT ![r] = "watching"]
    /\ request' = [request EXCEPT ![r] = "watching"]
    /\ UNCHANGED <<registered, running, canceled, ctxDone, life, left, call>>

\* Mutant: the slot is given back and nobody is dispatched.
ReleaseSlotQuietly(r) ==
    /\ request[r] = "watching" /\ Settled(r) /\ r \notin left
    /\ request' = [request EXCEPT ![r] = "released"]
    /\ running' = running \ {r}
    /\ UNCHANGED <<registered, queue, byID, canceled, entries, ctxDone, life, left, watcher, call>>

\* watchRunnerDone and releaseRunnerExecutionSlot, when the settle observer found
\* the runner settled and closed Done
ReleaseSlot(r) ==
    /\ request[r] = "watching" /\ Settled(r) /\ r \notin left
    /\ request' = [request EXCEPT ![r] = "released"]
    /\ Collect(running \ {r}, byID, canceled, call)
    /\ UNCHANGED <<registered, entries, ctxDone, life, left, watcher>>

-----------------------------------------------------------------------------
\* watchQueuedRunner

\* The entry's done channel is closed.
WatchDone(r) ==
    /\ watcher[r] = "watching" /\ r \notin byID
    /\ watcher' = [watcher EXCEPT ![r] = "end"]
    /\ UNCHANGED <<registered, slots, entries, ctxDone, life, left, request, call>>

\* cancelQueuedRunner: removeQueuedRunner does nothing for an entry that has
\* left the queue in the meantime ...
CancelQueued(r) ==
    /\ watcher[r] = "watching" /\ r \in ctxDone
    /\ watcher' = [watcher EXCEPT ![r] = "abort"]
    /\ \/ r \in byID /\ Collect(running, byID \ {r}, canceled \cup {r}, call)
       \/ r \notin byID /\ UNCHANGED <<slots, call>>
    /\ UNCHANGED <<registered, entries, ctxDone, life, left, request>>

\* ... but the runner is aborted in any case.
AbortQueued(r) ==
    /\ watcher[r] = "abort"
    /\ Abort(r)
    /\ watcher' = [watcher EXCEPT ![r] = "end"]
    /\ UNCHANGED <<registered, slots, entries, ctxDone, left, request, call>>

-----------------------------------------------------------------------------
\* The orchestrator's other entry points, and the environment

\* RemoveRunner: pending, failed and canceled runners; a queued one is dropped.
RemoveRunner(r) ==
    /\ r \in MayRemove /\ r \in registered
    /\ life[r] \notin {"executing", "completed"}
    /\ registered' = registered \ {r}
    /\ Collect(running, byID \ {r}, IF r \in byID THEN canceled \cup {r} ELSE canceled, call)
    /\ UNCHANGED <<entries, ctxDone, life, left, request, watcher>>

\* StartRunner
StartRunner(r) ==
    /\ r \in MayStart /\ r \in registered
    /\ call[<<r, "api">>] = "none"
    /\ call' = [call EXCEPT ![<<r, "api">>] = "enter"]
    /\ UNCHANGED <<registered, slots, entries, ctxDone, life, left, request, watcher>>

CancelRequest(r) ==
    /\ r \in MayCancel \ ctxDone
    /\ ctxDone' = ctxDone \cup {r}
    /\ UNCHANGED <<registered, slots, entries, life, left, request, watcher, call>>

\* The runner's own progress: it executes, completes, or gives up.
RunnerStep(r) ==
    /\ \/ life[r] = "polishing" /\ life' = [life EXCEPT ![r] = "executing"]
       \/ life[r] = "executing" /\ life' = [life EXCEPT ![r] = "completed"]
       \/ Live(r) /\ Abort(r)
    /\ UNCHANGED <<registered, slots, entries, ctxDone, left, request, watcher, call>>

\* startSettleObserver: an observer that has not closed Done leaves with the context
\* the runner was built with, the request's.
ObserverLeaves(r) ==
    /\ r \in ctxDone \ left /\ request[r] # "released"
    /\ left' = left \cup {r}
    /\ UNCHANGED <<registered, slots, entries, ctxDone, life, request, watcher, call>>

Submit(r) == SubmitCanceled(r) \/ (r \notin ctxDone /\ (SubmitStart(r) \/ SubmitQueue(r)))
Watch(r)  == WatchDone(r) \/ CancelQueued(r) \/ AbortQueued(r)

Next ==
    \/ \E r \in Runner : \/ Register(r) \/ Submit(r) \/ ReleaseSlot(r) \/ Watch(r)
                         \/ FinishCanceled(r) \/ RemoveRunner(r) \/ StartRunner(r)
                         \/ CancelRequest(r) \/ RunnerStep(r) \/ ObserverLeaves(r)
    \/ \E c \in Runner \X Source : StartManagedRunner(c)

Spec == Init /\ [][Next]_vars

\* Goroutines that can run do, and a live runner ends; nobody has to make a
\* request, cancel one, or call StartRunner or RemoveRunner, and an observer that
\* finds both may see the settled runner before the canceled context.
Fairness ==
    /\ \A r \in Runner : /\ WF_vars(Submit(r)) /\ WF_vars(ReleaseSlot(r))
                         /\ WF_vars(Watch(r)) /\ WF_vars(FinishCanceled(r))
                         /\ WF_vars(RunnerStep(r))
    /\ \A c \in Runner \X Source : WF_vars(StartManagedRunner(c))

FairSpec == Spec /\ Fairness

-----------------------------------------------------------------------------
\* Properties

\* Every variable holds a value of its type.
TypeOK ==
    /\ registered \in SUBSET Runner /\ running \in SUBSET Runner
    /\ queue \in SUBSET Runner /\ byID \in SUBSET Runner
    /\ canceled \in SUBSET Runner /\ ctxDone \in SUBSET Runner
    /\ order \in [Runner -> Nat] /\ nextOrder \in Nat
    /\ life \in [Runner -> Life] /\ left \in SUBSET Runner
    /\ request \in [Runner -> Requests]
    /\ watcher \in [Runner -> Watchers]
    /\ call \in [Runner \X Source -> Calls]

\* Nobody has called StartRunner on r: only the queue starts it.
Managed(r) == call[<<r, "api">>] = "none"

\* No more runners that came through StartRequest are at work at once than
\* SetMaxRunningRunners allows ("how many runners may execute at once for
\* StartRequest submissions"), whatever is canceled, removed, given back or
\* started past the queue at the same moment.
ExecutionBound ==
    Max > 0 => Cardinality({r \in Runner : Managed(r) /\ Live(r)}) <= Max

\* No slot is free while a request waits that could have it: every step that
\* frees a slot or an entry dispatches the queue before it unlocks.
NoIdleSlot == SlotFree => Startable(canceled) = {}

\* Whoever gets a slot is ahead of everyone who could have had it and still
\* waits, newcomers included: priority first, then order of arrival.
GrantsInOrder ==
    [][\A r \in running' \ running, s \in queue' :
          s \notin canceled' /\ s \notin ctxDone' => r \in queue /\ Before(r, s)]_vars

\* A queued runner that was canceled or removed is never started by a dispatch
\* that was already on its way.
DroppedNeverRuns == \A r \in canceled : Managed(r) => ~Live(r)

\* The slots are used in full and never beyond, and only by those still entitled.
SlotsAreRight == ExecutionBound /\ NoIdleSlot /\ DroppedNeverRuns

\* Runners whose Done nobody will close
NeverDone == {r \in Runner : r \in left \/ life[r] = "stuck"}

\* Every accepted request ends, served or aborted, unless its runner was removed
\* from the queue; one that waits for a slot forever does so only when all of them
\* are held by runners that are never done.  (There are finitely many requests, so
\* that "for each of them eventually" is "eventually for all of them".)
RequestEnds ==
    <>[](\A r \in Runner : request[r] = "watching" =>
            \/ Settled(r) \/ r \in canceled \ registered \/ life[r] = "stuck"
            \/ r \in queue /\ Cardinality(running) = Max /\ running \subseteq NeverDone)

\* Every slot that was taken is given back, but for those of such runners: when a
\* request is canceled after its start, or its runner aborted while it polishes,
\* watchRunnerDone may wait forever and keep the slot.
SlotsComeBack == <>[](running \subseteq NeverDone)

\* Nobody who asked for a runner waits forever, and no slot is lost on the way,
\* unless Done is never closed.
QueueDrains == RequestEnds /\ SlotsComeBack
=============================================================================
