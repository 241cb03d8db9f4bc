--------------------------- MODULE RunnerLifecycle ---------------------------
(***************************************************************************)
(* The phase machine of a Runner (runner/lifecycle.go and the launch,      *)
(* abort and settle paths of runner/runner.go) with the goroutines that    *)
(* drive it:                                                               *)
(*                                                                         *)
(*   managed   runManagedLifecycle, or in bare mode the caller of Start    *)
(*   polishers runPolishStage, one per StartPolish or ReplanWith           *)
(*   engine    runEngine followed by settle                                *)
(*   observer  the settle observer started by New, only closer of Done     *)
(*   caller    anyone who calls Abort or, in bare mode, Complete           *)
(*                                                                         *)
(* They share the phase and status under stateMu and talk through phase    *)
(* and engine events on the runner's stream.  A step is what happens       *)
(* between two points where another goroutine can run: setting the phase   *)
(* and announcing it are different steps.  The event loop is reduced to    *)
(* its outcome (idle, failed or canceled); RunnerEngine has the rest.  Of  *)
(* the records appended to the store (RunnerStore) only the failure of an  *)
(* append is kept: it ends the engine.                                     *)
(***************************************************************************)
EXTENDS Naturals, Sequences

CONSTANTS
    Setups,       \* how the runner may be built and driven
    ObserverBuf,  \* subscriber buffer of the settle observer (32 in the code)
    WaiterBuf     \* subscriber buffer of waitForPhase (8 in the code)

ASSUME SetupAssumption ==
    \A s \in Setups : /\ s.mode \in {"managed", "bare"}
                      /\ {s.plan, s.cancel, s.abort} \subseteq BOOLEAN
                      /\ s.mode = "managed" => s.plan
ASSUME PolisherAssumption ==
    \A s \in Setups :
        /\ s.polishers \in Seq(STRING)
        /\ s.mode = "managed" => s.polishers # <<>>
        /\ \A i, j \in 1 .. Len(s.polishers) : s.polishers[i] = s.polishers[j] => i = j
        /\ \A i \in 1 .. Len(s.polishers) :
              s.polishers[i] \notin {"managed", "engine", "observer", "caller"}
ASSUME BufferAssumption == ObserverBuf \in Nat \ {0} /\ WaiterBuf \in Nat \ {0}

VARIABLES
    setup,           \* the setup this runner has, fixed when it is built
    phase, status,   \* RunnerPhase and RunnerState.Status, under stateMu
    engineErr,       \* the first captured error, returned by Wait
    done,            \* the Done channel is closed
    clean,           \* completedCleanly
    cancelEngine,    \* r.cancelEngine is set
    runCtxDone,      \* cancelEngine was called
    ctxDone,         \* the runner's own context is canceled
    plans,           \* number of plans adopted so far (1 + replans)
    fragments,       \* the plan the stored polish fragments belong to, 0 if none
    events,          \* the oldest announced phases, as many as a replay can deliver
    observerQ,       \* how many events wait in the observer's subscription buffer
    waiterQ,         \* subscription buffer of waitForPhase
    taken,           \* the event waitForPhase is looking at
    note,            \* the phase a goroutine read and is about to announce
    engineQ,         \* subscription buffer of acceptAndComplete
    pc,              \* where each goroutine stands
    err              \* the error each goroutine holds

state   == <<phase, status>>
outcome == <<engineErr, done>>
control == <<clean, cancelEngine, runCtxDone>>
data    == <<plans, fragments>>
queues  == <<events, observerQ, waiterQ, taken, note>>
env     == <<setup, ctxDone>>
vars    == <<state, outcome, control, env, data, queues, engineQ, pc, err>>

Mode      == setup.mode       \* "managed" (StartManaged) or "bare" (Start)
HasPlan   == setup.plan       \* built with a plan, always in managed mode
Polishers == setup.polishers  \* the polish goroutines, in order of creation
MayCancel == setup.cancel     \* the runner's own context may be canceled
MayAbort  == setup.abort      \* some caller may call Abort

PolisherNames == UNION {{s.polishers[i] : i \in 1 .. Len(s.polishers)} : s \in Setups}
Proc          == {"managed", "engine", "observer", "caller"} \cup PolisherNames

Init ==
    /\ setup \in Setups
    /\ phase = "created" /\ status = "pending"
    /\ engineErr = "none"
    /\ done = FALSE /\ clean = FALSE /\ cancelEngine = FALSE
    /\ runCtxDone = FALSE /\ ctxDone = FALSE
    /\ plans = 1 /\ fragments = 0
    /\ events = <<>> /\ observerQ = 0 /\ waiterQ = <<>> /\ engineQ = <<>>
    /\ taken = "created"
    /\ pc = [p \in Proc |->
               CASE p = "managed"  -> IF Mode = "managed" THEN "call" ELSE "start"
                 [] p = "observer" -> "first"
                 [] p = "caller"   -> "ready"
                 [] OTHER          -> "off"]
    /\ err = [p \in Proc |-> "none"]
    /\ note = [p \in Proc |-> "none"]

-----------------------------------------------------------------------------
\* Steps that several goroutines take

At(p, l)    == pc[p] = l
Moved(p, l) == [pc EXCEPT ![p] = l]
Goto(p, l)  == pc' = Moved(p, l)

\* Go on to label l holding the error e, which is out of scope at the end.
Fail(p, l, e) == Goto(p, l) /\ err' = [err EXCEPT ![p] = IF l = "end" THEN "none" ELSE e]

\* Return an error: runManagedLifecycle deals with it, other callers just stop.
Return(p, e) == Fail(p, IF p = "managed" /\ Mode = "managed" THEN "giveUp" ELSE "end", e)

\* Subscription.send with OverflowDropNewest: a full buffer drops the event.
Offer(q, v, buf) == IF Len(q) < buf THEN Append(q, v) ELSE q

\* The labels at which waitForPhase holds its subscription, and those at which
\* acceptAndComplete holds one; leaving them cancels it.
Subscribed == {"recheck", "next", "eval", "evalEvent", "waitDone"}
Attentive  == {"accept", "launch", "queue", "listening"}

\* The waiter's subscription after a step to label l.
Kept(l) == IF l \in Subscribed THEN waiterQ ELSE <<>>

\* emitPhaseChangedEvent called by p at l: the phase is read under the lock and
\* announced after it, and another goroutine may set it in between.  Then pc
\* becomes next.
Announce(p, l, next) ==
    /\ At(p, l)
    /\ \/ /\ note[p] = "none"
          /\ note' = [note EXCEPT ![p] = phase]
          /\ UNCHANGED <<events, observerQ, waiterQ, pc>>
       \/ /\ note[p] # "none"
          /\ note' = [note EXCEPT ![p] = "none"]
          /\ events' = Offer(events, note[p], WaiterBuf)
          /\ observerQ' = IF At("observer", "end") \/ observerQ = ObserverBuf THEN observerQ
                          ELSE observerQ + 1
          /\ waiterQ' = IF pc["managed"] \in Subscribed
                        THEN Offer(waiterQ, note[p], WaiterBuf) ELSE waiterQ
          /\ pc' = next
    /\ UNCHANGED <<state, outcome, control, env, data, taken, engineQ, err>>

\* captureEngineErr: the first error wins.
Capture(e) == engineErr' = IF engineErr = "none" THEN e ELSE engineErr

\* Abort(err[p]) called by p: state and phase under the lock, then the error,
\* then the announcement.
AbortSet(p) ==
    /\ At(p, "abort")
    /\ status' = IF err[p] = "canceled" THEN "canceled" ELSE "failed"
    /\ phase' = "settled"
    /\ Goto(p, "capture")
    /\ UNCHANGED <<outcome, control, env, data, queues, engineQ, err>>

\* Mutant: Abort keeps its error to itself.
AbortUncaptured(p) ==
    /\ At(p, "capture")
    /\ Goto(p, "announceAbort")
    /\ UNCHANGED <<state, outcome, control, env, data, queues, engineQ, err>>

\* Mutant: Abort does not announce the new phase.
AbortUnannounced(p) ==
    /\ At(p, "capture")
    /\ Capture(err[p])
    /\ Goto(p, "end")
    /\ UNCHANGED <<state, done, control, env, data, queues, engineQ, err>>

AbortCapture(p) ==
    /\ At(p, "capture")
    /\ Capture(err[p])
    /\ Fail(p, "announceAbort", "none")
    /\ UNCHANGED <<state, done, control, env, data, queues, engineQ>>

AbortAnnounce(p) == Announce(p, "announceAbort", Moved(p, "end"))

Abort(p) == AbortSet(p) \/ AbortCapture(p) \/ AbortAnnounce(p)

\* Complete called by p: the phase and the cancel function are read under the
\* lock, the rest happens after it is released.
CompleteRead(p) ==
    /\ At(p, "complete")
    /\ \/ phase # "executing" /\ Return(p, "failed")
       \/ phase = "executing" /\ cancelEngine /\ Goto(p, "completeCancel") /\ UNCHANGED err
       \/ phase = "executing" /\ ~cancelEngine /\ Goto(p, "completeNil") /\ UNCHANGED err
    /\ UNCHANGED <<state, outcome, control, env, data, queues, engineQ>>

CompleteCancel(p) ==
    /\ pc[p] \in {"completeCancel", "completeNil"}
    /\ clean' = TRUE
    /\ runCtxDone' = (runCtxDone \/ At(p, "completeCancel"))
    /\ Goto(p, "waitCtx")
    /\ UNCHANGED <<state, outcome, cancelEngine, env, data, queues, engineQ, err>>

\* Wait(ctx) at the end of Complete and of acceptAndComplete.
WaitCtx(p) ==
    /\ At(p, "waitCtx")
    /\ \/ done /\ engineErr = "none" /\ Goto(p, "end") /\ UNCHANGED err
       \/ done /\ engineErr # "none" /\ Return(p, engineErr)
       \/ ~done /\ ctxDone /\ Return(p, "canceled")
    /\ UNCHANGED <<state, outcome, control, env, data, queues, engineQ>>

Complete(p) == CompleteRead(p) \/ CompleteCancel(p) \/ WaitCtx(p)

-----------------------------------------------------------------------------
\* The managed goroutine: polish and wait for review

\* StartManaged
StartManaged ==
    /\ At("managed", "call")
    /\ \/ ctxDone /\ Fail("managed", "abort", "canceled")
       \/ ~ctxDone /\ phase = "created" /\ Goto("managed", "startPolish") /\ UNCHANGED err
       \/ ~ctxDone /\ phase # "created" /\ Goto("managed", "end") /\ UNCHANGED err
    /\ UNCHANGED <<state, outcome, control, env, data, queues, engineQ>>

\* Mutant: an error of the managed lifecycle is dropped.
GiveUpSilently ==
    /\ At("managed", "giveUp")
    /\ Goto("managed", "end")
    /\ UNCHANGED <<state, outcome, control, env, data, queues, engineQ, err>>

\* runManagedLifecycle: an error aborts the runner unless it is done already.
GiveUp ==
    /\ At("managed", "giveUp")
    /\ Fail("managed", IF done THEN "end" ELSE "abort", err["managed"])
    /\ UNCHANGED <<state, outcome, control, env, data, queues, engineQ>>

\* StartPolish up to the unlock; preparing the agents may fail, and so does a
\* call in any other phase.
StartPolish ==
    /\ At("managed", "startPolish")
    /\ \/ Fail("managed", "giveUp", "failed") /\ UNCHANGED state
       \/ /\ phase \in {"created", "awaiting_replan"}
          /\ phase' = "polishing"
          /\ Goto("managed", "announcePolish")
          /\ UNCHANGED <<status, err>>
    /\ UNCHANGED <<outcome, control, env, data, queues, engineQ>>

\* The end of StartPolish and of ReplanWith.
AnnouncePolish ==
    Announce("managed", "announcePolish",
             [pc EXCEPT !["managed"] = "wait", ![Polishers[plans]] = "polish"])

\* waitForPhase(ctx, PhaseAwaitingReview)
WaitFirst ==
    /\ At("managed", "wait")
    /\ Goto("managed", IF phase = "awaiting_review" THEN "review" ELSE "subscribe")
    /\ UNCHANGED <<state, outcome, control, env, data, queues, engineQ, err>>

\* Subscribe replays the buffered phase events, oldest first, as far as they fit.
WaitSubscribe ==
    /\ At("managed", "subscribe")
    /\ waiterQ' = events
    /\ Goto("managed", "recheck")
    /\ UNCHANGED <<state, outcome, control, env, data, events, observerQ,
                   taken, note, engineQ, err>>

\* The phase decides, or else the loop goes on at l.
WaitJudge(from, l) ==
    /\ At("managed", from)
    /\ LET to == CASE phase = "awaiting_review" -> "review"
                   [] phase = "settled" -> "waitDone"
                   [] OTHER -> l
       IN Goto("managed", to) /\ waiterQ' = Kept(to)
    /\ UNCHANGED <<state, outcome, control, env, data, events, observerQ,
                   taken, note, engineQ, err>>

WaitRecheck == WaitJudge("recheck", "next")
WaitEval    == WaitJudge("eval", "evalEvent")

WaitNext ==
    /\ At("managed", "next")
    /\ \/ /\ waiterQ # <<>>
          /\ taken' = Head(waiterQ)
          /\ waiterQ' = Tail(waiterQ)
          /\ Goto("managed", "eval")
          /\ UNCHANGED err
       \/ /\ ctxDone
          /\ Fail("managed", "giveUp", "canceled")
          /\ waiterQ' = <<>>
          /\ UNCHANGED taken
    /\ UNCHANGED <<state, outcome, control, env, data, events, observerQ, note, engineQ>>

\* Mutant: a review event counts even when it is an old one.
WaitTrustsEvent ==
    /\ At("managed", "evalEvent")
    /\ LET to == CASE taken = "awaiting_review" -> "review"
                   [] taken = "settled" -> "waitDone"
                   [] OTHER -> "next"
       IN Goto("managed", to) /\ waiterQ' = Kept(to)
    /\ taken' = "created"
    /\ UNCHANGED <<state, outcome, control, env, data, events, observerQ,
                   note, engineQ, err>>

\* The event itself; a review phase counts only while it is still current.
WaitEvalEvent ==
    /\ At("managed", "evalEvent")
    /\ LET to == CASE taken = "awaiting_review" /\ phase = "awaiting_review" -> "review"
                   [] taken = "settled" -> "waitDone"
                   [] OTHER -> "next"
       IN Goto("managed", to) /\ waiterQ' = Kept(to)
    /\ taken' = "created"
    /\ UNCHANGED <<state, outcome, control, env, data, events, observerQ,
                   note, engineQ, err>>

\* Wait(context.Background()): waitForPhase returns what Wait returns.
WaitDone ==
    /\ At("managed", "waitDone")
    /\ done
    /\ \/ engineErr = "none" /\ Goto("managed", "review") /\ UNCHANGED err
       \/ engineErr # "none" /\ Fail("managed", "giveUp", engineErr)
    /\ waiterQ' = <<>>
    /\ UNCHANGED <<state, outcome, control, env, data, events, observerQ,
                   taken, note, engineQ>>

WaitForPhase == \/ WaitFirst \/ WaitSubscribe \/ WaitRecheck \/ WaitNext
                \/ WaitEval \/ WaitEvalEvent \/ WaitDone

-----------------------------------------------------------------------------
\* The managed goroutine: review, replan, execute

\* reviewPolishedPlan asks the planner; the number of rejections is bounded by
\* the number of polish goroutines the model has.
Review ==
    /\ At("managed", "review")
    /\ \/ Goto("managed", "accept") /\ UNCHANGED err
       \/ plans < Len(Polishers) /\ Goto("managed", "reject") /\ UNCHANGED err
       \/ Fail("managed", "giveUp", "failed")
       \/ ctxDone /\ Fail("managed", "giveUp", "canceled")
    /\ UNCHANGED <<state, outcome, control, env, data, queues, engineQ>>

\* Mutant: a rejected plan goes straight back to polishing.
RejectToPolishing ==
    /\ At("managed", "reject")
    /\ \/ phase # "awaiting_review" /\ Fail("managed", "giveUp", "failed") /\ UNCHANGED phase
       \/ /\ phase = "awaiting_review"
          /\ phase' = "polishing"
          /\ Goto("managed", "announceReject")
          /\ UNCHANGED err
    /\ UNCHANGED <<status, outcome, control, env, data, queues, engineQ>>

\* RejectPolishedPlan
Reject ==
    /\ At("managed", "reject")
    /\ \/ phase # "awaiting_review" /\ Fail("managed", "giveUp", "failed") /\ UNCHANGED phase
       \/ /\ phase = "awaiting_review"
          /\ phase' = "awaiting_replan"
          /\ Goto("managed", "announceReject")
          /\ UNCHANGED err
    /\ UNCHANGED <<status, outcome, control, env, data, queues, engineQ>>

AnnounceReject == Announce("managed", "announceReject", Moved("managed", "replan"))

\* replanPolishedPlan
Replan ==
    /\ At("managed", "replan")
    /\ \/ Goto("managed", "replanWith") /\ UNCHANGED err
       \/ Fail("managed", "giveUp", "failed")
       \/ ctxDone /\ Fail("managed", "giveUp", "canceled")
    /\ UNCHANGED <<state, outcome, control, env, data, queues, engineQ>>

\* ReplanWith: preparing the new nodes' agents may fail.
ReplanWith ==
    /\ At("managed", "replanWith")
    /\ \/ Fail("managed", "giveUp", "failed") /\ UNCHANGED <<phase, plans>>
       \/ /\ phase = "awaiting_replan"
          /\ phase' = "polishing"
          /\ plans' = plans + 1
          /\ Goto("managed", "clear")
          /\ UNCHANGED err
    /\ UNCHANGED <<status, outcome, control, env, fragments, queues, engineQ>>

\* ... which drops the previous plan's fragments before it polishes again.
ClearFragments ==
    /\ At("managed", "clear")
    /\ fragments' = 0
    /\ Goto("managed", "announcePolish")
    /\ UNCHANGED <<state, outcome, control, env, plans, queues, engineQ, err>>

\* Mutant: only the phase is checked, not the status.
PrepareByPhase(label, from) ==
    /\ At("managed", label)
    /\ \/ Return("managed", "failed") /\ UNCHANGED phase
       \/ /\ phase = from
          /\ phase' = "executing"
          /\ Goto("managed", "launch")
          /\ UNCHANGED err
    /\ UNCHANGED <<status, outcome, control, env, data, queues, engineQ>>

\* prepareEngineLaunch(from): reserves PhaseExecuting.
PrepareEngineLaunch(label, from) ==
    /\ At("managed", label)
    /\ \/ Return("managed", "failed") /\ UNCHANGED phase
       \/ /\ status = "pending" /\ phase = from
          /\ phase' = "executing"
          /\ Goto("managed", "launch")
          /\ UNCHANGED err
    /\ UNCHANGED <<status, outcome, control, env, data, queues, engineQ>>

AcceptPolishedPlan == PrepareEngineLaunch("accept", "awaiting_review")
Start              == PrepareEngineLaunch("start", "created")

\* Mutant: the engine's context does not derive from the runner's.
IgnoresRunnerCtx == runCtxDone

\* The engine's context derives from the runner's and from cancelEngine.
EngineCtxDone == ctxDone \/ runCtxDone

\* An engine event reaches the subscription of acceptAndComplete.
Deliver(v) ==
    engineQ' = IF Mode = "managed" /\ pc["managed"] \in Attentive
               THEN Append(engineQ, v) ELSE engineQ

\* launchEngine: the cancel function, then the engine goroutine ...
LaunchEngine ==
    /\ At("managed", "launch")
    /\ cancelEngine' = TRUE
    /\ pc' = [pc EXCEPT !["managed"] = "queue", !["engine"] = "boot"]
    /\ UNCHANGED <<state, outcome, clean, runCtxDone, env, data, queues, engineQ, err>>

\* ... then AddNodes: a select between the queue and the engine's context.
QueueInitial ==
    /\ At("managed", "queue")
    /\ \/ /\ Goto("managed", IF Mode = "managed" THEN "listening" ELSE "end")
          /\ UNCHANGED <<err, runCtxDone>>
       \/ /\ EngineCtxDone
          /\ runCtxDone' = TRUE
          /\ Return("managed", "canceled")
    /\ UNCHANGED <<state, outcome, clean, cancelEngine, env, data, queues, engineQ>>

\* acceptAndComplete reads engine events until one of them decides.
Listen ==
    /\ At("managed", "listening")
    /\ \/ /\ engineQ # <<>>
          /\ Goto("managed", IF Head(engineQ) = "idle" THEN "complete" ELSE "waitCtx")
          /\ UNCHANGED err
       \/ /\ ctxDone
          /\ Fail("managed", "giveUp", "canceled")
    /\ engineQ' = <<>>
    /\ UNCHANGED <<state, outcome, control, env, data, queues>>

Managed == \/ StartManaged \/ GiveUp \/ StartPolish \/ AnnouncePolish
           \/ WaitForPhase \/ Review \/ Reject \/ AnnounceReject \/ Replan
           \/ ReplanWith \/ ClearFragments \/ AcceptPolishedPlan \/ Start
           \/ LaunchEngine \/ QueueInitial \/ Listen
           \/ Complete("managed") \/ Abort("managed")

-----------------------------------------------------------------------------
\* runPolishStage

\* fanOutPolish: every Polish call has returned.
Polish(p) ==
    /\ At(p, "polish")
    /\ \E e \in {"none", "failed"} \cup (IF ctxDone THEN {"canceled"} ELSE {}) :
          Fail(p, "store", e)
    /\ UNCHANGED <<state, outcome, control, env, data, queues, engineQ>>

StoreFragments(p) ==
    /\ At(p, "store")
    /\ fragments' = CHOOSE i \in 1 .. Len(Polishers) : Polishers[i] = p
    /\ Goto(p, IF err[p] = "none" THEN "setReview" ELSE "abort")
    /\ UNCHANGED <<state, outcome, control, env, plans, queues, engineQ, err>>

\* transitionPhase(PhaseAwaitingReview), whatever the phase is now.
SetReview(p) ==
    /\ At(p, "setReview")
    /\ phase' = "awaiting_review"
    /\ Goto(p, "announceReview")
    /\ UNCHANGED <<status, outcome, control, env, data, queues, engineQ, err>>

AnnounceReview(p) == Announce(p, "announceReview", Moved(p, "end"))

PolishStage(p) == Polish(p) \/ StoreFragments(p) \/ SetReview(p) \/ AnnounceReview(p) \/ Abort(p)

-----------------------------------------------------------------------------
\* runEngine and settle

\* The state is taken from pending to running, or someone was faster.
EngineBoot ==
    /\ At("engine", "boot")
    /\ \/ status # "pending" /\ Fail("engine", "settle", "failed") /\ UNCHANGED status
       \/ status = "pending" /\ status' = "running" /\ Goto("engine", "announceRun") /\ UNCHANGED err
    /\ UNCHANGED <<phase, outcome, control, env, data, queues, engineQ>>

AnnounceRun == Announce("engine", "announceRun", Moved("engine", "prelude"))

\* The workspace and the first records: a failure ends the engine without an
\* EngineStopped event and without a status record.
EnginePrelude ==
    /\ At("engine", "prelude")
    /\ \/ status' = "failed" /\ Fail("engine", "settle", "failed")
       \/ Goto("engine", "loop") /\ UNCHANGED <<status, err>>
    /\ UNCHANGED <<phase, outcome, control, env, plans, fragments, queues, engineQ>>

\* The event loop runs out of active nodes: recordState(idle), ...
EngineIdle ==
    /\ At("engine", "loop")
    /\ status' = "idle"
    /\ \/ Goto("engine", "emitIdle") /\ UNCHANGED err
       \/ Fail("engine", "finish", "failed")
    /\ UNCHANGED <<phase, outcome, control, env, plans, fragments, queues, engineQ>>

\* ... then the EngineIdle event, which waits for its record.
EmitIdle ==
    /\ At("engine", "emitIdle")
    /\ \/ Deliver("idle") /\ Goto("engine", "idling") /\ UNCHANGED err
       \/ Fail("engine", "finish", "failed") /\ UNCHANGED engineQ
    /\ UNCHANGED <<state, outcome, control, env, data, queues>>

\* runNode: recordState(running) overwrites whatever the status is.  An idle
\* engine has a node to run only after an AddNodes, as bare mode allows.
EngineRunsNode ==
    /\ \/ At("engine", "loop") /\ status # "running"
       \/ At("engine", "idling") /\ Mode = "bare"
    /\ status' = "running"
    /\ Goto("engine", "loop")
    /\ UNCHANGED <<phase, outcome, control, env, plans, fragments, queues, engineQ, err>>

\* A node failed (announced when its event could be persisted), or something
\* else in the loop did; "interrupted" is an error that wraps context.Canceled, as
\* that of a node whose context was canceled under it.
EngineFails ==
    /\ At("engine", "loop")
    /\ UNCHANGED engineQ \/ Deliver("node_failed")
    /\ \E e \in {"failed", "interrupted"} : Fail("engine", "finish", e)
    /\ UNCHANGED <<state, outcome, control, env, data, queues>>

EngineCanceled ==
    /\ pc["engine"] \in {"loop", "idling"}
    /\ EngineCtxDone
    /\ Fail("engine", "finish", "canceled")
    /\ UNCHANGED <<state, outcome, control, env, data, queues, engineQ>>

\* finish: recordState, then the EngineStopped event.  The error of either is joined
\* to the engine's own, which decides how the runner settles.
EngineFinish ==
    /\ At("engine", "finish")
    /\ status' = IF err["engine"] = "canceled" THEN "canceled" ELSE "failed"
    /\ Goto("engine", "emitStopped")
    /\ UNCHANGED <<phase, outcome, control, env, plans, fragments, queues, engineQ, err>>

EmitStopped ==
    /\ At("engine", "emitStopped")
    /\ UNCHANGED engineQ \/ Deliver("stopped")
    /\ Goto("engine", "settle")
    /\ UNCHANGED <<state, outcome, control, env, data, queues, err>>

\* A cancellation after Complete is a success, also one that a node reports.
EndsClean == clean /\ err["engine"] \in {"canceled", "interrupted"}

\* Mutant: the runner is settled before the error and the reports are in.
SettleEarly ==
    /\ At("engine", "settle")
    /\ phase' = "settled"
    /\ \/ EndsClean /\ status' = "idle" /\ Fail("engine", "captureEngine", "none")
       \/ /\ ~EndsClean
          /\ Goto("engine", "captureEngine")
          /\ UNCHANGED <<status, err>>
    /\ UNCHANGED <<outcome, control, env, data, queues, engineQ>>

\* settle: a clean end leaves no error and an idle runner.
SettleClean ==
    /\ At("engine", "settle")
    /\ \/ EndsClean /\ status' = "idle" /\ Fail("engine", "captureEngine", "none")
       \/ /\ ~EndsClean
          /\ Goto("engine", "captureEngine")
          /\ UNCHANGED <<status, err>>
    /\ UNCHANGED <<phase, outcome, control, env, data, queues, engineQ>>

SettleCapture ==
    /\ At("engine", "captureEngine")
    /\ IF err["engine"] = "none" THEN UNCHANGED engineErr ELSE Capture(err["engine"])
    /\ Fail("engine", IF err["engine"] = "none" /\ HasPlan THEN "report" ELSE "setSettled", "none")
    /\ UNCHANGED <<state, done, control, env, data, queues, engineQ>>

\* runReportStage
Report ==
    /\ At("engine", "report")
    /\ phase' = "report"
    /\ Goto("engine", "announceReport")
    /\ UNCHANGED <<status, outcome, control, env, data, queues, engineQ, err>>

AnnounceReport == Announce("engine", "announceReport", Moved("engine", "reporting"))

Reporting ==
    /\ At("engine", "reporting")
    /\ UNCHANGED engineErr \/ Capture("failed")
    /\ Goto("engine", "setSettled")
    /\ UNCHANGED <<state, done, control, env, data, queues, engineQ, err>>

SetSettled ==
    /\ At("engine", "setSettled")
    /\ phase' = "settled"
    /\ Goto("engine", "announceSettled")
    /\ UNCHANGED <<status, outcome, control, env, data, queues, engineQ, err>>

AnnounceSettled == Announce("engine", "announceSettled", Moved("engine", "end"))

Engine == \/ EngineBoot \/ AnnounceRun \/ EnginePrelude \/ EngineIdle \/ EmitIdle
          \/ EngineRunsNode \/ EngineFails \/ EngineCanceled \/ EngineFinish
          \/ EmitStopped \/ SettleClean \/ SettleCapture \/ Report
          \/ AnnounceReport \/ Reporting \/ SetSettled \/ AnnounceSettled

-----------------------------------------------------------------------------
\* The settle observer, the caller and the environment

\* Closing Done ends the observer.
Close(settled, otherwise) ==
    IF settled THEN done' = TRUE /\ Goto("observer", "end")
    ELSE done' = done /\ Goto("observer", otherwise)

ObserverFirst ==
    /\ At("observer", "first")
    /\ Close(phase = "settled", "watch")
    /\ UNCHANGED <<state, engineErr, control, env, data, queues, engineQ, err>>

\* sub.Next(r.ctx): any event wakes it, and so does the end of the context.
ObserverNext ==
    /\ At("observer", "watch")
    /\ \/ observerQ > 0 /\ observerQ' = observerQ - 1 /\ Goto("observer", "check")
       \/ ctxDone /\ Goto("observer", "end") /\ UNCHANGED observerQ
    /\ UNCHANGED <<state, outcome, control, env, data, events, waiterQ, taken,
                   note, engineQ, err>>

ObserverCheck ==
    /\ At("observer", "check")
    /\ Close(phase = "settled", "watch")
    /\ UNCHANGED <<state, engineErr, control, env, data, queues, engineQ, err>>

Observer == ObserverFirst \/ ObserverNext \/ ObserverCheck

\* Someone calls Abort, or Complete on a runner they started themselves.
CallerCalls ==
    /\ At("caller", "ready")
    /\ \/ MayAbort /\ \E e \in {"failed", "canceled"} : Fail("caller", "abort", e)
       \/ Mode = "bare" /\ Goto("caller", "complete") /\ UNCHANGED err
    /\ UNCHANGED <<state, outcome, control, env, data, queues, engineQ>>

Caller == Abort("caller") \/ Complete("caller")

CancelCtx ==
    /\ MayCancel /\ ~ctxDone
    /\ ctxDone' = TRUE
    /\ UNCHANGED <<setup, state, outcome, control, data, queues, engineQ, pc, err>>

Next ==
    \/ Managed
    \/ \E p \in PolisherNames : PolishStage(p)
    \/ Engine
    \/ Observer
    \/ Caller
    \/ CallerCalls
    \/ CancelCtx

Spec == Init /\ [][Next]_vars

\* Every goroutine that can run does, agents and planner included.  Go's select
\* picks among ready cases at random, hence the strong fairness of ctx.Done in
\* the event loop.  Nobody has to call Abort or Complete or cancel the context.
Fairness ==
    /\ WF_vars(Managed) /\ WF_vars(Engine) /\ WF_vars(Observer) /\ WF_vars(Caller)
    /\ SF_vars(EngineCanceled)
    /\ \A p \in PolisherNames : WF_vars(PolishStage(p))

FairSpec == Spec /\ Fairness

-----------------------------------------------------------------------------
\* Properties

\* Goroutines that still have a phase, a status or fragments to write.
Writing(p) == pc[p] \notin {"off", "end", "ready", "announceReview", "announceSettled",
                            "capture", "announceAbort"}

\* Nobody aborts the runner or cancels its context from outside.
Undisturbed == ~setup.abort /\ ~setup.cancel

\* Done is closed only when nothing of an undisturbed runner is at work any more:
\* no polish goroutine and no engine will still write phase, status or fragments.
\* (Done's promise "has settled into a terminal phase".)
DoneMeansQuiet ==
    done /\ Undisturbed => /\ phase = "settled"
                           /\ \A p \in PolisherNames \cup {"engine"} : ~Writing(p)

\* A runner that is done and ended failed or canceled has an error for Wait to
\* return, unless an Abort has yet to hand its error over (Abort settles the phase
\* first, and the observer may close Done in between).
FailureHasError ==
    (/\ done /\ status \in {"failed", "canceled"}
     /\ \A p \in Proc : ~At(p, "capture")) => engineErr # "none"

\* Whoever waits for Done can act on it: nothing of the runner is at work any
\* more, and a failure has its error.
DoneIsFinal == DoneMeansQuiet /\ FailureHasError

\* The planner reviews, and the engine executes, the fragments of the current
\* plan, neither missing ones nor those of a plan it rejected before; and until
\* then the engine's status is pending.
ReviewSeesCurrentFragments ==
    Undisturbed =>
        /\ pc["managed"] \in {"review", "accept", "launch", "queue", "listening"} /\ Mode = "managed"
              => fragments = plans
        /\ phase \in {"created", "polishing", "awaiting_review", "awaiting_replan"} => status = "pending"
        /\ phase = "report" => status = "idle" /\ clean

\* Once an error is captured the runner neither enters execution nor starts its
\* engine, whatever a polish goroutine that was still running did to the phase.
AbortedNeverExecutes ==
    [][engineErr # "none" =>
          /\ ~(phase # "executing" /\ phase' = "executing")
          /\ ~(At("engine", "boot") /\ pc'["engine"] = "announceRun")]_vars

\* A runner nobody aborts or cancels from outside walks the documented phase
\* diagram and closes Done in its terminal phase.
Documented == INSTANCE RunnerPhases WITH
                phase <- IF Undisturbed THEN phase ELSE "created", done <- Undisturbed /\ done
FollowsDiagram == Documented!Spec

\* Both: the phase goes only where the diagram lets it, and nowhere into execution
\* after a failure.
PhasesAreLegal == AbortedNeverExecutes /\ FollowsDiagram

\* What is to hold in the end.  A managed runner that was started, and a bare one
\* whose Complete found the engine's cancel function, is done, even when the
\* subscriber buffers dropped phase events; a settled runner whose context is
\* alive has closed Done ("closes when the runner has settled into a terminal
\* phase"); and the engine of a canceled one has stopped, also one launched after
\* the cancellation.
LetGo ==
    /\ Undisturbed /\ ((Mode = "managed" /\ ~At("managed", "call")) \/ runCtxDone) => done
    /\ phase = "settled" /\ ~ctxDone => done
    /\ ctxDone => pc["engine"] \in {"off", "end"}

\* Everybody who waits for the runner is let go, and for good.
EverythingEnds == <>[]LetGo
=============================================================================
