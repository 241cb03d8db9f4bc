------------------------ MODULE RunnerLifecycleProofs ------------------------
(***************************************************************************)
(* Proofs about RunnerLifecycle, for any setups and buffer sizes.          *)
(***************************************************************************)
EXTENDS RunnerLifecycle, TLAPS

-----------------------------------------------------------------------------
\* The inductive invariant

Phases   == {"created", "polishing", "awaiting_review", "awaiting_replan", "executing", "report", "settled"}
Statuses == {"pending", "running", "idle", "failed", "canceled"}
Errors   == {"none", "failed", "canceled", "interrupted"}

DataInv ==
    /\ setup \in Setups
    /\ phase \in Phases /\ status \in Statuses /\ engineErr \in Errors
    /\ done \in BOOLEAN /\ clean \in BOOLEAN /\ runCtxDone \in BOOLEAN /\ ctxDone \in BOOLEAN
    /\ plans \in Nat \ {0}
    /\ pc = [p \in Proc |-> pc[p]] /\ err \in [Proc -> Errors]

\* There is a polisher for every plan.
PlanInv ==
    /\ Mode = "bare" => pc["managed"] \in {"start", "launch", "queue", "end"}
    /\ Mode = "managed" => plans <= Len(Polishers)
    /\ pc["managed"] \in {"reject", "announceReject", "replan", "replanWith"} => plans < Len(Polishers)

\* The polishers of later plans, and of a plan not yet announced, do not run.
FreshInv ==
    Mode = "managed" =>
        \A i \in 1 .. Len(Polishers) :
            \/ i > plans
            \/ i = plans /\ pc["managed"] \in {"call", "startPolish", "clear", "announcePolish"}
            => pc[Polishers[i]] = "off"

TypeInv == DataInv /\ PlanInv /\ FreshInv

\* Somebody has settled the runner and is about to hand its error over.
HandingOver == \E p \in Proc : pc[p] = "capture"

\* Labels: of the managed goroutine, where it waits for the review, where it aborts
\* and where the engine may be at work; of a polisher, where the phase waits for it;
\* of the engine, where the phase is still executing, where it goes after a clean
\* end, and where it has settled the runner.
Waits     == {"wait", "subscribe"} \cup Subscribed
Aborts    == {"abort", "capture", "announceAbort"}
Completes == {"complete", "completeCancel", "completeNil", "waitCtx"}
Executes  == {"queue", "listening"} \cup Completes
Works     == {"polish", "store", "setReview", "abort"}
Runs      == {"boot", "announceRun", "prelude", "loop", "emitIdle", "idling", "finish",
              "emitStopped", "settle", "captureEngine", "report", "setSettled"}
Over      == {"announceSettled", "end"}
CleanEnd  == {"report", "announceReport", "reporting", "setSettled"} \cup Over

\* Errors: who aborts holds one; a captured error, or one about to be, leaves the
\* runner no longer pending; and a runner settles, and closes Done, with one of
\* these or at the end of a clean run.
ErrInv ==
    /\ \A p \in Proc : pc[p] \in {"abort", "capture", "giveUp"} => err[p] # "none"
    /\ pc["engine"] \in {"finish", "emitStopped", "settle"} => err["engine"] # "none"
    /\ pc["engine"] # "off" => pc["managed"] \in {"giveUp", "end"} \cup Aborts \cup Executes
    /\ status = "pending" => /\ engineErr = "none" /\ ~HandingOver
                             /\ pc["engine"] \in {"off", "boot"}
    /\ \/ pc["engine"] \in CleanEnd
       \/ pc["engine"] = "captureEngine" /\ err["engine"] = "none"
       => status = "idle" \/ engineErr # "none" \/ HandingOver
    /\ phase = "settled" \/ done => \/ engineErr # "none" \/ HandingOver
                                    \/ pc["engine"] \in Over

\* How far the polisher of the current plan is; a bare runner polishes nothing.
Mine == IF Mode = "managed" THEN pc[Polishers[plans]] ELSE "end"

\* Polishers run one after another, and leave the fragments of their plan.
PolishInv ==
    /\ Mode = "bare" => \A p \in PolisherNames : pc[p] = "off"
    /\ Mode = "managed" =>
          /\ \A i \in 1 .. Len(Polishers) :
                i < plans => pc[Polishers[i]] \in {"announceReview", "end"}
          /\ \A p \in PolisherNames :
                pc[p] # "off" => \E i \in 1 .. Len(Polishers) : Polishers[i] = p
          /\ Mine \notin {"off", "polish", "store"} => fragments = plans

\* In each phase, where the goroutine that drives the runner stands (m), how far
\* the polisher is (c), and where the engine stands (g).
InPhase(m, c, g) ==
    /\ phase = "created" =>
          \/ m \in {"call", "startPolish", "giveUp", "abort"} /\ c = "off"
          \/ Mode = "bare" /\ m \in {"start", "end"}
    /\ phase = "polishing" =>
          \/ m \in {"clear", "announcePolish"} /\ c = "off"
          \/ m \in Waits /\ c \in Works
    /\ phase = "awaiting_review" =>
          /\ m \in Waits \cup {"review", "accept", "reject", "giveUp", "abort"}
          /\ c \in {"announceReview", "end"}
    /\ phase = "awaiting_replan" =>
          /\ m \in {"announceReject", "replan", "replanWith", "giveUp", "abort"}
          /\ c \in {"announceReview", "end"}
    /\ phase = "executing" =>
          /\ c \in {"announceReview", "end"}
          /\ \/ m = "launch" /\ g = "off" /\ status = "pending"
             \/ m \in Executes /\ g \in Runs
             \/ Mode = "bare" /\ m = "end" /\ g \in Runs
    /\ phase = "report" =>
          /\ c \in {"announceReview", "end"}
          /\ m \in Executes \/ (Mode = "bare" /\ m = "end")
          /\ g \in {"announceReport", "reporting", "setSettled"}
    /\ phase = "settled" =>
          /\ c \in {"off", "announceReview", "capture", "announceAbort", "end"}
          /\ g = "off" \/ g \in Over
          /\ m \in {"review", "accept", "reject"} \cup Waits \cup Executes => c # "off"
          /\ m \in {"review", "accept", "reject", "giveUp", "end"} \cup Waits \cup Aborts \cup Executes
    /\ phase \in {"created", "polishing", "awaiting_review", "awaiting_replan"} =>
          g = "off" /\ status = "pending"

PhaseInv == InPhase(pc["managed"], Mine, pc["engine"])

\* The engine of such a runner: it boots a pending one, and reports after a clean
\* end only.
EngineInv ==
    /\ pc["engine"] = "boot" => status = "pending"
    /\ \/ pc["engine"] = "captureEngine" /\ err["engine"] = "none"
       \/ pc["engine"] = "report" \/ phase = "report"
       => status = "idle" /\ clean

\* What acceptAndComplete learns from the engine's events is still so when it
\* completes the runner.
ListenInv ==
    Mode = "managed" =>
        /\ runCtxDone => pc["managed"] \in {"waitCtx", "giveUp", "end"} \cup Aborts
        /\ engineQ # <<>> => pc["managed"] \in Attentive /\ pc["engine"] # "off"
        /\ engineQ # <<>> /\ engineQ[1] = "idle" => pc["engine"] = "idling"
        /\ pc["managed"] = "complete" => pc["engine"] = "idling"
        /\ engineQ \in Seq({"idle", "node_failed", "stopped"})

\* Nobody disturbs the runner from outside.
OutsideInv ==
    /\ ~ctxDone
    /\ pc["caller"] \in {"ready", "end"} \cup Completes
    /\ Mode = "managed" => pc["caller"] = "ready"
    /\ done => phase = "settled"

Calm == OutsideInv /\ PolishInv /\ PhaseInv /\ EngineInv /\ ListenInv

IInv == TypeInv /\ ErrInv /\ (Undisturbed => Calm)

-----------------------------------------------------------------------------
\* The processes

LEMMA ProcFacts ==
    /\ "managed" \in Proc /\ "engine" \in Proc /\ "observer" \in Proc /\ "caller" \in Proc
    /\ \A p \in PolisherNames : p \in Proc /\ p \notin {"managed", "engine", "observer", "caller"}
  BY PolisherAssumption DEF Proc, PolisherNames

LEMMA SetupFacts ==
    ASSUME TypeInv
    PROVE  /\ Mode \in {"managed", "bare"} /\ HasPlan \in BOOLEAN
           /\ MayCancel \in BOOLEAN /\ MayAbort \in BOOLEAN
           /\ Len(Polishers) \in Nat
           /\ \A i \in 1 .. Len(Polishers) : Polishers[i] \in PolisherNames
           /\ \A i, j \in 1 .. Len(Polishers) : Polishers[i] = Polishers[j] => i = j
           /\ Mode = "managed" => plans \in 1 .. Len(Polishers) /\ Polishers[plans] \in PolisherNames
  <1>1. /\ setup \in Setups /\ plans \in Nat \ {0} /\ (Mode = "managed" => plans <= Len(Polishers))
    BY DEF TypeInv, DataInv, PlanInv
  <1>2. setup.polishers \in Seq(STRING) /\ Len(Polishers) \in Nat
    BY <1>1, PolisherAssumption DEF Polishers
  <1>3. \A i \in 1 .. Len(Polishers) : Polishers[i] \in PolisherNames
    BY <1>1 DEF Polishers, PolisherNames
  <1>. QED
    BY <1>1, <1>2, <1>3, SetupAssumption, PolisherAssumption DEF Mode, HasPlan, MayCancel, MayAbort, Polishers

-----------------------------------------------------------------------------
\* Types

\* The error a goroutine goes on with is one.
LEMMA FailKeepsData ==
    ASSUME pc = [q \in Proc |-> pc[q]], err \in [Proc -> Errors],
           NEW p \in Proc, NEW l, NEW e \in Errors, Fail(p, l, e)
    PROVE  pc' = [q \in Proc |-> pc'[q]] /\ err' \in [Proc -> Errors]
  BY DEF Fail, Goto, Moved, Errors

LEMMA DataOfSteps ==
    ASSUME DataInv, ErrInv, [Next]_vars
    PROVE  DataInv'
  <1>. USE ProcFacts DEF DataInv, At, Goto, Moved, Return, Capture,
          env, data, state, outcome, control, queues
  <1>1. ASSUME NEW p \in Proc, Abort(p) PROVE DataInv'
    <2>1. CASE AbortSet(p)
      BY <2>1 DEF AbortSet, Phases, Statuses
    <2>2. CASE AbortCapture(p)
      BY <2>2, FailKeepsData DEF AbortCapture, Errors
    <2>3. CASE AbortAnnounce(p)
      BY <2>3 DEF AbortAnnounce, Announce
    <2>. QED
      BY <1>1, <2>1, <2>2, <2>3 DEF Abort
  <1>2. ASSUME NEW p \in Proc, Complete(p) PROVE DataInv'
    <2>1. CASE CompleteRead(p) \/ WaitCtx(p)
      BY <2>1, FailKeepsData DEF CompleteRead, WaitCtx, Errors
    <2>2. CASE CompleteCancel(p)
      BY <2>2, Zenon DEF CompleteCancel
    <2>. QED
      BY <1>2, <2>1, <2>2 DEF Complete
  <1>3. CASE StartManaged \/ GiveUp \/ StartPolish
    BY <1>3, FailKeepsData DEF StartManaged, GiveUp, StartPolish, Errors, Phases
  <1>4. CASE AnnouncePolish
    BY <1>4 DEF AnnouncePolish, Announce
  <1>5. CASE WaitForPhase
    BY <1>5, FailKeepsData DEF WaitForPhase, WaitFirst, WaitSubscribe, WaitRecheck, WaitNext, WaitEval,
         WaitEvalEvent, WaitDone, WaitJudge, Errors
  <1>6. CASE Review \/ Reject \/ AnnounceReject \/ Replan \/ ReplanWith \/ ClearFragments
    BY <1>6, FailKeepsData DEF Review, Reject, AnnounceReject, Announce, Replan, ReplanWith, ClearFragments,
         Errors, Phases
  <1>7. CASE AcceptPolishedPlan \/ Start \/ LaunchEngine \/ QueueInitial \/ Listen
    <2>1. CASE AcceptPolishedPlan \/ Start
      BY <2>1, FailKeepsData DEF AcceptPolishedPlan, Start, PrepareEngineLaunch, Errors, Phases
    <2>2. CASE LaunchEngine
      BY <2>2, Zenon DEF LaunchEngine
    <2>3. CASE QueueInitial
      BY <2>3, FailKeepsData, Zenon DEF QueueInitial, Errors
    <2>4. CASE Listen
      BY <2>4, FailKeepsData DEF Listen, Errors
    <2>. QED
      BY <1>7, <2>1, <2>2, <2>3, <2>4
  <1>8. ASSUME NEW p \in PolisherNames, PolishStage(p) PROVE DataInv'
    BY <1>8, <1>1, FailKeepsData DEF PolishStage, Polish, StoreFragments, SetReview, AnnounceReview, Announce,
         Errors, Phases
  <1>9. CASE Engine
    <2>1. CASE \/ EngineBoot \/ AnnounceRun \/ EnginePrelude \/ EngineIdle \/ EmitIdle \/ EngineRunsNode
      BY <2>1, FailKeepsData DEF EngineBoot, AnnounceRun, Announce, EnginePrelude, EngineIdle, EmitIdle,
           EngineRunsNode, Errors, Statuses
    <2>2. CASE EngineFails \/ EngineCanceled \/ EmitStopped \/ SettleClean
      BY <2>2, FailKeepsData DEF EngineFails, EngineCanceled, EmitStopped, SettleClean, EndsClean, Errors, Statuses
    <2>3. CASE EngineFinish
      BY <2>3 DEF EngineFinish, ErrInv, Errors, Statuses
    <2>4. CASE SettleCapture \/ Report \/ AnnounceReport \/ Reporting \/ SetSettled \/ AnnounceSettled
      BY <2>4, FailKeepsData DEF SettleCapture, Report, AnnounceReport, Announce, Reporting, SetSettled,
           AnnounceSettled, Errors, Phases
    <2>. QED
      BY <1>9, <2>1, <2>2, <2>3, <2>4 DEF Engine
  <1>10. CASE Observer \/ CallerCalls \/ CancelCtx
    <2>1. CASE Observer
      BY <1>10, <2>1 DEF Observer, ObserverFirst, ObserverNext, ObserverCheck, Close
    <2>2. CASE CallerCalls
      BY <2>2, FailKeepsData DEF CallerCalls, Errors
    <2>3. CASE CancelCtx
      BY <2>3, Zenon DEF CancelCtx
    <2>. QED
      BY <1>10, <2>1, <2>2, <2>3
  <1>11. CASE UNCHANGED vars
    BY <1>11 DEF vars
  <1>. QED
    BY <1>1, <1>2, <1>3, <1>4, <1>5, <1>6, <1>7, <1>8, <1>9, <1>10, <1>11 DEF Next, Managed, Caller

-----------------------------------------------------------------------------
\* There is a polisher for every plan

LEMMA OthersKeepPlans ==
    ASSUME PlanInv, UNCHANGED <<setup, plans>>, pc'["managed"] = pc["managed"]
    PROVE  PlanInv'
  BY DEF PlanInv, Mode, Polishers

\* The managed goroutine goes where no further polisher is needed.
LEMMA MovesKeepPlans ==
    ASSUME TypeInv, UNCHANGED <<setup, plans>>, Mode = "managed",
           pc'["managed"] \notin {"reject", "announceReject", "replan", "replanWith"}
    PROVE  PlanInv'
  BY DEF TypeInv, PlanInv, Mode, Polishers

LEMMA PlansOfSteps ==
    ASSUME TypeInv, [Next]_vars
    PROVE  PlanInv'
  <1>. USE ProcFacts, OthersKeepPlans DEF TypeInv, At, Goto, Moved, Fail, Return, env, data
  <1>0. pc = [p \in Proc |-> pc[p]] /\ Mode \in {"managed", "bare"}
    BY SetupFacts DEF DataInv
  <1>1. ASSUME NEW p \in Proc \ {"managed"}, Abort(p) \/ Complete(p) PROVE PlanInv'
    BY <1>0, <1>1 DEF Abort, AbortSet, AbortCapture, AbortAnnounce, Announce, Complete, CompleteRead,
         CompleteCancel,
         WaitCtx
  <1>2. ASSUME NEW p \in PolisherNames, PolishStage(p) PROVE PlanInv'
    BY <1>0, <1>1, <1>2 DEF PolishStage, Polish, StoreFragments, SetReview, AnnounceReview, Announce
  <1>3. CASE Engine
    <2>1. CASE \/ EngineBoot \/ AnnounceRun \/ EnginePrelude \/ EngineIdle \/ EmitIdle \/ EngineRunsNode
               \/ EngineFails \/ EngineCanceled
      BY <1>0, <2>1 DEF EngineBoot, AnnounceRun, Announce, EnginePrelude, EngineIdle, EmitIdle,
           EngineRunsNode, EngineFails, EngineCanceled
    <2>2. CASE \/ EngineFinish \/ EmitStopped \/ SettleClean \/ SettleCapture \/ Report \/ AnnounceReport
               \/ Reporting \/ SetSettled \/ AnnounceSettled
      BY <1>0, <2>2 DEF EngineFinish, EmitStopped, SettleClean, SettleCapture, Report, AnnounceReport, Announce,
           Reporting, SetSettled, AnnounceSettled
    <2>. QED
      BY <1>3, <2>1, <2>2 DEF Engine
  <1>4. CASE Observer \/ CallerCalls \/ CancelCtx \/ UNCHANGED vars
    BY <1>0, <1>4 DEF Observer, ObserverFirst, ObserverNext, ObserverCheck, Close, CallerCalls, CancelCtx, vars
  <1>5. CASE Managed
    <2>1. CASE StartManaged \/ GiveUp \/ StartPolish \/ AnnouncePolish
      BY <1>0, <2>1, MovesKeepPlans, SetupFacts DEF StartManaged, GiveUp, StartPolish, AnnouncePolish,
           Announce, PlanInv
    <2>2. CASE WaitForPhase
      BY <1>0, <2>2, MovesKeepPlans DEF WaitForPhase, WaitFirst, WaitSubscribe, WaitRecheck, WaitNext, WaitEval,
         WaitEvalEvent, WaitDone, WaitJudge, PlanInv
    <2>3. CASE Review \/ Reject \/ AnnounceReject \/ Replan
      BY <1>0, <2>3, SetupFacts DEF Review, Reject, AnnounceReject, Announce, Replan, PlanInv, Mode, Polishers
    <2>4. CASE ReplanWith
      BY <1>0, <2>4, SetupFacts DEF ReplanWith, PlanInv, Mode, Polishers
    <2>5. CASE ClearFragments \/ AcceptPolishedPlan \/ Start \/ LaunchEngine \/ QueueInitial \/ Listen
      BY <1>0, <2>5 DEF ClearFragments, AcceptPolishedPlan, Start, PrepareEngineLaunch, LaunchEngine,
           QueueInitial,
         Listen, PlanInv, Mode, Polishers
    <2>6. CASE Complete("managed") \/ Abort("managed")
      BY <1>0, <2>6, MovesKeepPlans DEF Abort, AbortSet, AbortCapture, AbortAnnounce, Announce, Complete,
           CompleteRead,
         CompleteCancel, WaitCtx, PlanInv
    <2>. QED
      BY <1>5, <2>1, <2>2, <2>3, <2>4, <2>5, <2>6 DEF Managed
  <1>. QED
    BY <1>1, <1>2, <1>3, <1>4, <1>5 DEF Next, Caller

\* Nobody but the managed goroutine starts a polisher.
LEMMA OthersKeepFresh ==
    ASSUME TypeInv, UNCHANGED <<setup, plans>>, pc'["managed"] = pc["managed"],
           \A q \in PolisherNames : pc[q] = "off" => pc'[q] = "off"
    PROVE  FreshInv'
  BY SetupFacts DEF TypeInv, FreshInv, Mode, Polishers

LEMMA MovesKeepFresh ==
    ASSUME TypeInv, UNCHANGED <<setup, plans>>,
           pc'["managed"] \in {"call", "startPolish", "clear", "announcePolish"} =>
              pc["managed"] \in {"call", "startPolish", "clear", "announcePolish"},
           \A q \in PolisherNames : pc'[q] = pc[q]
    PROVE  FreshInv'
  BY SetupFacts DEF TypeInv, FreshInv, Mode, Polishers

LEMMA FreshOfSteps ==
    ASSUME TypeInv, [Next]_vars
    PROVE  FreshInv'
  <1>. USE ProcFacts DEF At, Goto, Moved, Fail, Return, env, data
  <1>0. pc = [p \in Proc |-> pc[p]] /\ Mode \in {"managed", "bare"}
    BY SetupFacts DEF TypeInv, DataInv
  <1>1. ASSUME NEW p \in Proc \ {"managed"}, Abort(p) \/ Complete(p) PROVE FreshInv'
    BY <1>0, <1>1, OthersKeepFresh DEF Abort, AbortSet, AbortCapture, AbortAnnounce, Announce, Complete,
         CompleteRead,
         CompleteCancel, WaitCtx
  <1>2. ASSUME NEW p \in PolisherNames, PolishStage(p) PROVE FreshInv'
    BY <1>0, <1>1, <1>2, OthersKeepFresh DEF PolishStage, Polish, StoreFragments, SetReview, AnnounceReview,
         Announce
  <1>3. CASE Engine
    <2>1. CASE \/ EngineBoot \/ AnnounceRun \/ EnginePrelude \/ EngineIdle \/ EmitIdle \/ EngineRunsNode
               \/ EngineFails \/ EngineCanceled
      BY <1>0, <2>1, OthersKeepFresh DEF EngineBoot, AnnounceRun, Announce, EnginePrelude, EngineIdle, EmitIdle,
           EngineRunsNode, EngineFails, EngineCanceled
    <2>2. CASE \/ EngineFinish \/ EmitStopped \/ SettleClean \/ SettleCapture \/ Report \/ AnnounceReport
               \/ Reporting \/ SetSettled \/ AnnounceSettled
      BY <1>0, <2>2, OthersKeepFresh DEF EngineFinish, EmitStopped, SettleClean, SettleCapture, Report,
           AnnounceReport,
           Announce, Reporting, SetSettled, AnnounceSettled
    <2>. QED
      BY <1>3, <2>1, <2>2 DEF Engine
  <1>4. CASE Observer \/ CallerCalls \/ CancelCtx \/ UNCHANGED vars
    BY <1>0, <1>4, OthersKeepFresh DEF Observer, ObserverFirst, ObserverNext, ObserverCheck, Close, CallerCalls,
         CancelCtx, vars
  <1>5. CASE Managed
    <2>1. CASE StartManaged \/ GiveUp \/ StartPolish
      BY <1>0, <2>1, MovesKeepFresh DEF StartManaged, GiveUp, StartPolish
    <2>2. CASE AnnouncePolish
      BY <1>0, <2>2, OthersKeepFresh, SetupFacts DEF AnnouncePolish, Announce, TypeInv, FreshInv, PlanInv,
           Mode, Polishers
    <2>3. CASE WaitForPhase
      BY <1>0, <2>3, MovesKeepFresh DEF WaitForPhase, WaitFirst, WaitSubscribe, WaitRecheck, WaitNext, WaitEval,
         WaitEvalEvent, WaitDone, WaitJudge
    <2>4. CASE Review \/ Reject \/ AnnounceReject \/ Replan
      BY <1>0, <2>4, MovesKeepFresh DEF Review, Reject, AnnounceReject, Announce, Replan
    <2>5. CASE ReplanWith
      <3>1. CASE UNCHANGED plans
        BY <1>0, <2>5, <3>1, MovesKeepFresh DEF ReplanWith, TypeInv, DataInv
      <3>2. CASE plans' = plans + 1
        BY <1>0, <2>5, <3>2, SetupFacts DEF ReplanWith, TypeInv, DataInv, FreshInv, Mode, Polishers
      <3>. QED
        BY <2>5, <3>1, <3>2 DEF ReplanWith
    <2>6. CASE ClearFragments \/ AcceptPolishedPlan \/ Start \/ LaunchEngine \/ QueueInitial \/ Listen
      BY <1>0, <2>6, MovesKeepFresh DEF ClearFragments, AcceptPolishedPlan, Start, PrepareEngineLaunch,
           LaunchEngine,
         QueueInitial, Listen
    <2>7. CASE Complete("managed") \/ Abort("managed")
      BY <1>0, <2>7, MovesKeepFresh DEF Abort, AbortSet, AbortCapture, AbortAnnounce, Announce, Complete,
           CompleteRead,
         CompleteCancel, WaitCtx
    <2>. QED
      BY <1>5, <2>1, <2>2, <2>3, <2>4, <2>5, <2>6, <2>7 DEF Managed
  <1>. QED
    BY <1>1, <1>2, <1>3, <1>4, <1>5 DEF Next, Caller

LEMMA TypesOfSteps ==
    ASSUME TypeInv, ErrInv, [Next]_vars
    PROVE  TypeInv'
  BY DataOfSteps, PlansOfSteps, FreshOfSteps DEF TypeInv

-----------------------------------------------------------------------------
\* Errors

\* A goroutine that moves otherwise than into or out of "capture" leaves the
\* handing over of errors as it is.
LEMMA HandingOverStays ==
    ASSUME pc = [q \in Proc |-> pc[q]], NEW p \in Proc, NEW l,
           pc' = [pc EXCEPT ![p] = l], pc[p] # "capture", l # "capture"
    PROVE  HandingOver' = HandingOver
  BY DEF HandingOver

LEMMA ErrorsOfAbort ==
    ASSUME DataInv, ErrInv, NEW p \in Proc \ {"engine"}, Abort(p)
    PROVE  ErrInv'
  <1>. USE ProcFacts DEF At, Goto, Moved, Fail, env, data, state, outcome, control, queues
  <1>0. pc = [q \in Proc |-> pc[q]] /\ err \in [Proc -> Errors] /\ engineErr \in Errors
    BY DEF DataInv
  <1>1. CASE AbortSet(p)
    <2>1. HandingOver'
      BY <1>0, <1>1 DEF AbortSet, HandingOver
    <2>2. status' # "pending"
      BY <1>1 DEF AbortSet
    <2>. QED
      BY <1>0, <1>1, <2>1, <2>2 DEF AbortSet, ErrInv, Aborts
  <1>2. CASE AbortCapture(p)
    <2>1. engineErr' # "none" /\ HandingOver
      BY <1>0, <1>2 DEF AbortCapture, Capture, ErrInv, HandingOver
    <2>. QED
      BY <1>0, <1>2, <2>1 DEF AbortCapture, ErrInv, Aborts
  <1>3. CASE AbortAnnounce(p)
    <2>1. HandingOver' = HandingOver
      BY <1>0, <1>3, HandingOverStays DEF AbortAnnounce, Announce
    <2>. QED
      BY <1>0, <1>3, <2>1 DEF AbortAnnounce, Announce, ErrInv, Aborts
  <1>. QED
    BY <1>1, <1>2, <1>3 DEF Abort

LEMMA ErrorsOfComplete ==
    ASSUME DataInv, ErrInv, NEW p \in Proc \ {"engine"}, Complete(p)
    PROVE  ErrInv'
  <1>. USE ProcFacts DEF At, Goto, Moved, Fail, Return, env, data, state, outcome, control, queues
  <1>0. pc = [q \in Proc |-> pc[q]] /\ err \in [Proc -> Errors] /\ engineErr \in Errors
    BY DEF DataInv
  <1>1. HandingOver' = HandingOver
    BY <1>0, HandingOverStays DEF Complete, CompleteRead, CompleteCancel, WaitCtx
  <1>. QED
    BY <1>0, <1>1 DEF Complete, CompleteRead, CompleteCancel, WaitCtx, ErrInv, Executes, Completes

\* Up to the launch the engine is off, and nothing of the runner's outcome changes.
LEMMA ErrorsOfManaged ==
    ASSUME TypeInv, ErrInv, Managed
    PROVE  ErrInv'
  <1>. USE ProcFacts DEF At, Goto, Moved, Fail, Return, env, data, state, outcome, control, queues
  <1>0. /\ pc = [q \in Proc |-> pc[q]] /\ err \in [Proc -> Errors] /\ engineErr \in Errors
        /\ Mode \in {"managed", "bare"}
    BY SetupFacts DEF TypeInv, DataInv
  <1>1. CASE StartManaged \/ GiveUp \/ StartPolish
    <2>1. HandingOver' = HandingOver
      BY <1>0, <1>1, HandingOverStays DEF StartManaged, GiveUp, StartPolish
    <2>. QED
      BY <1>0, <1>1, <2>1 DEF StartManaged, GiveUp, StartPolish, ErrInv, Aborts, Executes, Completes
  <1>2. CASE AnnouncePolish
    <2>1. Polishers[plans] \in PolisherNames \/ UNCHANGED pc
      BY <1>2, SetupFacts DEF TypeInv, PlanInv, AnnouncePolish, Announce
    <2>2. CASE UNCHANGED pc
      BY <1>2, <2>2 DEF AnnouncePolish, Announce, ErrInv, HandingOver
    <2>3. CASE pc' = [pc EXCEPT !["managed"] = "wait", ![Polishers[plans]] = "polish"]
              /\ Polishers[plans] \in PolisherNames
      <3>1. HandingOver' => HandingOver
        BY <1>0, <1>2, <2>3 DEF AnnouncePolish, Announce, HandingOver
      <3>2. pc["engine"] = "off"
        BY <1>2 DEF AnnouncePolish, Announce, ErrInv, Aborts, Executes, Completes
      <3>3. pc["managed"] = "announcePolish" /\ Mode = "managed"
        BY <1>0, <1>2 DEF AnnouncePolish, Announce, TypeInv, PlanInv
      <3>4. pc[Polishers[plans]] = "off"
        BY <3>3, SetupFacts DEF TypeInv, FreshInv
      <3>5. HandingOver => HandingOver'
        BY <1>0, <2>3, <3>3, <3>4 DEF HandingOver
      <3>. QED
        BY <1>0, <1>2, <2>3, <3>1, <3>2, <3>5 DEF AnnouncePolish, Announce, ErrInv, CleanEnd, Over
    <2>. QED
      BY <1>2, <2>1, <2>2, <2>3 DEF AnnouncePolish, Announce
  <1>3. CASE WaitForPhase
    <2>1. HandingOver' = HandingOver
      BY <1>0, <1>3, HandingOverStays DEF WaitForPhase, WaitFirst, WaitSubscribe, WaitRecheck, WaitNext,
           WaitEval,
         WaitEvalEvent, WaitDone, WaitJudge
    <2>. QED
      BY <1>0, <1>3, <2>1 DEF WaitForPhase, WaitFirst, WaitSubscribe, WaitRecheck, WaitNext, WaitEval,
         WaitEvalEvent, WaitDone, WaitJudge, ErrInv, Aborts, Executes, Completes
  <1>4. CASE Review \/ Reject \/ AnnounceReject \/ Replan \/ ReplanWith \/ ClearFragments
    <2>1. HandingOver' = HandingOver
      <3>1. CASE Review \/ Reject \/ AnnounceReject
        BY <1>0, <3>1, HandingOverStays DEF Review, Reject, AnnounceReject, Announce
      <3>2. CASE Replan \/ ReplanWith \/ ClearFragments
        BY <1>0, <3>2, HandingOverStays DEF Replan, ReplanWith, ClearFragments
      <3>. QED
        BY <1>4, <3>1, <3>2
    <2>. QED
      <3>1. CASE Review \/ Reject \/ AnnounceReject
        BY <1>0, <3>1, <2>1 DEF Review, Reject, AnnounceReject, Announce, ErrInv, Aborts, Executes, Completes
      <3>2. CASE Replan \/ ReplanWith \/ ClearFragments
        BY <1>0, <3>2, <2>1 DEF Replan, ReplanWith, ClearFragments, ErrInv, Aborts, Executes, Completes
      <3>. QED
        BY <1>4, <3>1, <3>2
  <1>5. CASE AcceptPolishedPlan \/ Start \/ QueueInitial \/ Listen
    <2>1. HandingOver' = HandingOver
      BY <1>0, <1>5, HandingOverStays DEF AcceptPolishedPlan, Start, PrepareEngineLaunch, QueueInitial, Listen
    <2>. QED
      BY <1>0, <1>5, <2>1 DEF AcceptPolishedPlan, Start, PrepareEngineLaunch, QueueInitial, Listen,
         ErrInv, Aborts, Executes, Completes
  <1>6. CASE LaunchEngine
    <2>1. HandingOver' = HandingOver /\ pc["engine"] = "off"
      BY <1>0, <1>6, ZenonT(30) DEF LaunchEngine, HandingOver, ErrInv, Aborts, Executes, Completes
    <2>. QED
      BY <1>0, <1>6, <2>1 DEF LaunchEngine, ErrInv, CleanEnd, Over, Executes, Completes
  <1>. QED
    BY <1>1, <1>2, <1>3, <1>4, <1>5, <1>6, ErrorsOfComplete, ErrorsOfAbort DEF Managed, TypeInv

LEMMA ErrorsOfPolisher ==
    ASSUME DataInv, ErrInv, NEW p \in PolisherNames, PolishStage(p)
    PROVE  ErrInv'
  <1>. USE ProcFacts DEF At, Goto, Moved, Fail, env, data, state, outcome, control, queues
  <1>0. pc = [q \in Proc |-> pc[q]] /\ err \in [Proc -> Errors] /\ engineErr \in Errors
    BY DEF DataInv
  <1>1. CASE Polish(p) \/ StoreFragments(p) \/ SetReview(p) \/ AnnounceReview(p)
    <2>1. HandingOver' = HandingOver
      BY <1>0, <1>1, HandingOverStays DEF Polish, StoreFragments, SetReview, AnnounceReview, Announce
    <2>. QED
      BY <1>0, <1>1, <2>1 DEF Polish, StoreFragments, SetReview, AnnounceReview, Announce, ErrInv
  <1>. QED
    BY <1>1, ErrorsOfAbort DEF PolishStage

\* The engine captures its error before it settles, unless the run was clean.
LEMMA ErrorsOfEngine ==
    ASSUME DataInv, ErrInv, Engine
    PROVE  ErrInv'
  <1>. USE ProcFacts DEF At, Goto, Moved, Fail, env, data, state, outcome, control, queues
  <1>0. pc = [q \in Proc |-> pc[q]] /\ err \in [Proc -> Errors] /\ engineErr \in Errors
    BY DEF DataInv
  <1>1. CASE \/ EngineBoot \/ AnnounceRun \/ EnginePrelude \/ EngineIdle \/ EmitIdle \/ EngineRunsNode
             \/ EngineFails \/ EngineCanceled
    <2>1. HandingOver' = HandingOver
      <3>1. CASE EngineBoot \/ AnnounceRun \/ EnginePrelude \/ EngineIdle
        BY <1>0, <3>1, HandingOverStays DEF EngineBoot, AnnounceRun, Announce, EnginePrelude, EngineIdle
      <3>2. CASE EmitIdle \/ EngineRunsNode \/ EngineFails \/ EngineCanceled
        BY <1>0, <3>2, HandingOverStays DEF EmitIdle, EngineRunsNode, EngineFails, EngineCanceled
      <3>. QED
        BY <1>1, <3>1, <3>2
    <2>. QED
      <3>1. CASE EngineBoot \/ AnnounceRun \/ EnginePrelude \/ EngineIdle
        BY <1>0, <3>1, <2>1 DEF EngineBoot, AnnounceRun, Announce, EnginePrelude, EngineIdle, ErrInv, CleanEnd,
             Over
      <3>2. CASE EmitIdle \/ EngineRunsNode \/ EngineFails \/ EngineCanceled
        BY <1>0, <3>2, <2>1 DEF EmitIdle, EngineRunsNode, EngineFails, EngineCanceled, ErrInv, CleanEnd, Over
      <3>. QED
        BY <1>1, <3>1, <3>2
  <1>2. CASE EngineFinish \/ EmitStopped \/ SettleClean
    <2>1. HandingOver' = HandingOver
      BY <1>0, <1>2, HandingOverStays DEF EngineFinish, EmitStopped, SettleClean
    <2>. QED
      BY <1>0, <1>2, <2>1 DEF EngineFinish, EmitStopped, SettleClean, ErrInv, CleanEnd, Over, Errors
  <1>3. CASE \/ SettleCapture \/ Report \/ AnnounceReport \/ Reporting \/ SetSettled \/ AnnounceSettled
    <2>1. HandingOver' = HandingOver
      BY <1>0, <1>3, HandingOverStays DEF SettleCapture, Report, AnnounceReport, Announce, Reporting,
           SetSettled, AnnounceSettled
    <2>. QED
      <3>1. CASE SettleCapture \/ Report \/ AnnounceReport
        BY <1>0, <3>1, <2>1 DEF SettleCapture, Report, AnnounceReport, Announce, Capture, ErrInv, CleanEnd, Over
      <3>2. CASE Reporting \/ SetSettled \/ AnnounceSettled
        BY <1>0, <3>2, <2>1 DEF Reporting, SetSettled, AnnounceSettled, Announce, Capture, ErrInv, CleanEnd, Over
      <3>. QED
        BY <1>3, <3>1, <3>2
  <1>. QED
    BY <1>1, <1>2, <1>3 DEF Engine

LEMMA ErrorsOfOthers ==
    ASSUME DataInv, ErrInv, Observer \/ CallerCalls \/ CancelCtx \/ UNCHANGED vars
    PROVE  ErrInv'
  <1>. USE ProcFacts DEF At, Goto, Moved, Fail, env, data, state, outcome, control, queues
  <1>0. pc = [q \in Proc |-> pc[q]] /\ err \in [Proc -> Errors]
    BY DEF DataInv
  <1>1. CASE Observer
    <2>1. HandingOver' = HandingOver
      BY <1>0, <1>1, HandingOverStays DEF Observer, ObserverFirst, ObserverNext, ObserverCheck, Close
    <2>. QED
      BY <1>0, <1>1, <2>1 DEF Observer, ObserverFirst, ObserverNext, ObserverCheck, Close, ErrInv
  <1>2. CASE CallerCalls
    <2>1. HandingOver' = HandingOver
      BY <1>0, <1>2, HandingOverStays DEF CallerCalls
    <2>. QED
      BY <1>0, <1>2, <2>1 DEF CallerCalls, ErrInv
  <1>3. CASE CancelCtx \/ UNCHANGED vars
    BY <1>3 DEF CancelCtx, vars, ErrInv, HandingOver
  <1>. QED
    BY <1>1, <1>2, <1>3

LEMMA ErrorsOfSteps ==
    ASSUME TypeInv, ErrInv, [Next]_vars
    PROVE  ErrInv'
  BY ProcFacts, ErrorsOfManaged, ErrorsOfPolisher, ErrorsOfEngine, ErrorsOfOthers, ErrorsOfAbort,
       ErrorsOfComplete
     DEF Next, Caller, TypeInv

-----------------------------------------------------------------------------
\* What an undisturbed runner's goroutines find

\* A polisher that still has to write is the one of the current plan.
LEMMA PolisherIsMine ==
    ASSUME TypeInv, PolishInv, NEW p \in PolisherNames, pc[p] \notin {"off", "announceReview", "end"}
    PROVE  Mode = "managed" /\ p = Polishers[plans] /\ Mine = pc[p]
  <1>1. Mode = "managed"
    BY SetupFacts DEF PolishInv
  <1>2. PICK i \in 1 .. Len(Polishers) : Polishers[i] = p
    BY <1>1 DEF PolishInv
  <1>3. ~(i < plans) /\ ~(i > plans)
    BY <1>1, <1>2 DEF PolishInv, TypeInv, FreshInv
  <1>4. i = plans
    BY <1>1, <1>3, SetupFacts
  <1>. QED
    BY <1>1, <1>2, <1>4 DEF Mine

\* The phase while a polisher is at work, and while the engine is.
LEMMA PhaseOfPolisher ==
    ASSUME TypeInv, PolishInv, PhaseInv, NEW p \in PolisherNames, pc[p] \in Works
    PROVE  /\ Mode = "managed" /\ p = Polishers[plans] /\ Mine = pc[p]
           /\ phase = "polishing" /\ pc["managed"] \in Waits
           /\ pc["engine"] = "off" /\ status = "pending"
  <1>1. Mode = "managed" /\ p = Polishers[plans] /\ Mine = pc[p] /\ Mine \in Works
    BY PolisherIsMine DEF Works
  <1>2. phase \in Phases
    BY DEF TypeInv, DataInv
  <1>. QED
    BY <1>1, <1>2 DEF PhaseInv, InPhase, Works, Phases

LEMMA PhaseOfEngine ==
    ASSUME TypeInv, PhaseInv
    PROVE  /\ pc["engine"] \in Runs \ {"setSettled"} => phase = "executing"
           /\ pc["engine"] \in {"announceReport", "reporting"} => phase = "report"
           /\ pc["engine"] = "setSettled" => phase \in {"executing", "report"}
           /\ pc["engine"] \in Over => phase = "settled"
           /\ pc["engine"] \in {"off", "announceReport", "reporting"} \cup Runs \cup Over
  <1>1. phase \in Phases
    BY DEF TypeInv, DataInv
  <1>. QED
    BY <1>1 DEF PhaseInv, InPhase, Runs, Over, Phases

\* A settled runner is no longer pending.
LEMMA SettledIsNotPending ==
    ASSUME ErrInv, phase = "settled" \/ done
    PROVE  status # "pending"
  BY DEF ErrInv, Over

\* Where the steps of others leave the current polisher.
LEMMA MineStays ==
    ASSUME TypeInv, UNCHANGED <<setup, plans>>, \A q \in PolisherNames : pc'[q] = pc[q]
    PROVE  Mine' = Mine /\ (PolishInv /\ UNCHANGED fragments => PolishInv')
  <1>1. Mine' = Mine
    BY SetupFacts DEF Mine, Mode, Polishers
  <1>. QED
    BY <1>1, SetupFacts DEF PolishInv, Mode, Polishers

LEMMA CalmFacts ==
    ASSUME TypeInv, ErrInv, Undisturbed, Calm
    PROVE  /\ ~ctxDone /\ pc = [q \in Proc |-> pc[q]] /\ Mode \in {"managed", "bare"}
           /\ ~MayCancel /\ ~MayAbort
           /\ PolishInv /\ PhaseInv /\ EngineInv /\ ListenInv /\ OutsideInv
  BY SetupFacts DEF TypeInv, DataInv, Calm, OutsideInv, Undisturbed, MayCancel, MayAbort

-----------------------------------------------------------------------------
\* Phases

LEMMA PhasesOfManaged ==
    ASSUME TypeInv, ErrInv, Undisturbed, Calm, Managed
    PROVE  PhaseInv'
  <1>. USE ProcFacts, CalmFacts DEF At, Goto, Moved, Fail, Return, env, data, state, outcome, control, queues
  <1>1. CASE StartManaged \/ GiveUp \/ StartPolish
    <2>1. Mine' = Mine /\ Mode' = Mode /\ pc'["engine"] = pc["engine"]
      BY <1>1, MineStays DEF StartManaged, GiveUp, StartPolish, Mode
    <2>. QED
      <3>1. CASE StartManaged
        BY <3>1, <2>1 DEF StartManaged, PhaseInv, InPhase, OutsideInv, Waits, Subscribed, Aborts, Executes,
             Completes, TypeInv, DataInv, Phases
      <3>2. CASE GiveUp
        BY <3>2, <2>1 DEF GiveUp, PhaseInv, InPhase, OutsideInv, Waits, Subscribed, Aborts, Executes, Completes,
             TypeInv, DataInv, Phases
      <3>3. CASE StartPolish
        BY <3>3, <2>1 DEF StartPolish, PhaseInv, InPhase, OutsideInv, Waits, Subscribed, Aborts, Executes,
             Completes, TypeInv, DataInv, Phases
      <3>. QED
        BY <1>1, <3>1, <3>2, <3>3
  <1>2. CASE AnnouncePolish
    <2>1. Mode = "managed" /\ Mode' = Mode /\ Polishers[plans] \in PolisherNames
      BY <1>2, SetupFacts DEF AnnouncePolish, Announce, TypeInv, PlanInv, Mode
    <2>2. CASE UNCHANGED pc
      <3>1. Mine' = Mine
        BY <1>2, <2>2, MineStays DEF AnnouncePolish, Announce
      <3>. QED
        BY <1>2, <2>1, <2>2, <3>1 DEF AnnouncePolish, Announce, PhaseInv, InPhase
    <2>3. CASE pc' = [pc EXCEPT !["managed"] = "wait", ![Polishers[plans]] = "polish"]
      <3>1. Mine' = "polish" /\ pc'["engine"] = pc["engine"] /\ pc'["managed"] = "wait"
        BY <1>2, <2>1, <2>3 DEF AnnouncePolish, Announce, Mine, Mode, Polishers
      <3>2. phase = "polishing"
        BY <1>2 DEF AnnouncePolish, Announce, TypeInv, DataInv, Phases, PhaseInv, InPhase, Waits, Subscribed,
             Executes,
             Completes, Aborts
      <3>. QED
        BY <1>2, <2>1, <3>1, <3>2 DEF AnnouncePolish, Announce, PhaseInv, InPhase, Waits, Works
    <2>. QED
      BY <1>2, <2>2, <2>3 DEF AnnouncePolish, Announce
  <1>3. CASE WaitForPhase
    <2>1. Mine' = Mine /\ Mode' = Mode /\ pc'["engine"] = pc["engine"]
      <3>1. CASE WaitFirst \/ WaitSubscribe \/ WaitRecheck
        BY <3>1, MineStays DEF WaitFirst, WaitSubscribe, WaitRecheck, WaitJudge, Mode
      <3>2. CASE WaitNext \/ WaitEval
        BY <3>2, MineStays DEF WaitNext, WaitEval, WaitJudge, Mode
      <3>3. CASE WaitEvalEvent \/ WaitDone
        BY <3>3, MineStays DEF WaitEvalEvent, WaitDone, Mode
      <3>. QED
        BY <1>3, <3>1, <3>2, <3>3 DEF WaitForPhase
    <2>. QED
      <3>1. CASE WaitFirst \/ WaitSubscribe \/ WaitRecheck
        BY <3>1, <2>1 DEF WaitFirst, WaitSubscribe, WaitRecheck, WaitJudge, PhaseInv, InPhase, Waits,
             Subscribed, Aborts, Executes, Completes, OutsideInv
      <3>2. CASE WaitNext \/ WaitEval
        BY <3>2, <2>1 DEF WaitNext, WaitEval, WaitJudge, PhaseInv, InPhase, Waits, Subscribed,
             Aborts, Executes, Completes, OutsideInv
      <3>3. CASE WaitEvalEvent \/ WaitDone
        BY <3>3, <2>1 DEF WaitEvalEvent, WaitDone, PhaseInv, InPhase, Waits, Subscribed, Aborts,
             Executes, Completes, OutsideInv
      <3>. QED
        BY <1>3, <3>1, <3>2, <3>3 DEF WaitForPhase
  <1>4. CASE Review \/ Reject \/ AnnounceReject \/ Replan
    <2>1. Mine' = Mine /\ Mode' = Mode /\ pc'["engine"] = pc["engine"]
      BY <1>4, MineStays DEF Review, Reject, AnnounceReject, Replan, Announce, Mode
    <2>. QED
      <3>1. CASE Review
        BY <3>1, <2>1 DEF Review, Subscribed, PhaseInv, InPhase, Waits, Aborts, Executes, Completes
      <3>2. CASE Reject
        BY <3>2, <2>1 DEF Reject, Subscribed, PhaseInv, InPhase, Waits, Aborts, Executes, Completes
      <3>3. CASE AnnounceReject
        BY <3>3, <2>1 DEF AnnounceReject, Announce, PhaseInv, InPhase, Waits, Subscribed, Aborts, Executes,
             Completes
      <3>4. CASE Replan
        BY <3>4, <2>1 DEF Replan, Subscribed, PhaseInv, InPhase, Waits, Aborts, Executes, Completes
      <3>. QED
        BY <1>4, <3>1, <3>2, <3>3, <3>4
  <1>5. CASE ReplanWith
    <2>1. Mode = "managed" /\ Mode' = Mode /\ pc'["engine"] = pc["engine"] /\ plans + 1 \in 1 .. Len(Polishers)
      BY <1>5, SetupFacts DEF ReplanWith, TypeInv, PlanInv, Mode
    <2>2. Mine' \in {Mine, "off"} /\ (phase' = "polishing" => Mine' = "off")
      <3>1. CASE UNCHANGED <<phase, plans>>
        BY <1>5, <3>1, MineStays DEF ReplanWith, PhaseInv, InPhase, Waits, Subscribed
      <3>2. CASE plans' = plans + 1
        BY <1>5, <2>1, <3>2, SetupFacts DEF ReplanWith, Mine, Mode, Polishers, TypeInv, FreshInv
      <3>. QED
        BY <1>5, <3>1, <3>2 DEF ReplanWith
    <2>. QED
      BY <1>5, <2>1, <2>2, MineStays DEF ReplanWith, PhaseInv, InPhase, Waits, Subscribed, Executes, Completes,
           Aborts
  <1>6. CASE ClearFragments
    <2>1. Mine' = Mine /\ Mode' = Mode /\ pc'["engine"] = pc["engine"]
      BY <1>6, MineStays DEF ClearFragments, Mode
    <2>. QED
      BY <1>6, <2>1 DEF ClearFragments, PhaseInv, InPhase, Waits, Subscribed, Aborts, Executes, Completes
  <1>7. CASE AcceptPolishedPlan
    <2>1. Mine' = Mine /\ Mode' = Mode /\ pc'["engine"] = pc["engine"] /\ Mode = "managed"
      BY <1>7, MineStays DEF AcceptPolishedPlan, PrepareEngineLaunch, TypeInv, PlanInv, Mode
    <2>. QED
      BY <1>7, <2>1 DEF AcceptPolishedPlan, PrepareEngineLaunch, PhaseInv, InPhase, TypeInv, DataInv, Phases,
           Waits, Subscribed, Aborts, Executes, Completes
  <1>12. CASE Start
    <2>1. Mine' = Mine /\ Mode' = Mode /\ pc'["engine"] = pc["engine"]
      BY <1>12, MineStays DEF Start, PrepareEngineLaunch, Mode
    <2>2. Mode = "bare" => Mine = "end"
      BY DEF Mine
    <2>3. phase = "created" /\ Mode = "bare"
      BY <1>12 DEF Start, PrepareEngineLaunch, PhaseInv, InPhase, TypeInv, DataInv, Phases, Waits, Subscribed,
           Aborts,
           Executes, Completes
    <2>. QED
      BY <1>12, <2>1, <2>2, <2>3 DEF Start, PrepareEngineLaunch, PhaseInv, InPhase
  <1>8. CASE QueueInitial \/ Listen
    <2>1. Mine' = Mine /\ Mode' = Mode /\ pc'["engine"] = pc["engine"]
      BY <1>8, MineStays DEF QueueInitial, Listen, EngineCtxDone, Mode
    <2>. QED
      BY <1>8, <2>1 DEF QueueInitial, Listen, EngineCtxDone, PhaseInv, InPhase, Waits, Subscribed, Aborts,
           Executes, Completes, ListenInv, Attentive
  <1>9. CASE LaunchEngine
    <2>1. Mine' = Mine /\ Mode' = Mode
      BY <1>9, MineStays DEF LaunchEngine, Mode
    <2>. QED
      BY <1>9, <2>1 DEF LaunchEngine, PhaseInv, InPhase, Waits, Subscribed, Aborts, Executes, Completes, Runs
  <1>10. CASE Complete("managed")
    <2>1. Mine' = Mine /\ Mode' = Mode /\ pc'["engine"] = pc["engine"]
      BY <1>10, MineStays DEF Complete, CompleteRead, CompleteCancel, WaitCtx, Mode
    <2>. QED
      <3>1. CASE CompleteRead("managed")
        BY <3>1, <2>1 DEF CompleteRead, PhaseInv, InPhase, OutsideInv, ListenInv, Waits, Subscribed,
             Aborts, Executes, Completes
      <3>2. CASE CompleteCancel("managed")
        BY <3>2, <2>1 DEF CompleteCancel, PhaseInv, InPhase, OutsideInv, ListenInv, Waits, Subscribed,
             Aborts, Executes, Completes
      <3>3. CASE WaitCtx("managed")
        BY <3>3, <2>1 DEF WaitCtx, PhaseInv, InPhase, OutsideInv, ListenInv, Waits, Subscribed,
             Aborts, Executes, Completes
      <3>. QED
        BY <1>10, <3>1, <3>2, <3>3 DEF Complete
  <1>11. CASE Abort("managed")
    <2>1. Mine' = Mine /\ Mode' = Mode /\ pc'["engine"] = pc["engine"]
      BY <1>11, MineStays DEF Abort, AbortSet, AbortCapture, AbortAnnounce, Announce, Mode
    <2>. QED
      <3>1. CASE AbortSet("managed")
        BY <3>1, <2>1 DEF AbortSet, Subscribed, PhaseInv, InPhase, Waits, Aborts, Executes, Completes, Works,
             Over, TypeInv,
             DataInv, Phases
      <3>2. CASE AbortCapture("managed")
        BY <3>2, <2>1 DEF AbortCapture, Subscribed, PhaseInv, InPhase, Waits, Aborts, Executes, Completes,
             Works, Over,
             TypeInv, DataInv, Phases
      <3>3. CASE AbortAnnounce("managed")
        BY <3>3, <2>1 DEF AbortAnnounce, Announce, PhaseInv, InPhase, Waits, Subscribed, Aborts, Executes,
             Completes, Works, Over, TypeInv, DataInv, Phases
      <3>. QED
        BY <1>11, <3>1, <3>2, <3>3 DEF Abort
  <1>. QED
    BY <1>1, <1>2, <1>3, <1>4, <1>5, <1>6, <1>7, <1>8, <1>9, <1>10, <1>11, <1>12 DEF Managed

\* A polisher at work is the current one; an earlier one may still have to announce
\* its review phase.
LEMMA PhasesOfPolisher ==
    ASSUME TypeInv, ErrInv, Undisturbed, Calm, NEW p \in PolisherNames, PolishStage(p)
    PROVE  PhaseInv'
  <1>. USE ProcFacts, CalmFacts DEF At, Goto, Moved, Fail, env, data, state, outcome, control, queues
  <1>1. /\ Mode' = Mode /\ Polishers' = Polishers /\ plans' = plans
        /\ pc'["engine"] = pc["engine"] /\ pc'["managed"] = pc["managed"]
    BY DEF PolishStage, Polish, StoreFragments, SetReview, AnnounceReview, Announce, Abort, AbortSet,
         AbortCapture,
         AbortAnnounce, Mode, Polishers
  <1>2. CASE Polish(p) \/ StoreFragments(p) \/ SetReview(p) \/ AbortSet(p)
    <2>1. /\ Mode = "managed" /\ p = Polishers[plans]
          /\ phase = "polishing" /\ pc["managed"] \in Waits /\ pc["engine"] = "off" /\ status = "pending"
      BY <1>2, PhaseOfPolisher DEF Polish, StoreFragments, SetReview, AbortSet, Works
    <2>2. Mine' = pc'[p] /\ pc'[p] \in {"store", "setReview", "abort", "announceReview", "capture"}
      BY <1>1, <1>2, <2>1 DEF Mine, Polish, StoreFragments, SetReview, AbortSet
    <2>3. \/ phase' = "polishing" /\ status' = "pending" /\ pc'[p] \in {"store", "setReview", "abort"}
          \/ phase' = "awaiting_review" /\ status' = "pending" /\ pc'[p] = "announceReview"
          \/ phase' = "settled" /\ pc'[p] = "capture"
      BY <1>2, <2>1 DEF Polish, StoreFragments, SetReview, AbortSet
    <2>. QED
      BY <1>1, <2>1, <2>2, <2>3 DEF PhaseInv, InPhase, Works
  <1>3. CASE AnnounceReview(p) \/ AbortCapture(p) \/ AbortAnnounce(p)
    <2>1. UNCHANGED <<phase, status>>
      BY <1>3 DEF AnnounceReview, AbortCapture, AbortAnnounce, Announce
    <2>2. CASE Mine' = Mine
      BY <1>1, <2>1, <2>2 DEF PhaseInv, InPhase
    <2>3. CASE Mode = "managed" /\ p = Polishers[plans] /\ pc' # pc
      <3>1. Mine = pc[p] /\ Mine' = pc'[p]
        BY <1>1, <2>3 DEF Mine
      <3>2. \/ pc[p] = "announceReview" /\ pc'[p] = "end"
            \/ pc[p] = "capture" /\ pc'[p] = "announceAbort"
            \/ pc[p] = "announceAbort" /\ pc'[p] = "end"
        BY <1>3, <2>3 DEF AnnounceReview, AbortCapture, AbortAnnounce, Announce
      <3>. QED
        BY <1>1, <2>1, <3>1, <3>2 DEF PhaseInv, InPhase, Works, TypeInv, DataInv, Phases
    <2>4. CASE Mode = "bare" \/ p # Polishers[plans] \/ pc' = pc
      <3>1. Mode = "managed" => Polishers[plans] \in PolisherNames
        BY SetupFacts
      <3>. QED
        BY <1>1, <1>3, <2>2, <2>4, <3>1 DEF Mine, AnnounceReview, AbortCapture, AbortAnnounce, Announce
    <2>. QED
      BY <2>3, <2>4
  <1>. QED
    BY <1>2, <1>3 DEF PolishStage, Abort

LEMMA PhasesOfEngine ==
    ASSUME TypeInv, ErrInv, Undisturbed, Calm, Engine
    PROVE  PhaseInv'
  <1>. USE ProcFacts, CalmFacts DEF At, Goto, Moved, Fail, env, data, state, outcome, control, queues
  <1>1. CASE \/ EngineBoot \/ AnnounceRun \/ EnginePrelude \/ EngineIdle \/ EmitIdle \/ EngineRunsNode
             \/ EngineFails \/ EngineCanceled
    <2>1. Mine' = Mine /\ Mode' = Mode /\ pc'["managed"] = pc["managed"] /\ phase' = phase
      <3>1. CASE EngineBoot \/ AnnounceRun \/ EnginePrelude \/ EngineIdle
        BY <3>1, MineStays DEF EngineBoot, AnnounceRun, Announce, EnginePrelude, EngineIdle, Mode
      <3>2. CASE EmitIdle \/ EngineRunsNode \/ EngineFails \/ EngineCanceled
        BY <3>2, MineStays DEF EmitIdle, EngineRunsNode, EngineFails, EngineCanceled, Mode
      <3>. QED
        BY <1>1, <3>1, <3>2
    <2>2. pc["engine"] \in Runs \ {"setSettled"} /\ pc'["engine"] \in Runs
      BY <1>1 DEF EngineBoot, AnnounceRun, Announce, EnginePrelude, EngineIdle, EmitIdle, EngineRunsNode,
           EngineFails, EngineCanceled, Runs
    <2>. QED
      BY <2>1, <2>2, PhaseOfEngine DEF PhaseInv, InPhase, Runs
  <1>2. CASE EngineFinish \/ EmitStopped \/ SettleClean \/ SettleCapture
    <2>1. Mine' = Mine /\ Mode' = Mode /\ pc'["managed"] = pc["managed"] /\ phase' = phase
      BY <1>2, MineStays DEF EngineFinish, EmitStopped, SettleClean, SettleCapture, Mode
    <2>2. pc["engine"] \in Runs \ {"setSettled"} /\ pc'["engine"] \in Runs
      BY <1>2 DEF EngineFinish, EmitStopped, SettleClean, SettleCapture, Runs
    <2>. QED
      BY <2>1, <2>2, PhaseOfEngine DEF PhaseInv, InPhase, Runs
  <1>3. CASE Report \/ AnnounceReport \/ Reporting
    <2>1. Mine' = Mine /\ Mode' = Mode /\ pc'["managed"] = pc["managed"] /\ phase' = "report"
      BY <1>3, MineStays, PhaseOfEngine DEF Report, AnnounceReport, Announce, Reporting, Mode
    <2>2. /\ pc'["engine"] \in {"announceReport", "reporting", "setSettled"}
          /\ phase \in {"executing", "report"} /\ pc["engine"] # "off"
      BY <1>3, PhaseOfEngine DEF Report, AnnounceReport, Announce, Reporting, Runs
    <2>. QED
      BY <2>1, <2>2 DEF PhaseInv, InPhase
  <1>4. CASE SetSettled \/ AnnounceSettled
    <2>1. Mine' = Mine /\ Mode' = Mode /\ pc'["managed"] = pc["managed"] /\ phase' = "settled"
      BY <1>4, MineStays, PhaseOfEngine DEF SetSettled, AnnounceSettled, Announce, Mode, Over
    <2>2. /\ pc'["engine"] \in Over /\ phase \in {"executing", "report", "settled"} /\ pc["engine"] # "off"
      BY <1>4, PhaseOfEngine DEF SetSettled, AnnounceSettled, Announce, Over
    <2>. QED
      BY <2>1, <2>2 DEF PhaseInv, InPhase, Waits, Subscribed, Executes, Completes
  <1>. QED
    BY <1>1, <1>2, <1>3, <1>4 DEF Engine

LEMMA PhasesOfOthers ==
    ASSUME TypeInv, ErrInv, Undisturbed, Calm,
           Observer \/ CallerCalls \/ CancelCtx \/ Caller \/ UNCHANGED vars
    PROVE  PhaseInv'
  <1>. USE ProcFacts, CalmFacts DEF At, Goto, Moved, Fail, Return, env, data, state, outcome, control, queues
  <1>1. CASE Abort("caller")
    BY <1>1 DEF Abort, AbortSet, AbortCapture, AbortAnnounce, Announce, OutsideInv, Completes
  <1>2. CASE Observer \/ CallerCalls \/ CancelCtx \/ Complete("caller") \/ UNCHANGED vars
    <2>1. /\ Mine' = Mine /\ Mode' = Mode /\ pc'["managed"] = pc["managed"] /\ pc'["engine"] = pc["engine"]
          /\ phase' = phase /\ status' = status
      BY <1>2, MineStays, Zenon DEF Observer, ObserverFirst, ObserverNext, ObserverCheck, Close, CallerCalls,
           CancelCtx,
           Complete, CompleteRead, CompleteCancel, WaitCtx, vars, Mode
    <2>. QED
      BY <2>1 DEF PhaseInv, InPhase
  <1>. QED
    BY <1>1, <1>2 DEF Caller

-----------------------------------------------------------------------------
\* Polishers

LEMMA PolishersOfManaged ==
    ASSUME TypeInv, ErrInv, Undisturbed, Calm, Managed
    PROVE  PolishInv'
  <1>. USE ProcFacts, CalmFacts DEF At, Goto, Moved, Fail, Return, env, data
  <1>1. CASE StartManaged \/ GiveUp \/ StartPolish \/ WaitForPhase
    BY <1>1, MineStays DEF StartManaged, GiveUp, StartPolish, WaitForPhase, WaitFirst, WaitSubscribe,
         WaitRecheck,
         WaitNext, WaitEval, WaitEvalEvent, WaitDone, WaitJudge
  <1>2. CASE AnnouncePolish
    <2>1. /\ Mode = "managed" /\ Mode' = Mode /\ Polishers' = Polishers /\ plans' = plans
          /\ Polishers[plans] \in PolisherNames /\ plans \in 1 .. Len(Polishers)
      BY <1>2, SetupFacts DEF AnnouncePolish, Announce, TypeInv, PlanInv, Mode, Polishers
    <2>2. CASE UNCHANGED pc
      BY <1>2, <2>2, MineStays DEF AnnouncePolish, Announce
    <2>3. CASE pc' = [pc EXCEPT !["managed"] = "wait", ![Polishers[plans]] = "polish"]
      <3>1. Mine' = "polish"
        BY <2>1, <2>3 DEF Mine
      <3>2. \A i \in 1 .. Len(Polishers) : i < plans => pc'[Polishers[i]] = pc[Polishers[i]]
        BY <2>1, <2>3, SetupFacts
      <3>3. \A q \in PolisherNames : pc'[q] # "off" => pc[q] # "off" \/ q = Polishers[plans]
        BY <2>3
      <3>. QED
        BY <2>1, <3>1, <3>2, <3>3 DEF PolishInv
    <2>. QED
      BY <1>2, <2>2, <2>3 DEF AnnouncePolish, Announce
  <1>3. CASE Review \/ Reject \/ AnnounceReject \/ Replan
    BY <1>3, MineStays DEF Review, Reject, AnnounceReject, Announce, Replan
  <1>4. CASE ReplanWith
    <2>1. CASE UNCHANGED plans
      BY <1>4, <2>1, MineStays DEF ReplanWith
    <2>2. CASE plans' = plans + 1 /\ phase = "awaiting_replan"
      <3>1. /\ Mode = "managed" /\ Mode' = Mode /\ Polishers' = Polishers /\ plans + 1 \in 1 .. Len(Polishers)
            /\ plans \in 1 .. Len(Polishers)
        BY <1>4, SetupFacts DEF ReplanWith, TypeInv, PlanInv, Mode, Polishers
      <3>2. Mine \in {"announceReview", "end"} /\ pc[Polishers[plans]] = Mine
        BY <2>2, <3>1 DEF PhaseInv, InPhase, Mine
      <3>3. \A q \in PolisherNames : pc'[q] = pc[q]
        BY <1>4 DEF ReplanWith
      <3>4. Mine' = "off"
        BY <2>2, <3>1, <3>3, SetupFacts DEF Mine, TypeInv, FreshInv
      <3>. QED
        BY <2>2, <3>1, <3>2, <3>3, <3>4, SetupFacts DEF PolishInv
    <2>. QED
      BY <1>4, <2>1, <2>2 DEF ReplanWith
  <1>5. CASE ClearFragments
    <2>1. Mine' = Mine /\ Mode' = Mode /\ Polishers' = Polishers /\ plans' = plans /\ (\A q \in PolisherNames : pc'[q] = pc[q])
      BY <1>5, MineStays DEF ClearFragments, Mode, Polishers
    <2>2. Mode = "managed" => Mine = "off"
      BY <1>5, SetupFacts DEF ClearFragments, TypeInv, FreshInv, Mine
    <2>. QED
      BY <2>1, <2>2, SetupFacts DEF PolishInv
  <1>6. CASE AcceptPolishedPlan \/ Start \/ LaunchEngine \/ QueueInitial \/ Listen
    BY <1>6, MineStays DEF AcceptPolishedPlan, Start, PrepareEngineLaunch, LaunchEngine, QueueInitial, Listen
  <1>7. CASE Complete("managed") \/ Abort("managed")
    BY <1>7, MineStays DEF Abort, AbortSet, AbortCapture, AbortAnnounce, Announce, Complete, CompleteRead,
         CompleteCancel, WaitCtx
  <1>. QED
    BY <1>1, <1>2, <1>3, <1>4, <1>5, <1>6, <1>7 DEF Managed

LEMMA PolishersOfPolisher ==
    ASSUME TypeInv, ErrInv, Undisturbed, Calm, NEW p \in PolisherNames, PolishStage(p)
    PROVE  PolishInv'
  <1>. USE ProcFacts, CalmFacts DEF At, Goto, Moved, Fail, env, data
  <1>1. /\ Mode' = Mode /\ Polishers' = Polishers /\ plans' = plans
        /\ \A q \in PolisherNames \ {p} : pc'[q] = pc[q]
    BY DEF PolishStage, Polish, StoreFragments, SetReview, AnnounceReview, Announce, Abort, AbortSet,
         AbortCapture,
         AbortAnnounce, Mode, Polishers
  <1>2. pc[p] # "off"
    BY DEF PolishStage, Polish, StoreFragments, SetReview, AnnounceReview, Announce, Abort, AbortSet,
         AbortCapture,
         AbortAnnounce
  <1>3. /\ Mode = "managed" /\ plans \in 1 .. Len(Polishers) /\ Mine = pc[Polishers[plans]]
        /\ Mine' = pc'[Polishers[plans]]
    BY <1>1, <1>2, SetupFacts DEF PolishInv, Mine
  <1>4. CASE p = Polishers[plans]
    <2>1. \A i \in 1 .. Len(Polishers) : i < plans => pc'[Polishers[i]] = pc[Polishers[i]]
      BY <1>1, <1>3, <1>4, SetupFacts
    <2>2. Mine' \notin {"off", "polish", "store"} => fragments' = plans
      <3>1. CASE StoreFragments(p)
        BY <1>3, <1>4, <3>1, SetupFacts DEF StoreFragments
      <3>2. CASE ~StoreFragments(p)
        BY <1>3, <1>4, <3>2 DEF PolishInv, PolishStage, Polish, SetReview, AnnounceReview, Announce, Abort,
             AbortSet,
             AbortCapture, AbortAnnounce
      <3>. QED
        BY <3>1, <3>2
    <2>. QED
      BY <1>1, <1>2, <1>3, <1>4, <2>1, <2>2 DEF PolishInv
  <1>5. CASE p # Polishers[plans]
    <2>1. AnnounceReview(p)
      BY <1>2, <1>5, PolisherIsMine DEF PolishStage, Polish, StoreFragments, SetReview, Abort, AbortSet,
           AbortCapture, AbortAnnounce, Announce
    <2>2. pc'[p] \in {"announceReview", "end"} /\ fragments' = fragments
      BY <2>1 DEF AnnounceReview, Announce
    <2>3. Mine' = Mine
      BY <1>1, <1>3, <1>5, SetupFacts
    <2>. QED
      BY <1>1, <1>2, <1>3, <2>2, <2>3, SetupFacts DEF PolishInv
  <1>. QED
    BY <1>4, <1>5

LEMMA PolishersOfOthers ==
    ASSUME TypeInv, ErrInv, Undisturbed, Calm,
           Engine \/ Observer \/ CallerCalls \/ CancelCtx \/ Caller \/ UNCHANGED vars
    PROVE  PolishInv'
  <1>. USE ProcFacts, CalmFacts DEF At, Goto, Moved, Fail, Return, env, data
  <1>1. CASE \/ EngineBoot \/ AnnounceRun \/ EnginePrelude \/ EngineIdle \/ EmitIdle \/ EngineRunsNode
             \/ EngineFails \/ EngineCanceled
    <2>1. CASE EngineBoot \/ AnnounceRun \/ EnginePrelude \/ EngineIdle
      BY <2>1, MineStays DEF EngineBoot, AnnounceRun, Announce, EnginePrelude, EngineIdle
    <2>2. CASE EmitIdle \/ EngineRunsNode \/ EngineFails \/ EngineCanceled
      BY <2>2, MineStays DEF EmitIdle, EngineRunsNode, EngineFails, EngineCanceled
    <2>. QED
      BY <1>1, <2>1, <2>2
  <1>2. CASE \/ EngineFinish \/ EmitStopped \/ SettleClean \/ SettleCapture \/ Report \/ AnnounceReport
             \/ Reporting \/ SetSettled \/ AnnounceSettled
    <2>1. CASE EngineFinish \/ EmitStopped \/ SettleClean \/ SettleCapture
      BY <2>1, MineStays DEF EngineFinish, EmitStopped, SettleClean, SettleCapture
    <2>2. CASE Report \/ AnnounceReport \/ Reporting \/ SetSettled \/ AnnounceSettled
      BY <2>2, MineStays DEF Report, AnnounceReport, Announce, Reporting, SetSettled, AnnounceSettled
    <2>. QED
      BY <1>2, <2>1, <2>2
  <1>3. CASE Observer \/ CallerCalls \/ CancelCtx \/ UNCHANGED vars
    BY <1>3, MineStays DEF Observer, ObserverFirst, ObserverNext, ObserverCheck, Close, CallerCalls, CancelCtx,
         vars
  <1>4. CASE Caller
    BY <1>4, MineStays, Zenon DEF Caller, Abort, AbortSet, AbortCapture, AbortAnnounce, Announce, Complete,
         CompleteRead,
         CompleteCancel, WaitCtx
  <1>. QED
    BY <1>1, <1>2, <1>3, <1>4 DEF Engine

-----------------------------------------------------------------------------
\* The engine, and who listens to it

\* Abort finds the engine of an undisturbed runner off or over.
LEMMA AbortMeetsNoEngine ==
    ASSUME TypeInv, ErrInv, Undisturbed, Calm, NEW p \in PolisherNames \cup {"managed", "caller"}, At(p, "abort")
    PROVE  pc["engine"] \in {"off"} \cup Over
  <1>. USE CalmFacts, ProcFacts
  <1>1. CASE p \in PolisherNames
    BY <1>1, PhaseOfPolisher DEF At, Works
  <1>2. CASE p = "managed"
    BY <1>2 DEF At, PhaseInv, InPhase, Executes, Completes, TypeInv, DataInv, Phases, Waits, Subscribed
  <1>3. CASE p = "caller"
    BY <1>3 DEF At, OutsideInv, Completes
  <1>. QED
    BY <1>1, <1>2, <1>3

LEMMA EngineOfSteps ==
    ASSUME TypeInv, ErrInv, Undisturbed, Calm, [Next]_vars
    PROVE  EngineInv'
  <1>. USE ProcFacts, CalmFacts DEF At, Goto, Moved, Fail, Return, env, data, state, outcome, control, queues
  <1>0. err \in [Proc -> Errors]
    BY DEF TypeInv, DataInv
  <1>1. ASSUME NEW p \in PolisherNames \cup {"managed", "caller"}, Abort(p) PROVE EngineInv'
    <2>1. CASE AbortSet(p)
      <3>1. pc["engine"] \in {"off"} \cup Over
        BY <2>1, AbortMeetsNoEngine DEF AbortSet
      <3>. QED
        BY <2>1, <3>1 DEF AbortSet, EngineInv, Over
    <2>2. CASE AbortCapture(p) \/ AbortAnnounce(p)
      BY <1>0, <2>2 DEF AbortCapture, AbortAnnounce, Announce, EngineInv
    <2>. QED
      BY <1>1, <2>1, <2>2 DEF Abort
  <1>2. ASSUME NEW p \in {"managed", "caller"}, Complete(p) PROVE EngineInv'
    BY <1>0, <1>2 DEF Complete, CompleteRead, CompleteCancel, WaitCtx, EngineInv
  <1>3. CASE StartManaged \/ GiveUp \/ StartPolish \/ WaitForPhase
    BY <1>0, <1>3 DEF StartManaged, GiveUp, StartPolish, WaitForPhase, WaitFirst, WaitSubscribe, WaitRecheck,
         WaitNext, WaitEval, WaitEvalEvent, WaitDone, WaitJudge, EngineInv
  <1>4. CASE AnnouncePolish
    <2>1. Polishers[plans] \in PolisherNames
      BY <1>4, SetupFacts DEF AnnouncePolish, Announce, TypeInv, PlanInv
    <2>. QED
      BY <1>4, <2>1 DEF AnnouncePolish, Announce, EngineInv
  <1>5. CASE Review \/ Reject \/ AnnounceReject \/ Replan \/ ReplanWith \/ ClearFragments
    BY <1>0, <1>5 DEF Review, Reject, AnnounceReject, Announce, Replan, ReplanWith, ClearFragments, EngineInv
  <1>6. CASE AcceptPolishedPlan \/ Start \/ QueueInitial \/ Listen
    BY <1>0, <1>6 DEF AcceptPolishedPlan, Start, PrepareEngineLaunch, QueueInitial, Listen, EngineInv
  <1>7. CASE LaunchEngine
    <2>1. phase = "executing" /\ status = "pending"
      BY <1>7 DEF LaunchEngine, PhaseInv, InPhase, TypeInv, DataInv, Phases, Executes, Completes, Waits,
           Subscribed, Aborts
    <2>. QED
      BY <1>7, <2>1 DEF LaunchEngine, EngineInv
  <1>8. ASSUME NEW p \in PolisherNames, PolishStage(p) PROVE EngineInv'
    BY <1>0, <1>1, <1>8 DEF PolishStage, Polish, StoreFragments, SetReview, AnnounceReview, Announce, EngineInv
  <1>9. CASE \/ EngineBoot \/ AnnounceRun \/ EnginePrelude \/ EngineIdle \/ EmitIdle \/ EngineRunsNode
             \/ EngineFails \/ EngineCanceled \/ EngineFinish \/ EmitStopped
    <2>1. phase' = phase /\ phase = "executing" /\ pc'["engine"] \notin {"boot", "captureEngine", "report"}
      BY <1>9, PhaseOfEngine, Zenon DEF EngineBoot, AnnounceRun, Announce, EnginePrelude, EngineIdle, EmitIdle,
           EngineRunsNode, EngineFails, EngineCanceled, EngineFinish, EmitStopped, Runs
    <2>. QED
      BY <2>1 DEF EngineInv
  <1>10. CASE SettleClean \/ SettleCapture \/ Report
    <2>1. phase = "executing"
      BY <1>10, PhaseOfEngine DEF SettleClean, SettleCapture, Report, Runs
    <2>2. CASE SettleClean
      BY <1>0, <2>1, <2>2 DEF SettleClean, EndsClean, EngineInv, ErrInv
    <2>3. CASE SettleCapture
      BY <1>0, <2>1, <2>3 DEF SettleCapture, EngineInv
    <2>4. CASE Report
      BY <2>4 DEF Report, EngineInv
    <2>. QED
      BY <1>10, <2>2, <2>3, <2>4
  <1>11. CASE AnnounceReport \/ Reporting \/ SetSettled \/ AnnounceSettled
    <2>1. CASE AnnounceReport \/ Reporting
      BY <2>1 DEF AnnounceReport, Announce, Reporting, EngineInv
    <2>2. CASE SetSettled \/ AnnounceSettled
      BY <2>2 DEF Announce, SetSettled, AnnounceSettled, EngineInv
    <2>. QED
      BY <1>11, <2>1, <2>2
  <1>12. CASE Observer \/ CallerCalls \/ CancelCtx \/ UNCHANGED vars
    <2>1. CASE ObserverFirst
      BY <1>0, <2>1 DEF ObserverFirst, Close, EngineInv
    <2>2. CASE ObserverNext \/ ObserverCheck
      BY <1>0, <2>2 DEF ObserverNext, ObserverCheck, Close, EngineInv
    <2>3. CASE CallerCalls \/ CancelCtx \/ UNCHANGED vars
      BY <1>0, <2>3 DEF CallerCalls, CancelCtx, vars, EngineInv
    <2>. QED
      BY <1>12, <2>1, <2>2, <2>3 DEF Observer
  <1>. QED
    BY <1>1, <1>2, <1>3, <1>4, <1>5, <1>6, <1>7, <1>8, <1>9, <1>10, <1>11, <1>12 DEF Next, Managed, Engine,
         Caller

\* A step that neither moves the managed goroutine nor the engine's queue.
LEMMA ListenStays ==
    ASSUME ListenInv, UNCHANGED <<setup, runCtxDone, engineQ>>, pc'["managed"] = pc["managed"],
           pc'["engine"] = pc["engine"] \/ (pc["engine"] # "idling" /\ pc'["engine"] # "off")
    PROVE  ListenInv'
  BY DEF ListenInv, Mode

LEMMA ListenOfManaged ==
    ASSUME TypeInv, ErrInv, Undisturbed, Calm, Managed
    PROVE  ListenInv'
  <1>. USE ProcFacts, CalmFacts DEF At, Goto, Moved, Fail, Return, env, data, control, Mode
  <1>1. CASE StartManaged \/ GiveUp \/ StartPolish \/ WaitForPhase
    BY <1>1 DEF StartManaged, GiveUp, StartPolish, WaitForPhase, WaitFirst, WaitSubscribe, WaitRecheck,
         WaitNext, WaitEval, WaitEvalEvent, WaitDone, WaitJudge, ListenInv, Attentive, Aborts
  <1>2. CASE AnnouncePolish
    <2>1. Polishers[plans] \in PolisherNames
      BY <1>2, SetupFacts DEF AnnouncePolish, Announce, TypeInv, PlanInv
    <2>. QED
      BY <1>2, <2>1 DEF AnnouncePolish, Announce, ListenInv, Attentive, Aborts
  <1>3. CASE Review \/ Reject \/ AnnounceReject \/ Replan \/ ReplanWith \/ ClearFragments
    BY <1>3 DEF Review, Reject, AnnounceReject, Announce, Replan, ReplanWith, ClearFragments, ListenInv,
         Attentive, Aborts
  <1>4. CASE AcceptPolishedPlan \/ Start
    BY <1>4 DEF AcceptPolishedPlan, Start, PrepareEngineLaunch, ListenInv, Attentive, Aborts, ErrInv, Executes,
         Completes
  <1>5. CASE LaunchEngine
    BY <1>5 DEF LaunchEngine, ListenInv, Attentive, Aborts, ErrInv, Executes, Completes
  <1>6. CASE QueueInitial
    BY <1>6 DEF QueueInitial, EngineCtxDone, ListenInv, Attentive, Aborts
  <1>7. CASE Listen
    BY <1>7 DEF Listen, ListenInv, Attentive, Aborts
  <1>8. CASE Complete("managed") \/ Abort("managed")
    BY <1>8 DEF Abort, AbortSet, AbortCapture, AbortAnnounce, Announce, Complete, CompleteRead, CompleteCancel,
         WaitCtx,
         ListenInv, Attentive, Aborts
  <1>. QED
    BY <1>1, <1>2, <1>3, <1>4, <1>5, <1>6, <1>7, <1>8 DEF Managed

LEMMA ListenOfOthers ==
    ASSUME TypeInv, ErrInv, Undisturbed, Calm, [Next]_vars, ~Managed
    PROVE  ListenInv'
  <1>. USE ProcFacts, CalmFacts DEF At, Goto, Moved, Fail, Return, env, data, control
  <1>1. ASSUME NEW p \in PolisherNames, PolishStage(p) PROVE ListenInv'
    <2>1. CASE Polish(p) \/ StoreFragments(p)
      BY <2>1, ListenStays DEF Polish, StoreFragments
    <2>2. CASE SetReview(p) \/ AnnounceReview(p)
      BY <2>2, ListenStays DEF SetReview, AnnounceReview, Announce
    <2>3. CASE Abort(p)
      BY <2>3, ListenStays DEF Announce, Abort, AbortSet, AbortCapture, AbortAnnounce
    <2>. QED
      BY <1>1, <2>1, <2>2, <2>3 DEF PolishStage
  <1>2. CASE Caller \/ CallerCalls
    BY <1>2 DEF Caller, CallerCalls, Abort, AbortSet, AbortCapture, AbortAnnounce, Announce, Complete,
         CompleteRead,
         CompleteCancel, WaitCtx, OutsideInv, Completes, ListenInv, Mode
  <1>3. CASE Observer \/ CancelCtx \/ UNCHANGED vars
    BY <1>3, ListenStays DEF Observer, ObserverFirst, ObserverNext, ObserverCheck, Close, CancelCtx, vars
  <1>4. CASE Engine
    <2>1. CASE \/ EngineBoot \/ AnnounceRun \/ EnginePrelude \/ EngineIdle \/ EngineFinish
               \/ SettleClean \/ SettleCapture \/ Report \/ AnnounceReport \/ Reporting \/ SetSettled \/ AnnounceSettled
      BY <2>1, ListenStays, Zenon DEF EngineBoot, AnnounceRun, Announce, EnginePrelude, EngineIdle,
           EngineFinish,
           SettleClean, SettleCapture, Report, AnnounceReport, Reporting, SetSettled, AnnounceSettled
    <2>2. CASE EmitIdle \/ EngineFails \/ EmitStopped
      BY <2>2 DEF EmitIdle, EngineFails, EmitStopped, Deliver, ListenInv, Mode
    <2>3. CASE EngineRunsNode \/ EngineCanceled
      BY <2>3 DEF EngineRunsNode, EngineCanceled, EngineCtxDone, ListenInv, Mode, Attentive, Aborts
    <2>. QED
      BY <1>4, <2>1, <2>2, <2>3 DEF Engine
  <1>. QED
    BY <1>1, <1>2, <1>3, <1>4 DEF Next

-----------------------------------------------------------------------------
\* Done

\* A settled runner that nobody disturbs stays settled, and only the observer
\* closes Done.
LEMMA OutsideOfSteps ==
    ASSUME TypeInv, ErrInv, Undisturbed, Calm, [Next]_vars
    PROVE  OutsideInv'
  <1>. USE ProcFacts, CalmFacts DEF At, Goto, Moved, Fail, Return, env, data, state, outcome, control, queues
  <1>1. ASSUME NEW p \in PolisherNames \cup {"managed"}, Abort(p) PROVE OutsideInv'
    <2>1. CASE AbortSet(p)
      BY <2>1 DEF AbortSet, OutsideInv, Mode
    <2>2. CASE AbortCapture(p)
      BY <2>2 DEF AbortCapture, OutsideInv, Mode
    <2>3. CASE AbortAnnounce(p)
      BY <2>3 DEF AbortAnnounce, Announce, OutsideInv, Mode
    <2>. QED
      BY <1>1, <2>1, <2>2, <2>3 DEF Abort
  <1>2. CASE Caller \/ CallerCalls
    <2>1. CASE Abort("caller")
      BY <2>1 DEF Abort, AbortSet, AbortCapture, AbortAnnounce, Announce, OutsideInv, Completes, Mode
    <2>2. CASE Complete("caller")
      BY <2>2 DEF Complete, CompleteRead, CompleteCancel, WaitCtx, OutsideInv, Completes, Mode
    <2>3. CASE CallerCalls
      BY <2>3 DEF CallerCalls, OutsideInv, Completes, Mode
    <2>. QED
      BY <1>2, <2>1, <2>2, <2>3 DEF Caller
  <1>3. CASE Observer \/ CancelCtx \/ UNCHANGED vars
    <2>1. CASE ObserverFirst
      BY <2>1 DEF ObserverFirst, Close, OutsideInv, Mode
    <2>2. CASE ObserverNext \/ ObserverCheck
      BY <2>2 DEF ObserverNext, ObserverCheck, Close, OutsideInv, Mode
    <2>3. CASE CancelCtx \/ UNCHANGED vars
      BY <2>3 DEF CancelCtx, vars, OutsideInv, Mode
    <2>. QED
      BY <1>3, <2>1, <2>2, <2>3 DEF Observer
  <1>4. CASE \/ StartManaged \/ GiveUp \/ StartPolish \/ WaitForPhase \/ Complete("managed")
    <2>1. CASE StartManaged \/ GiveUp \/ StartPolish
      BY <2>1 DEF StartManaged, GiveUp, StartPolish, OutsideInv, Mode
    <2>2. CASE WaitForPhase
      BY <2>2 DEF WaitForPhase, WaitFirst, WaitSubscribe, WaitRecheck, WaitNext, WaitEval, WaitEvalEvent,
           WaitDone,
           WaitJudge, OutsideInv, Mode
    <2>3. CASE Complete("managed")
      BY <2>3 DEF Complete, CompleteRead, CompleteCancel, WaitCtx, OutsideInv, Mode
    <2>. QED
      BY <1>4, <2>1, <2>2, <2>3
  <1>5. CASE AnnouncePolish
    <2>1. Polishers[plans] \in PolisherNames
      BY <1>5, SetupFacts DEF AnnouncePolish, Announce, TypeInv, PlanInv
    <2>. QED
      BY <1>5, <2>1 DEF AnnouncePolish, Announce, OutsideInv, Mode
  <1>6. CASE Review \/ Reject \/ AnnounceReject \/ Replan \/ ReplanWith \/ ClearFragments
    <2>1. CASE Review \/ Reject \/ AnnounceReject
      BY <2>1 DEF Review, Reject, AnnounceReject, Announce, OutsideInv, Mode
    <2>2. CASE Replan \/ ReplanWith \/ ClearFragments
      BY <2>2 DEF Replan, ReplanWith, ClearFragments, OutsideInv, Mode
    <2>. QED
      BY <1>6, <2>1, <2>2
  <1>7. CASE AcceptPolishedPlan \/ Start \/ LaunchEngine \/ QueueInitial \/ Listen
    <2>1. CASE AcceptPolishedPlan \/ Start
      BY <2>1 DEF AcceptPolishedPlan, Start, PrepareEngineLaunch, OutsideInv, Mode
    <2>2. CASE LaunchEngine \/ QueueInitial \/ Listen
      BY <2>2 DEF Start, LaunchEngine, QueueInitial, Listen, OutsideInv, Mode
    <2>. QED
      BY <1>7, <2>1, <2>2
  <1>8. ASSUME NEW p \in PolisherNames, PolishStage(p) PROVE OutsideInv'
    <2>1. CASE SetReview(p)
      <3>1. phase = "polishing"
        BY <2>1, PhaseOfPolisher DEF SetReview, Works
      <3>. QED
        BY <2>1, <3>1 DEF SetReview, OutsideInv, Mode
    <2>2. CASE Polish(p) \/ StoreFragments(p) \/ AnnounceReview(p)
      <3>1. CASE Polish(p)
        BY <3>1 DEF Polish, OutsideInv, Mode
      <3>2. CASE StoreFragments(p)
        BY <3>2 DEF StoreFragments, OutsideInv, Mode
      <3>3. CASE AnnounceReview(p)
        BY <3>3 DEF AnnounceReview, Announce, OutsideInv, Mode
      <3>. QED
        BY <2>2, <3>1, <3>2, <3>3
    <2>. QED
      BY <1>1, <1>8, <2>1, <2>2 DEF PolishStage
  <1>9. CASE \/ EngineBoot \/ AnnounceRun \/ EnginePrelude \/ EngineIdle \/ EmitIdle \/ EngineRunsNode
             \/ EngineFails \/ EngineCanceled \/ EngineFinish \/ EmitStopped
    <2>1. CASE EngineBoot \/ AnnounceRun \/ EnginePrelude \/ EngineIdle
      BY <2>1 DEF EngineBoot, AnnounceRun, Announce, EnginePrelude, EngineIdle, OutsideInv, Mode
    <2>2. CASE EmitIdle \/ EngineRunsNode \/ EngineFails \/ EngineCanceled
      BY <2>2 DEF EmitIdle, EngineRunsNode, EngineFails, EngineCanceled, OutsideInv, Mode
    <2>3. CASE EngineFinish \/ EmitStopped
      BY <2>3 DEF EngineFinish, EmitStopped, OutsideInv, Mode
    <2>. QED
      BY <1>9, <2>1, <2>2, <2>3
  <1>10. CASE SettleClean \/ SettleCapture \/ AnnounceReport \/ Reporting \/ SetSettled \/ AnnounceSettled
    <2>1. CASE SettleClean \/ SettleCapture \/ AnnounceReport
      BY <2>1 DEF SettleClean, SettleCapture, AnnounceReport, Announce, OutsideInv, Mode
    <2>2. CASE Reporting \/ SetSettled \/ AnnounceSettled
      BY <2>2 DEF Announce, Reporting, SetSettled, AnnounceSettled, OutsideInv, Mode
    <2>. QED
      BY <1>10, <2>1, <2>2
  <1>11. CASE Report
    BY <1>11, PhaseOfEngine DEF Report, OutsideInv, Mode, Runs
  <1>. QED
    BY <1>1, <1>2, <1>3, <1>4, <1>5, <1>6, <1>7, <1>8, <1>9, <1>10, <1>11 DEF Next, Managed, Engine

-----------------------------------------------------------------------------
\* The invariant

LEMMA SetupStays ==
    ASSUME [Next]_vars
    PROVE  setup' = setup
  <1>. USE DEF env
  <1>1. ASSUME NEW p, Abort(p) \/ Complete(p) PROVE setup' = setup
    BY <1>1 DEF Abort, AbortSet, AbortCapture, AbortAnnounce, Announce, Complete, CompleteRead, CompleteCancel,
         WaitCtx
  <1>2. ASSUME NEW p, PolishStage(p) PROVE setup' = setup
    BY <1>1, <1>2, ZenonT(30) DEF PolishStage, Polish, StoreFragments, SetReview, AnnounceReview, Announce
  <1>3. CASE Managed
    <2>1. CASE StartManaged \/ GiveUp \/ StartPolish \/ AnnouncePolish
      BY <1>1, <2>1 DEF StartManaged, GiveUp, StartPolish, AnnouncePolish, Announce, WaitEval, Start
    <2>2. CASE WaitFirst \/ WaitSubscribe \/ WaitRecheck \/ WaitNext \/ WaitEval
      BY <1>1, <2>2 DEF WaitFirst, WaitSubscribe, WaitRecheck, WaitNext, WaitEval, WaitJudge, Start
    <2>3. CASE WaitEvalEvent \/ WaitDone
      BY <1>1, <2>3 DEF WaitEvalEvent, WaitDone, Start
    <2>4. CASE Review \/ Reject \/ AnnounceReject \/ Replan \/ ReplanWith \/ ClearFragments
      BY <1>1, <2>4 DEF Announce, WaitEval, Review, Reject, AnnounceReject, Replan, ReplanWith, ClearFragments,
           Start
    <2>5. CASE AcceptPolishedPlan \/ Start \/ LaunchEngine \/ QueueInitial \/ Listen
      BY <1>1, <2>5 DEF WaitEval, AcceptPolishedPlan, Start, PrepareEngineLaunch, LaunchEngine, QueueInitial,
           Listen
    <2>6. CASE Complete("managed") \/ Abort("managed")
      BY <1>1, <2>6 DEF Announce, WaitEval, Start
    <2>. QED
      BY <1>3, <2>1, <2>2, <2>3, <2>4, <2>5, <2>6 DEF Managed, WaitForPhase
  <1>4. CASE Engine
    BY <1>4 DEF Engine, EngineBoot, AnnounceRun, Announce, EnginePrelude, EngineIdle, EmitIdle, EngineRunsNode,
         EngineFails, EngineCanceled, EngineFinish, EmitStopped, SettleClean, SettleCapture, Report, AnnounceReport,
         Reporting, SetSettled, AnnounceSettled
  <1>5. CASE Observer \/ CallerCalls \/ CancelCtx \/ UNCHANGED vars
    BY <1>5 DEF Observer, ObserverFirst, ObserverNext, ObserverCheck, CallerCalls, CancelCtx, vars
  <1>. QED
    BY <1>1, <1>2, <1>3, <1>4, <1>5 DEF Next, Caller

LEMMA InitHolds == Init => IInv
  <1>. SUFFICES ASSUME Init PROVE IInv
    OBVIOUS
  <1>. USE ProcFacts DEF Init
  <1>1. DataInv
    <2>1. pc = [p \in Proc |-> pc[p]] /\ err \in [Proc -> Errors]
      BY DEF Errors
    <2>2. setup \in Setups /\ phase \in Phases /\ status \in Statuses /\ engineErr \in Errors /\ plans \in Nat \ {0}
      BY DEF Phases, Statuses, Errors
    <2>3. done \in BOOLEAN /\ clean \in BOOLEAN /\ runCtxDone \in BOOLEAN /\ ctxDone \in BOOLEAN
      BY Zenon
    <2>. QED
      BY <2>1, <2>2, <2>3 DEF DataInv
  <1>2. Mode \in {"managed", "bare"} /\ (Mode = "managed" => Len(Polishers) \in Nat /\ Len(Polishers) >= 1)
    BY SetupAssumption, PolisherAssumption DEF Mode, Polishers
  <1>3. PlanInv
    BY <1>2 DEF PlanInv
  <1>4. \A p \in PolisherNames : pc[p] = "off"
    OBVIOUS
  <1>5. \A i \in 1 .. Len(Polishers) : Polishers[i] \in PolisherNames
    BY DEF Polishers, PolisherNames
  <1>6. FreshInv
    BY <1>4, <1>5 DEF FreshInv
  <1>7. ErrInv
    BY DEF ErrInv, HandingOver, CleanEnd, Over
  <1>8. OutsideInv /\ EngineInv /\ ListenInv
    BY DEF OutsideInv, EngineInv, ListenInv
  <1>9. Mine = IF Mode = "managed" THEN "off" ELSE "end"
    BY <1>2, <1>4, <1>5 DEF Mine
  <1>10. PolishInv
    BY <1>2, <1>4, <1>9 DEF PolishInv
  <1>11. PhaseInv
    BY <1>2, <1>9 DEF PhaseInv, InPhase
  <1>. QED
    BY <1>1, <1>3, <1>6, <1>7, <1>8, <1>10, <1>11 DEF IInv, TypeInv, Calm

LEMMA CalmOfSteps ==
    ASSUME TypeInv, ErrInv, Undisturbed, Calm, [Next]_vars
    PROVE  Calm'
  <1>1. PhaseInv'
    BY PhasesOfManaged, PhasesOfPolisher, PhasesOfEngine, PhasesOfOthers DEF Next
  <1>2. PolishInv'
    BY PolishersOfManaged, PolishersOfPolisher, PolishersOfOthers DEF Next
  <1>3. ListenInv'
    BY ListenOfManaged, ListenOfOthers
  <1>. QED
    BY <1>1, <1>2, <1>3, EngineOfSteps, OutsideOfSteps DEF Calm

LEMMA InvariantOfSteps ==
    ASSUME IInv, [Next]_vars
    PROVE  IInv'
  BY TypesOfSteps, ErrorsOfSteps, CalmOfSteps, SetupStays DEF IInv, Undisturbed

LEMMA Inductive == Spec => []IInv
  BY InitHolds, InvariantOfSteps, PTL DEF Spec

-----------------------------------------------------------------------------
\* The theorems

\* For any setups: when Done is closed, a failed or canceled runner has an error for
\* Wait to return, unless an Abort is about to hand it over; and if nobody disturbed
\* the runner, it is settled and no polisher and no engine will write any more.
THEOREM DoneStaysFinal == Spec => []DoneIsFinal
  <1>1. IInv => FailureHasError
    BY DEF IInv, ErrInv, FailureHasError, HandingOver, At, CleanEnd
  <1>2. IInv => DoneMeansQuiet
    <2>. SUFFICES ASSUME IInv, done, Undisturbed
                  PROVE  phase = "settled" /\ \A p \in PolisherNames \cup {"engine"} : ~Writing(p)
      BY DEF DoneMeansQuiet
    <2>1. TypeInv /\ PolishInv /\ PhaseInv /\ phase = "settled"
      BY DEF IInv, Calm, OutsideInv
    <2>2. ~Writing("engine")
      BY <2>1 DEF PhaseInv, InPhase, Writing, Over
    <2>3. ASSUME NEW p \in PolisherNames PROVE ~Writing(p)
      <3>1. CASE pc[p] \in {"off", "announceReview", "end"}
        BY <3>1 DEF Writing
      <3>2. CASE pc[p] \notin {"off", "announceReview", "end"}
        BY <2>1, <3>2, PolisherIsMine DEF PhaseInv, InPhase, Writing
      <3>. QED
        BY <3>1, <3>2
    <2>. QED
      BY <2>1, <2>2, <2>3
  <1>. QED
    BY <1>1, <1>2, Inductive, PTL DEF DoneIsFinal

\* For any setups, of a runner nobody disturbs: the planner reviews and the engine
\* executes the fragments of the current plan, the engine is pending until then, and
\* the report stage follows a clean end.
THEOREM ReviewsAreCurrent == Spec => []ReviewSeesCurrentFragments
  <1>1. IInv => ReviewSeesCurrentFragments
    <2>. SUFFICES ASSUME IInv, Undisturbed
                  PROVE  /\ pc["managed"] \in {"review", "accept", "launch", "queue", "listening"} /\ Mode = "managed"
                              => fragments = plans
                         /\ phase \in {"created", "polishing", "awaiting_review", "awaiting_replan"} => status = "pending"
                         /\ phase = "report" => status = "idle" /\ clean
      BY DEF ReviewSeesCurrentFragments
    <2>1. TypeInv /\ PolishInv /\ PhaseInv /\ EngineInv
      BY DEF IInv, Calm
    <2>2. ASSUME pc["managed"] \in {"review", "accept", "launch", "queue", "listening"}, Mode = "managed"
          PROVE  fragments = plans
      <3>1. CASE phase = "settled"
        BY <2>1, <2>2, <3>1 DEF PhaseInv, InPhase, PolishInv, Waits, Subscribed, Aborts, Executes, Completes
      <3>2. CASE phase # "settled"
        BY <2>1, <2>2, <3>2 DEF PhaseInv, InPhase, PolishInv, TypeInv, DataInv, Phases, Waits, Subscribed
      <3>. QED
        BY <3>1, <3>2
    <2>. QED
      BY <2>1, <2>2 DEF PhaseInv, InPhase, EngineInv
  <1>. QED
    BY <1>1, Inductive, PTL

\* The steps that change the phase or close Done.
PhaseStep ==
    \/ \E p \in PolisherNames \cup {"managed", "caller"} : AbortSet(p)
    \/ \E p \in PolisherNames : SetReview(p)
    \/ StartPolish \/ Reject \/ ReplanWith \/ AcceptPolishedPlan \/ Start
    \/ Report \/ SetSettled
    \/ ObserverFirst \/ ObserverCheck

LEMMA OtherStepsKeepPhase ==
    ASSUME [Next]_vars
    PROVE  PhaseStep \/ UNCHANGED <<phase, done>>
  <1>. USE DEF state, outcome
  <1>1. ASSUME NEW p \in PolisherNames \cup {"managed", "caller"}, Abort(p) \/ Complete(p)
        PROVE  PhaseStep \/ UNCHANGED <<phase, done>>
    <2>1. AbortSet(p) => PhaseStep
      BY DEF PhaseStep
    <2>. QED
      BY <1>1, <2>1 DEF Abort, AbortCapture, AbortAnnounce, Announce, Complete, CompleteRead, CompleteCancel,
           WaitCtx
  <1>2. ASSUME NEW p \in PolisherNames, PolishStage(p)
        PROVE  PhaseStep \/ UNCHANGED <<phase, done>>
    <2>1. SetReview(p) => PhaseStep
      BY DEF PhaseStep
    <2>. QED
      BY <1>1, <1>2, <2>1 DEF PolishStage, Polish, StoreFragments, AnnounceReview, Announce
  <1>3. CASE Managed
    <2>1. StartPolish \/ Reject \/ ReplanWith \/ AcceptPolishedPlan \/ Start => PhaseStep
      BY DEF PhaseStep
    <2>. QED
      BY <1>1, <1>3, <2>1 DEF Managed, StartManaged, GiveUp, AnnouncePolish, Announce, WaitForPhase, WaitFirst,
         WaitSubscribe, WaitRecheck, WaitNext, WaitEval, WaitEvalEvent, WaitDone, WaitJudge, Review,
         AnnounceReject, Replan, ClearFragments, LaunchEngine, QueueInitial, Listen
  <1>4. CASE Engine
    <2>1. Report \/ SetSettled => PhaseStep
      BY DEF PhaseStep
    <2>. QED
      BY <1>4, <2>1 DEF Engine, EngineBoot, AnnounceRun, Announce, EnginePrelude, EngineIdle, EmitIdle,
           EngineRunsNode,
         EngineFails, EngineCanceled, EngineFinish, EmitStopped, SettleClean, SettleCapture, AnnounceReport,
         Reporting, AnnounceSettled
  <1>5. CASE Observer \/ CallerCalls \/ CancelCtx \/ UNCHANGED vars
    <2>1. ObserverFirst \/ ObserverCheck => PhaseStep
      BY DEF PhaseStep
    <2>. QED
      BY <1>5, <2>1 DEF Observer, ObserverNext, CallerCalls, CancelCtx, vars
  <1>. QED
    BY <1>1, <1>2, <1>3, <1>4, <1>5 DEF Next, Caller

\* Execution is entered, and the engine boots, from the pending status only.
LEMMA ErrorStopsExecution ==
    ASSUME IInv, [Next]_vars, engineErr # "none"
    PROVE  /\ ~(phase # "executing" /\ phase' = "executing")
           /\ ~(At("engine", "boot") /\ pc'["engine"] = "announceRun")
  <1>1. status # "pending"
    BY DEF IInv, ErrInv
  <1>2. ~(phase # "executing" /\ phase' = "executing")
    <2>1. CASE PhaseStep
      BY <1>1, <2>1 DEF PhaseStep, AbortSet, SetReview, StartPolish, Reject, ReplanWith, AcceptPolishedPlan,
           Start,
           PrepareEngineLaunch, Report, SetSettled, ObserverFirst, ObserverCheck, state
    <2>. QED
      BY <2>1, OtherStepsKeepPhase
  <1>3. ~(At("engine", "boot") /\ pc'["engine"] = "announceRun")
    <2>. SUFFICES ASSUME pc["engine"] = "boot", pc'["engine"] = "announceRun" PROVE FALSE
      BY DEF At
    <2>. USE ProcFacts DEF At, Goto, Moved, Fail, Return
    <2>0. pc = [q \in Proc |-> pc[q]]
      BY DEF IInv, TypeInv, DataInv
    <2>1. ASSUME NEW p \in PolisherNames \cup {"managed", "caller"}, Abort(p) \/ Complete(p) PROVE FALSE
      BY <2>0, <2>1 DEF Abort, AbortSet, AbortCapture, AbortAnnounce, Announce, Complete, CompleteRead,
           CompleteCancel, WaitCtx
    <2>2. ASSUME NEW p \in PolisherNames, PolishStage(p) PROVE FALSE
      BY <2>0, <2>1, <2>2 DEF PolishStage, Polish, StoreFragments, SetReview, AnnounceReview, Announce
    <2>3. CASE Managed
      <3>1. CASE StartManaged \/ GiveUp \/ StartPolish \/ WaitForPhase
        BY <2>0, <3>1 DEF StartManaged, GiveUp, StartPolish, WaitForPhase, WaitFirst, WaitSubscribe,
             WaitRecheck, WaitNext,
             WaitEval, WaitEvalEvent, WaitDone, WaitJudge
      <3>2. CASE AnnouncePolish
        BY <2>0, <3>2 DEF AnnouncePolish, Announce
      <3>3. CASE Review \/ Reject \/ AnnounceReject \/ Replan \/ ReplanWith \/ ClearFragments
        BY <2>0, <3>3 DEF Review, Reject, AnnounceReject, Announce, Replan, ReplanWith, ClearFragments
      <3>4. CASE AcceptPolishedPlan \/ Start \/ LaunchEngine \/ QueueInitial \/ Listen
        BY <2>0, <3>4 DEF AcceptPolishedPlan, Start, PrepareEngineLaunch, LaunchEngine, QueueInitial, Listen
      <3>. QED
        BY <2>1, <2>3, <3>1, <3>2, <3>3, <3>4 DEF Managed
    <2>4. CASE Engine
      BY <1>1, <2>0, <2>4 DEF Engine, EngineBoot, AnnounceRun, Announce, EnginePrelude, EngineIdle, EmitIdle,
           EngineRunsNode,
           EngineFails, EngineCanceled, EngineFinish, EmitStopped, SettleClean, SettleCapture, Report, AnnounceReport,
           Reporting, SetSettled, AnnounceSettled
    <2>5. CASE Observer \/ CallerCalls \/ CancelCtx \/ UNCHANGED vars
      BY <2>0, <2>5 DEF Observer, ObserverFirst, ObserverNext, ObserverCheck, Close, CallerCalls, CancelCtx,
           vars
    <2>. QED
      BY <2>1, <2>2, <2>3, <2>4, <2>5 DEF Next, Caller
  <1>. QED
    BY <1>2, <1>3

\* A step of an undisturbed runner is one of the diagram, or leaves it.
LEMMA StepsFollowDiagram ==
    ASSUME IInv, [Next]_vars, Undisturbed
    PROVE  \/ UNCHANGED <<phase, done>>
           \/ <<phase, phase'>> \in Documented!Edge /\ done' = done
           \/ phase # "settled" /\ phase' = "settled" /\ done' = done
           \/ phase = "settled" /\ ~done /\ done' = TRUE /\ phase' = phase
  <1>. USE DEF state, outcome
  <1>0. TypeInv /\ ErrInv /\ PolishInv /\ PhaseInv /\ phase \in Phases
    BY DEF IInv, TypeInv, DataInv, Calm
  <1>1. ASSUME NEW p, AbortSet(p) \/ SetSettled
        PROVE  UNCHANGED <<phase, done>> \/ (phase # "settled" /\ phase' = "settled" /\ done' = done)
    BY <1>1 DEF AbortSet, SetSettled
  <1>2. ASSUME NEW p \in PolisherNames, SetReview(p)
        PROVE  <<phase, phase'>> \in Documented!Edge /\ done' = done
    BY <1>0, <1>2, PhaseOfPolisher DEF SetReview, At, Works, Documented!Edge
  <1>3. CASE StartPolish
    BY <1>3 DEF StartPolish, Documented!Edge
  <1>4. CASE Reject \/ ReplanWith
    BY <1>4 DEF Reject, ReplanWith, Documented!Edge
  <1>5. CASE AcceptPolishedPlan \/ Start
    BY <1>5 DEF AcceptPolishedPlan, Start, PrepareEngineLaunch, Documented!Edge
  <1>6. CASE Report
    BY <1>0, <1>6, PhaseOfEngine DEF Report, At, Runs, Documented!Edge
  <1>7. CASE ObserverFirst \/ ObserverCheck
    <2>1. done \in BOOLEAN
      BY <1>0 DEF TypeInv, DataInv
    <2>2. phase' = phase /\ (done' = done \/ (phase = "settled" /\ done' = TRUE))
      BY <1>7 DEF ObserverFirst, ObserverCheck, Close
    <2>. QED
      BY <2>1, <2>2
  <1>8. PhaseStep \/ UNCHANGED <<phase, done>>
    BY OtherStepsKeepPhase
  <1>. QED
    BY <1>1, <1>2, <1>3, <1>4, <1>5, <1>6, <1>7, <1>8 DEF PhaseStep

\* For any setups: once an error is captured the runner neither enters execution nor
\* boots its engine, and a runner nobody disturbs implements RunnerPhases: it follows
\* the documented phase diagram and closes Done, once, in its last phase.
THEOREM PhasesStayLegal == Spec => PhasesAreLegal
  <1>1. Init => Documented!Init
    BY DEF Init, Documented!Init
  <1>2. ASSUME IInv, [Next]_vars
        PROVE  [Documented!Next]_<<IF Undisturbed THEN phase ELSE "created", Undisturbed /\ done>>
    <2>1. Undisturbed' = Undisturbed
      BY <1>2, SetupStays DEF Undisturbed
    <2>2. CASE ~Undisturbed
      BY <2>1, <2>2
    <2>3. CASE Undisturbed
      <3>1. \/ UNCHANGED <<phase, done>>
            \/ <<phase, phase'>> \in Documented!Edge /\ done' = done
            \/ phase # "settled" /\ phase' = "settled" /\ done' = done
            \/ phase = "settled" /\ ~done /\ done' = TRUE /\ phase' = phase
        BY <1>2, <2>3, StepsFollowDiagram
      <3>. QED
        BY <2>1, <2>3, <3>1 DEF Documented!Next, Documented!Advance, Documented!Settle, Documented!CloseDone
    <2>. QED
      BY <2>2, <2>3
  <1>3. ASSUME IInv, [Next]_vars
        PROVE  [engineErr # "none" =>
                  /\ ~(phase # "executing" /\ phase' = "executing")
                  /\ ~(At("engine", "boot") /\ pc'["engine"] = "announceRun")]_vars
    BY <1>3, ErrorStopsExecution
  <1>4. Spec => FollowsDiagram
    BY <1>1, <1>2, Inductive, PTL DEF Spec, FollowsDiagram, Documented!Spec
  <1>5. Spec => AbortedNeverExecutes
    BY <1>3, Inductive, PTL DEF Spec, AbortedNeverExecutes
  <1>. QED
    BY <1>4, <1>5, PTL DEF PhasesAreLegal
=============================================================================
