------------------------------ MODULE Request ------------------------------
(***************************************************************************)
(* One request: planning, the runner it becomes, and its event log         *)
(* (orchestrator/request.go, planning.go, describe.go, store/event_log.go, *)
(* store/cursor.go).                                                       *)
(*                                                                         *)
(* What is emitted passes from goroutine to goroutine: the orchestrator    *)
(* emits frames on the request stream itself; the planner's and the        *)
(* runner's events get there through merges; one goroutine drains a        *)
(* bounded subscription into an unbounded queue, another appends the queue *)
(* to the log; whoever asks replays the log into a view.  Merges are       *)
(* modelled in MergeHub, streams in Stream, runners in RunnerLifecycle and *)
(* RunnerEngine; here they are reduced to what the log can tell.           *)
(***************************************************************************)
EXTENDS Registry, Describe

CONSTANTS
    Reader,     \* callers of DescribeRequest
    Registered, \* the skills registered before the first call
    Budgets     \* the calls, faults, cancellations and describes of a behaviour, the
                \* plans (sequences of nodes) its planner may return, the texts a
                \* node reports for its artifact, the buffer of the log's
                \* subscription (WithSubscriberBuffer), the depth of a merge's two
                \* buffers, and whether a caller reads the request stream under
                \* OverflowError

VARIABLES
    engine,     \* where StartRequest and startRequestWithStream stand
    startup,    \* requestStartup: what StartRequest copied under the lock
    plan,       \* the plan planning returned
    life,       \* the runner's phase, "none" before there is one
    status,     \* the runner's status
    ran,        \* nodes that completed
    upstream,   \* events on their way through the merges, by upstream
    merged,     \* the upstreams whose merge is running
    missed,     \* what the merges lost before a cancel: "event", "end" for one that ends the request
    frames,     \* every frame emitted on the request stream
    channel,    \* the log's subscription
    drain,      \* where drainRequestEventLogSubscription stands
    queue,      \* requestEventLogQueue: events, closed, wake
    persist,    \* where persistQueuedRequestEventLog stands
    log,        \* the frames in the JSON event log
    torn,       \* a frame was written in part
    ctxDone,    \* the request's context is canceled
    readers,    \* where each DescribeRequest stands, with its view
    cursor,     \* the saved snapshot cursor, 0 if none
    lossy,      \* a frame was dropped at the full channel or failed to append
    left        \* faults, cancellations and describes left

run     == <<engine, startup, plan, life, status, ran>>
merging == <<upstream, merged, missed>>
stream  == <<frames, channel, lossy>>
logging == <<drain, queue, persist, log, torn>>
viewing == <<readers, cursor>>
vars    == <<registry, calls, run, merging, stream, logging, ctxDone, viewing, left>>

Idle == [pc |-> "idle", view |-> Fresh]

Init ==
    /\ RegistryInit /\ skills \in Registered
    /\ engine = "new" /\ startup = << >> /\ plan = << >>
    /\ life = "none" /\ status = "pending" /\ ran = {}
    /\ upstream = [planner |-> << >>, runner |-> << >>] /\ merged = {} /\ missed = {}
    /\ frames = << >> /\ channel = << >> /\ lossy = FALSE
    /\ drain = "off" /\ persist = "off"
    /\ queue = [events |-> << >>, closed |-> FALSE, wake |-> FALSE]
    /\ log = << >> /\ torn = FALSE
    /\ ctxDone = FALSE
    /\ readers = [r \in Reader |-> Idle] /\ cursor = 0
    /\ left \in Budgets
    /\ calls = left.calls

Spend(what) == left[what] > 0 /\ left' = [left EXCEPT ![what] = @ - 1]

-----------------------------------------------------------------------------
\* Events and the request stream

Engine(type, st, runner) ==
    [Blank EXCEPT !.type = type, !.layer = "orchestrator", !.status = st, !.runner = runner]
Failed == Engine("status.failed", "failed", "")

Phase(ph, st) == [Blank EXCEPT !.type = "phase", !.layer = "runner", !.runner = "r", !.phase = ph, !.status = st]
Node(type, st, n) == [Blank EXCEPT !.type = type, !.layer = "runner", !.runner = "r", !.node = n, !.status = st]
Artifact(n, text) ==
    [Blank EXCEPT !.type = "artifact", !.layer = "agent", !.runner = "r", !.node = n, !.path = "out", !.text = text]

\* Emit offers a frame to one subscription after the other, and gives up when the
\* context ends or a subscription under OverflowError is full: the log's may come
\* after that (bound: one frame does not get there).
SendGivesUp == (ctxDone \/ left.strict) /\ ~lossy

\* Emit: the frame gets the next sequence number and is offered to the log's
\* subscription, unless Emit gave up before; a full channel drops it.
Emit(events) ==
    LET f == [seq |-> Len(frames) + 1, events |-> events]
    IN  /\ frames' = Append(frames, f)
        /\ \/ /\ drain \in {"off", "end"}
              /\ UNCHANGED <<channel, lossy>>
           \/ /\ drain \notin {"off", "end"} /\ Len(channel) < left.buffer
              /\ channel' = Append(channel, f)
              /\ UNCHANGED lossy
           \/ /\ drain \notin {"off", "end"} /\ (Len(channel) = left.buffer \/ SendGivesUp)
              /\ lossy' = TRUE
              /\ UNCHANGED channel

\* requestStreamTerminal, of one event
Ends(e) ==
    \/ e.layer = "orchestrator" /\ e.type = "status.failed"
    \/ e.type = "phase" /\ e.phase = "settled" /\ e.status \in {"idle", "failed", "canceled"}

\* Events are lost; under a canceled context that is no matter.
Miss(events) ==
    missed' = IF ctxDone THEN missed
              ELSE missed \cup {IF Ends(events[i]) THEN "end" ELSE "event" : i \in DOMAIN events}

\* Events of the planner's or the runner's own stream.  Between it and the frames
\* are the merge's subscription and the merge's FIFO, `depth` events each; nothing
\* holds the emitter back.  A full subscription drops the newest events, and when
\* the merge has ended nothing reads them.
Send(who, events) ==
    \/ /\ who \in merged
       /\ upstream' = [upstream EXCEPT ![who] = @ \o events]
       /\ UNCHANGED missed
    \/ \E k \in 0 .. Len(events) - 1 :
          /\ who \in merged /\ Len(upstream[who]) + k >= left.depth
          /\ upstream' = [upstream EXCEPT ![who] = @ \o SubSeq(events, 1, k)]
          /\ Miss(SubSeq(events, k + 1, Len(events)))
    \/ /\ who \notin merged
       /\ Miss(events)
       /\ UNCHANGED upstream

\* A tick of the merge: the head of every upstream in one frame.
Tick ==
    LET heads == SubSeq(upstream.planner, 1, IF upstream.planner = << >> THEN 0 ELSE 1)
                    \o SubSeq(upstream.runner, 1, IF upstream.runner = << >> THEN 0 ELSE 1)
    IN  /\ merged # {} /\ heads # << >>
        /\ Emit(heads)
        /\ upstream' = [w \in DOMAIN upstream |->
                           IF upstream[w] = << >> THEN << >> ELSE Tail(upstream[w])]
        /\ UNCHANGED <<registry, calls, run, merged, missed, logging, ctxDone, viewing, left>>

\* The merge moves one event more into its FIFO than that takes (ErrBufferFull):
\* it ends, and what it held is gone.
MergeOverflows(w) ==
    /\ w \in merged /\ Len(upstream[w]) > left.depth
    /\ merged' = merged \ {w}
    /\ upstream' = [upstream EXCEPT ![w] = << >>]
    /\ Miss(upstream[w])
    /\ UNCHANGED <<registry, calls, run, stream, logging, ctxDone, viewing, left>>

\* The merges end with the context they were started with.
MergeCanceled ==
    /\ merged # {} /\ ctxDone
    /\ merged' = {}
    /\ upstream' = [w \in DOMAIN upstream |-> << >>]
    /\ UNCHANGED <<registry, calls, run, missed, stream, logging, ctxDone, viewing, left>>

-----------------------------------------------------------------------------
\* StartRequest and planning

\* StartRequest: the configuration is latched and copied, the log subscribed.
StartRequest ==
    /\ engine = "new"
    /\ locked' = TRUE
    /\ startup' = [skills |-> skills, planner |-> planner]
    /\ engine' = "bind" /\ drain' = "next" /\ persist' = "next"
    /\ UNCHANGED <<skills, servers, planner, adding, setting, calls, plan, life, status, ran, merging,
                   stream, queue, log, torn, ctxDone, viewing, left>>

\* The planner has no client: the request is rejected; else its stream is merged
\* and planning starts.
BindPlanner ==
    /\ engine = "bind"
    /\ \/ /\ engine' = "fail"
          /\ UNCHANGED <<merged, stream>>
       \/ /\ Emit(<<Engine("status.started", "running", "")>>)
          /\ merged' = {"planner"}
          /\ engine' = "plan"
    /\ UNCHANGED <<registry, calls, startup, plan, life, status, ran, upstream, missed, logging, ctxDone, viewing,
                   left>>

\* planWithOrchestrator: what the planner answers is a plan, a rejection, or does
\* not parse, in which case it is asked once more; or the call fails, which the
\* planner's own stream reports too.  (The hand-off frame that precedes the
\* completed one means nothing to a view and is left out.)
PlanAnswer ==
    /\ engine \in {"plan", "retry"}
    /\ \/ \E p \in left.plans : /\ plan' = p
                           /\ engine' = "build"
                           /\ Emit(<<Engine("status.completed", "completed", "")>>)
                           /\ UNCHANGED <<upstream, missed>>
       \/ /\ engine' = "rejected"
          /\ Emit(<<Engine("status.completed", "completed", "")>>)
          /\ UNCHANGED <<plan, upstream, missed>>
       \/ /\ engine = "plan" /\ engine' = "retry"
          /\ UNCHANGED <<plan, upstream, missed, stream>>
       \/ /\ engine = "retry" /\ engine' = "fail"
          /\ Emit(<<Failed>>)
          /\ UNCHANGED <<plan, upstream, missed>>
       \/ /\ engine' = "fail"
          /\ Send("planner", <<Failed>>)
          /\ Emit(<<Failed>>)
          /\ UNCHANGED plan
    /\ UNCHANGED <<registry, calls, startup, life, status, ran, merged, logging, ctxDone, viewing, left>>

Rejected ==
    /\ engine = "rejected"
    /\ Emit(<<Failed>>)
    /\ engine' = "fail"
    /\ UNCHANGED <<registry, calls, startup, plan, life, status, ran, merging, logging, ctxDone, viewing, left>>

Ids == {plan[i].id : i \in DOMAIN plan}
DependsOn(n) == UNION {plan[i].deps : i \in {j \in DOMAIN plan : plan[j].id = n}}

\* buildPlanNodes: distinct ids, skills of the startup copy, known dependencies.
PlanBuilds ==
    /\ plan # << >> /\ Cardinality(Ids) = Len(plan)
    /\ \A i \in DOMAIN plan : plan[i].skill \in DOMAIN startup.skills /\ plan[i].deps \subseteq Ids

\* newRunnerFromPlan, the merge of the runner's stream, and its registration
BuildRunner ==
    /\ engine = "build"
    /\ IF PlanBuilds
       THEN /\ engine' = "submit" /\ life' = "created"
            /\ merged' = merged \cup {"runner"}
            /\ Emit(<<Engine("status.progress", "running", "r")>>)
       ELSE engine' = "fail" /\ UNCHANGED <<life, merged, stream>>
    /\ UNCHANGED <<registry, calls, startup, plan, status, ran, upstream, missed, logging, ctxDone, viewing, left>>

\* submitManagedRunner (RunnerQueue has the rest): a canceled request is aborted.
SubmitRunner ==
    /\ engine = "submit"
    /\ IF ctxDone THEN /\ engine' = "fail" /\ life' = "settled" /\ status' = "canceled"
                       /\ Send("runner", <<Phase("settled", "canceled")>>)
       ELSE /\ engine' = "done" /\ life' = "polishing"
            /\ Send("runner", <<Phase("polishing", "pending")>>)
            /\ UNCHANGED status
    /\ UNCHANGED <<registry, calls, startup, plan, ran, merged, stream, logging, ctxDone, viewing, left>>

\* A request that fails stops its merges and says so on the stream.
FailRequest ==
    /\ engine = "fail"
    /\ engine' = "failed"
    /\ merged' = {}
    /\ upstream' = [w \in DOMAIN upstream |-> << >>]
    /\ Emit(<<Failed>>)
    /\ UNCHANGED <<registry, calls, startup, plan, life, status, ran, missed, logging, ctxDone, viewing, left>>

-----------------------------------------------------------------------------
\* The runner, as far as its events go

\* A step to phase ph with status st
RunnerGoes(ph, st, events) ==
    /\ life' = ph /\ status' = st
    /\ Send("runner", events)

RunnerStep ==
    /\ \/ /\ life = "polishing"
          /\ RunnerGoes("awaiting_review", status, <<Phase("awaiting_review", status)>>)
          /\ UNCHANGED ran
       \/ /\ life = "awaiting_review"   \* approved: the engine starts
          /\ RunnerGoes("executing", "running", <<Phase("executing", "running")>>
                            \o [i \in DOMAIN plan |-> Node("node.added", "pending", plan[i].id)])
          /\ UNCHANGED ran
       \/ /\ life = "executing"         \* a node runs
          /\ \E n \in Ids \ ran :
                /\ DependsOn(n) \subseteq ran
                /\ ran' = ran \cup {n}
                /\ RunnerGoes("executing", status,
                       <<Node("node.started", "running", n), Node("node.completed", "completed", n)>>
                           \o [i \in DOMAIN left.texts |-> Artifact(n, left.texts[i])])
       \/ /\ life = "executing"         \* a node fails
          /\ \E n \in Ids \ ran :
                /\ DependsOn(n) \subseteq ran
                /\ RunnerGoes("settled", "failed",
                       <<[Node("node.failed", "failed", n) EXCEPT !.text = "boom"], Phase("settled", "failed")>>)
          /\ UNCHANGED ran
       \/ /\ life = "executing" /\ ran # {}   \* the last active node has completed: idle, report
          /\ ~ \E n \in Ids \ ran : DependsOn(n) \subseteq ran
          /\ RunnerGoes("report", "idle", <<Phase("report", "idle")>>)
          /\ UNCHANGED ran
       \/ /\ life = "report"
          /\ RunnerGoes("settled", "idle", <<Phase("settled", "idle")>>)
          /\ UNCHANGED ran
    /\ UNCHANGED <<registry, calls, engine, startup, plan, merged, stream, logging, ctxDone, viewing, left>>

\* The planner's review fails, which the runner alone reports: the reviewing
\* planner has the stream identity of the planning one, whose merge is still
\* there, so that its own merge is refused and its events go nowhere.
ReviewFails ==
    /\ life = "awaiting_review"
    /\ RunnerGoes("settled", "failed", <<Phase("settled", "failed")>>)
    /\ UNCHANGED <<registry, calls, engine, startup, plan, ran, merged, stream, logging, ctxDone, viewing, left>>

RunnerCanceled ==
    /\ ctxDone /\ life \notin {"none", "created", "settled"}
    /\ RunnerGoes("settled", "canceled", <<Phase("settled", "canceled")>>)
    /\ UNCHANGED <<registry, calls, engine, startup, plan, ran, merged, stream, logging, ctxDone, viewing, left>>

CancelRequest ==
    /\ Spend("cancels") /\ ~ctxDone
    /\ ctxDone' = TRUE
    /\ UNCHANGED <<registry, calls, run, merging, stream, logging, viewing>>

-----------------------------------------------------------------------------
\* The event log's two goroutines and the queue between them

\* Mutant: an idle runner ends the request whatever its phase.
TerminalAnyPhase(f) ==
    \E i \in DOMAIN f.events :
        LET e == f.events[i] IN
        \/ e.layer = "orchestrator" /\ e.type = "status.failed"
        \/ e.type = "phase" /\ e.status \in {"idle", "failed", "canceled"}

\* requestStreamTerminal, of the events a bundle expands to
Terminal(f) == \E i \in DOMAIN f.events : Ends(f.events[i])

\* Mutant: the frame goes to the front of the queue.
EnqueueInFront(f) == queue' = [queue EXCEPT !.events = <<f>> \o @, !.wake = TRUE]

\* Enqueue; nobody else closes the queue.
Enqueue(f) == queue' = [queue EXCEPT !.events = Append(@, f), !.wake = TRUE]

\* The next frame is queued; a terminal one is the last.
DrainNext ==
    /\ drain = "next" /\ channel # << >>
    /\ Enqueue(Head(channel))
    /\ channel' = Tail(channel)
    /\ drain' = IF Terminal(Head(channel)) THEN "close" ELSE "next"
    /\ UNCHANGED <<registry, calls, run, merging, frames, lossy, persist, log, torn, ctxDone, viewing, left>>

DrainCanceled ==
    /\ drain = "next" /\ ctxDone
    /\ drain' = "close"
    /\ UNCHANGED <<registry, calls, run, merging, stream, queue, persist, log, torn, ctxDone, viewing, left>>

\* Mutant: closing the queue wakes nobody.
DrainCloseQuietly ==
    /\ drain = "close"
    /\ drain' = "end"
    /\ queue' = [queue EXCEPT !.closed = TRUE]
    /\ channel' = << >>
    /\ UNCHANGED <<registry, calls, run, merging, frames, lossy, persist, log, torn, ctxDone, viewing, left>>

\* The deferred Close of the queue, and the subscription's Cancel
DrainClose ==
    /\ drain = "close"
    /\ drain' = "end"
    /\ queue' = [queue EXCEPT !.closed = TRUE, !.wake = TRUE]
    /\ channel' = << >>
    /\ UNCHANGED <<registry, calls, run, merging, frames, lossy, persist, log, torn, ctxDone, viewing, left>>

\* Next with a frame in the queue, and AppendEvent.  An append that fails leaves
\* part of the frame in the file or nothing; the failure is logged and the next
\* frame is appended all the same.
AppendEvent ==
    /\ persist = "next" /\ queue.events # << >>
    /\ queue' = [queue EXCEPT !.events = Tail(@)]
    /\ \/ /\ log' = Append(log, Head(queue.events))
          /\ UNCHANGED <<torn, lossy, left>>
       \/ /\ Spend("faults")
          /\ lossy' = TRUE /\ torn' \in {torn, TRUE}
          /\ UNCHANGED log
    /\ UNCHANGED <<registry, calls, run, merging, frames, channel, drain, persist, ctxDone, viewing>>

\* Next without one: the end, or the wait for a wake-up.
QueueEmpty ==
    /\ persist = "next" /\ queue.events = << >>
    /\ persist' = IF queue.closed THEN "end" ELSE "wait"
    /\ UNCHANGED <<registry, calls, run, merging, stream, drain, queue, log, torn, ctxDone, viewing, left>>

QueueWait ==
    /\ persist = "wait"
    /\ \/ queue.wake /\ persist' = "next" /\ queue' = [queue EXCEPT !.wake = FALSE]
       \/ ctxDone /\ persist' = "end" /\ UNCHANGED queue
    /\ UNCHANGED <<registry, calls, run, merging, stream, drain, log, torn, ctxDone, viewing, left>>

-----------------------------------------------------------------------------
\* DescribeRequest

\* LoadEvents: the frames in the file; one that was written in part cannot be
\* decoded and fails the load.
LoadView(r) ==
    /\ readers[r].pc = "idle" /\ engine # "new" /\ Spend("describes")
    /\ readers' = [readers EXCEPT ![r] =
            IF torn THEN [pc |-> "error", view |-> Fresh]
            ELSE [pc |-> "save", view |-> ReplayDescribeView(Fresh, 0, log)]]
    /\ UNCHANGED <<registry, calls, run, merging, stream, logging, ctxDone, cursor>>

\* Mutant: the cursor is the frame to read next.
SaveCursorNext(r) ==
    /\ readers[r].pc = "save"
    /\ cursor' = readers[r].view.seq + 1
    /\ readers' = [readers EXCEPT ![r].pc = "done"]
    /\ UNCHANGED <<registry, calls, run, merging, stream, logging, ctxDone, left>>

\* SaveCursor replaces the saved cursor, a newer one too.
SaveCursor(r) ==
    /\ readers[r].pc = "save"
    /\ cursor' = readers[r].view.seq
    /\ readers' = [readers EXCEPT ![r].pc = "done"]
    /\ UNCHANGED <<registry, calls, run, merging, stream, logging, ctxDone, left>>

Work ==
    \/ StartRequest \/ BindPlanner \/ PlanAnswer \/ Rejected \/ BuildRunner \/ SubmitRunner \/ FailRequest
    \/ RunnerStep \/ ReviewFails \/ RunnerCanceled \/ Tick
    \/ \E w \in DOMAIN upstream : MergeOverflows(w)
    \/ MergeCanceled

Next ==
    \/ RegistryNext /\ UNCHANGED <<run, merging, stream, logging, ctxDone, viewing, left>>
    \/ Work \/ CancelRequest
    \/ DrainNext \/ DrainCanceled \/ DrainClose \/ AppendEvent \/ QueueEmpty \/ QueueWait
    \/ \E r \in Reader : LoadView(r) \/ SaveCursor(r)

Spec == Init /\ [][Next]_vars

\* The request makes progress and its goroutines run; nobody has to cancel it,
\* describe it or call the registry.
FairSpec ==
    /\ Spec
    /\ WF_vars(Work)
    /\ WF_vars(DrainNext \/ DrainCanceled \/ DrainClose)
    /\ WF_vars(AppendEvent \/ QueueEmpty \/ QueueWait)

-----------------------------------------------------------------------------
\* Properties

\* What a request started with does not change under it: the planner is the one
\* StartRequest saw ("must be called before the first planning call").
StartupHolds == engine # "new" => locked /\ startup.planner = planner

\* What the orchestrator was given stays: the planner once a request runs, a
\* user's skill until it is removed.
RegistryHolds == []StartupHolds /\ UserSkillStays

\* The log is what was emitted, in order and up to the first frame that ends the
\* request: nothing in it is out of order, and unless a frame was dropped or
\* failed to append, or the request was canceled, nothing is missing from it
\* when both goroutines have ended.
LogIsFaithful ==
    /\ \A i, j \in DOMAIN log : i < j => log[i].seq < log[j].seq
    /\ \A i \in DOMAIN log : log[i] = frames[log[i].seq]
    /\ ~lossy => \A i \in DOMAIN log : log[i].seq = i
    /\ (~lossy /\ ~ctxDone /\ persist = "end") => log # << >> /\ Terminal(Last(log))

\* A describe of the finished log tells how the request ended: idle if and only
\* if the runner settled idle, with all that it did in it, unless a merge has lost
\* some of it.
OutcomeIsLogged ==
    (~lossy /\ missed = {} /\ ~ctxDone /\ persist = "end") =>
        LET v == ReplayDescribeView(Fresh, 0, log) IN
        /\ v.ok /\ v.status = IF life = "settled" THEN status ELSE "failed"
        /\ status = "idle" => /\ v.phase = "settled" /\ v.runner = "r"
                              /\ \A n \in ran : v.nodes[n].status = "completed"
                              /\ Len(v.artifacts) = IF left.texts = << >> THEN 0 ELSE Cardinality(ran)

\* A view that is kept and continued from its cursor is the view a replay from
\* the beginning gives, whatever was appended in between ("continue replay
\* without duplicating state"), and the saved cursor never points past the log.
ResumeIsReplay ==
    /\ \A r \in Reader : readers[r].pc \in {"save", "done"} =>
          ReplayDescribeView(readers[r].view, readers[r].view.seq, log) = ReplayDescribeView(Fresh, 0, log)
    /\ cursor # 0 => \E i \in DOMAIN log : log[i].seq = cursor

\* No node of the plan can start: the runner waits in the executing phase for good.
NothingStarts == life = "executing" /\ ran = {} /\ \A n \in Ids : DependsOn(n) # {}

\* The log has all that reached its subscription, and nothing that would end it
\* comes: the frame was dropped there (lossy), its event was lost in a merge, or
\* the plan never starts.
LogWaits ==
    /\ drain = "next" /\ channel = << >> /\ queue.events = << >>
    /\ ~ctxDone
    /\ lossy \/ "end" \in missed \/ NothingStarts

\* The log's goroutines do not outlive the request, canceled or not: both end,
\* unless the frame that ends the request was lost before it reached them or every
\* node of the plan waits for another.  Then they wait with nothing left to write.
LogEnds == <>[](engine = "new" \/ LogWaits \/ (drain = "end" /\ persist = "end"))

\* The report stage is entered when the plan has been carried out ("PhaseReport
\* is entered after the DAG settles successfully").
ReportMeansRan == life = "report" => ran = Ids
=============================================================================
