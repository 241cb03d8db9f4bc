# A verification of dango

TLA+ models of dango, the TLC configurations that check them on small instances,
and TLAPS proofs of the results that matter most. Paths such as
`runner/runner.go` are relative to `src/`.

## The system

dango turns a user request into a plan, a graph of nodes, and runs one agent per
node. Its parts, from the outside in:

| part | code | modules |
|---|---|---|
| orchestrator: registry, planner, configuration latch | `orchestrator/orchestrator.go`, `skill.go`, `mcp.go` | `Registry`, in `Request` |
| a request: planning, its stream, its event log, describe | `orchestrator/request.go`, `planning.go`, `describe.go`, `store/event_log.go`, `cursor.go` | `Request`, `Describe` |
| start queue and slots | `orchestrator/queue.go` | `RunnerQueue` |
| runner lifecycle | `runner/lifecycle.go`, `runner.go`, `persistence.go` | `RunnerLifecycle`, `RunnerPhases` |
| runner engine | `runner/runner.go` (`runEngine`) | `RunnerEngine` |
| agents, skill binding, workspace, handoffs | `agent/`, `runner/skill_binding.go`, `workspace*.go`, `handoff*.go`, `plan*.go` | `NodeRun`, `Paths`, `PlanText`, `FileTools` |
| conversation with a model, tools, approvals | `llm/conversation*.go`, `turn.go`, `tool_policy.go` | `Conversation`, `Turns` |
| JSON stores of runners and sessions | `runner/store.go`, `codec.go`, `llm/session.go` | `RunnerStore`, `SessionStore`, `RunnerLog`, `SessionLog` |
| SQL backends with their mirror | `store/internal/`, `store/runtime/runtime.go` | `SqlStore`, `Tables`, `EventQueries` |
| stream and subscriptions | `stream/stream.go`, `subscription.go`, `filter.go` | `Stream` |
| merge hub | `stream/merge.go`, `frame.go` | `MergeHub` |
| rendering, logging, command line, MCP client, generated SQL | `streamrender/`, `logging/`, `cmd/`, `internal/` | none |

How they interact: StartRequest plans a request, registers a runner and submits
it to the queue, which calls StartManaged on it when a slot is free. The managed
goroutine of the runner polishes the plan, has it reviewed, launches the engine
and completes it; the engine runs the stages of the nodes' agents, each a
conversation with a model. Engine and lifecycle append their records to the
runner store and announce phases and node events on the runner's stream, which is
merged into the request's stream, which is persisted in the request's event log.
The lifecycle listens to its own stream: Done is closed by an observer of phase
events and by nothing else. The orchestrator waits for Done to give the slot back.

What makes this hard, and what the properties are aimed at: several goroutines
that write the phase without looking at it, events dropped by full subscriber
buffers or replayed after they are stale, cancellation at any moment, a state and
its announcement that are two steps, errors in the middle of a step of several
parts, files shared by processes that each cache a part of them, crashes between
their bytes, and two stores that are to say the same. `PROJECT.json` lists these
hazards at the lines where they bite.

## Modules

A step of a model is what happens between two points where another goroutine can
run: a critical section, or what follows it up to the next one.

### RunnerEngine: the event loop

One goroutine owns the graph and selects over new nodes, results, snapshot
requests and its context; each executing node has a goroutine that hands its
result to `resultCh`. The state is that of `runEngine`'s local variables: `nodes`,
`pendingParents`, `outputs`, `activeCount`, plus the capacity-1 `addNodeCh`, the
status, and where each node goroutine stands. An action is one case of the
select in full: `HandleResult` takes a result, adds the dynamic nodes that came
with it, decrements the children's counters, starts the ready ones and reports
idle when nothing is active. Every persisted step of a case can fail
(`HandleAddFails`, `HandleResultAddFails`, `HandleResultLateFails`), which leaves
the graph as far as the code had got and stops the loop. Outputs are a set of
ids, a `Parents` slice is a set, `children` is the inverse of `Parents`, snapshots
change nothing. `MaxAdds` bounds calls of AddNodes by others than `launchEngine`.

### RunnerLifecycle and RunnerPhases: phases and who writes them

The goroutines of one runner: the managed lifecycle (or, in bare mode, the caller
of Start), a polish stage per plan, the engine with `settle`, the settle observer
and a caller of Abort or Complete. Setting the phase, reading it for the
announcement and emitting the announcement are three steps, as they are in
`transitionPhase` and `emitPhaseChangedEvent`. `pc` says where a goroutine
stands, `err` which error it holds. Subscriptions are drop-newest buffers of
`ObserverBuf` and `WaiterBuf` events (32 and 8 in the code). The observer only
counts events, it reads the phase again after each; `events` keeps the oldest
announcements, as many as a replay into the waiter's buffer can deliver. The event
loop is reduced to its outcomes, planner and agents to success or failure, a store
append to whether it fails. `Setups` gives the ways a runner may be built and
driven; one is chosen in Init. `RunnerPhases` is the documented phase diagram with
the rule that Done closes, once, in the terminal phase.

### RunnerQueue: slots and the start queue

`Collect` is `collectStartableLocked`: it pops entries in order while slots are
free, skipping canceled ones, and every action that frees a slot or an entry
performs it before it unlocks. The entries it returns are then started
concurrently with everything else: `call` holds where each call of
`startManagedRunner` stands, for submissions, dispatches and StartRunner. The
runner is reduced to the stages the orchestrator can tell apart. The entries one
dispatch returns are started one after the other in the code and independently in
the model, which only adds behaviours. Two ways in which a runner's Done is never
closed are in the model, because the slot waits for it: the settle observer leaves
with the request's context (`ObserverLeaves`, `left`), and an Abort while agents
polish is overwritten (the life `stuck`).

### Request, Registry, Describe: a request and its log

A request passes from StartRequest through planning and the building of a runner
to its last frame. Frames go through a bounded subscription (`channel`), an
unbounded queue and the log, each moved by its own goroutine (`drain`, `persist`);
a frame that finds the subscription full is dropped and sets `lossy`. The planner's
and the runner's events reach the stream through a merge each (`merged`), one head of
every upstream per `Tick`. Nothing holds an emitter back: a subscription of a merge
that is full drops the newest events, a FIFO that is full ends the merge
(`MergeOverflows`), and `missed` records whether the event that ends the request was
among them. `depth` is the capacity of either (4096 in the code). `Registry` is
AddSkills, RemoveSkills, SetOrchestratorSkill and AddMCPServers with their critical
sections, while the request starts. `Describe` is the fold over the log, resumed
from a cursor. `Budgets` gives the plans, buffers and artifacts of a world and bounds
its calls, faults, cancellations and describes.

### Conversation and Turns: the tool loop

`Turns` holds the edits of a turn list as operators: appending, shrinking, trimming
tool outputs, compressing, truncating. `Conversation` is Run's loop of responses
and tool calls, the approval a tool may need, the event log it writes to every
session store, and opening the session again, after a crash too. An opening can be
refused, by a store that cannot be read or by a tool the session needs
(`OpenRefused`), and a truncation can fail in any store or in the read that follows
it. `shed` are the calls that the shrink of their own response may drop.

### NodeRun, Paths, PlanText, FileTools: what a runner does with its agents

`NodeRun` binds agents to sessions, policies and directories, takes them through
polish, review, execution and report, and delivers handoffs to children. A bind is
three steps, as it is in the code: the read of the policies, which `toolSetMu`
protects, their write to the agent, which nothing protects, and the bind proper under
`skillSessionMu`; `bind` says where the driver and a caller of a Start that will be
refused stand in theirs. A session keeps the instructions and tools of the skill that
opened it, and binding fails when a directory is gone or a tool is missing. `Paths`
resolves links and decides what tools may reach; `FileTools` are the builtin tools
that change files; `PlanText` finds and reads the object in a planner's reply. A
path is a sequence of elements, a text a sequence of tokens.

### RunnerStore, SessionStore and their logs

Files are sequences of lines; a line holds a record or is undecodable, has a
length, and may lack its newline. A process runs one Append at a time: open, flock,
decide whether the cache is valid, scan or trust it, number the record, write,
sync, refresh the cache, release. Between processes only flock orders these steps.
`WriteTorn` is a write that reaches the file in part, `SyncFails` a record that is
in the file though its Append failed, `Crash` drops a process's cache, call and
lock; Delete removes the path while others may have the file open, and Truncate
of a session renames a new file over it. Durability of the directory entry is not
modelled. `RunnerLog` and `SessionLog` are the abstract logs: numbers from 1
without gaps, one init record first.

### SqlStore, Tables, EventQueries: the durable backends

`Tables` says what a statement does to the tables, `SqlStore` runs calls of several
callers as the backends do: striped locks, transactions with retries on SQLite,
advisory locks on Postgres, failing statements, canceled contexts, the mirror that
is written after the primary, Close. The rollback of a canceled append uses the
canceled context and may not happen: its connection goes back to the pool inside the
transaction (`TxLeaks`, `pending`), and a later call may get it (`StepAdrift`) or the
pool may close it. `EventQueries` compares the filters that are
pushed down into SQL with the ones they stand for. A scenario says which backend
it is and which call each caller makes.

### Stream: one stream and its subscriptions

`deliveryMu` (`holder`) serialises Emit, Subscribe and the last part of Cancel and
Close; `mu` is held within single steps. A delivery is one step per logical event
and per outcome of the select in `send` and `sendExpanded`. Readers, `closeDone`
of Cancel and of Close act in between. A frame is a plain event or a merge bundle
with nested events; a filter is the set of kinds it wants. Producers that wait
for `deliveryMu` have no state, so that one action stands for all of them. Events
that `prepare` refuses, and bundles that do not decode, are left out. `got`, `first`
and `missed` are history.

### MergeHub: hub-mode merges into one stream

Every merge has a feeder (`pc`), every hub a goroutine (`ticker`). Getting a hub and
registering with it are two steps, finding the hub idle and canceling it are two,
popping a tick and emitting it are two. An upstream is the sequence of its events'
join keys and closes after the last one. The downstream is its closed flag and what
it accepted of each upstream; Emit may fail when the stream is closed, when a
subscriber overflows (`MayOverflow`) and when the hub is canceled. The module is not
composed with `Stream` state by state: the two share no lock except inside Emit,
which is one step here. Direct forwarding (`mergeFrom`) is reached by tests only.

## What is checked

Passing runs:

| run | instance | shows |
|---|---|---|
| `engine_diamond` | four nodes in a diamond, the fourth from an agent or AddNodes, one extra call | nodes start once, after their parents; a waiting node has a parent without output; idle is reported exactly when nothing is owed and then everything is complete; nodes complete, cancellation stops the loop, and no node goroutine is left blocked |
| `lifecycle` | a managed runner with a replan and a bare one, undisturbed; managed ones that are aborted or canceled at any moment; buffers of 1 | Done closes, only when no polisher and no engine will write again, and with an error after a failure; reviews and execution see the current plan's fragments; no execution after an error was captured; the phase walks the documented diagram (refinement of `RunnerPhases`); everything ends |
| `queue_slots` | three requests, two priorities, one slot; one canceled, one removed, one started past the queue | the limit holds for the runners only the queue starts, no slot idles, dropped runners never run; grants go by priority and arrival; requests end and slots come back, except for runners whose Done is never closed |
| `store` | two processes with crashes; one with torn writes and Delete; sessions with Truncate, whole and torn | a torn last line alone costs no acknowledged record; where writes are whole, both stores refine the logs of their interfaces |
| `stream_readers` | an expanding subscriber with buffer 1 that asks for overflow errors, and a raw one with buffer 0 that drops; two frames, replay buffer 1; emits that fail half way | no send on a closed channel; replay and live events without gap, repetition or reordering; every reader ends after Close |
| `merge_shared` | two merges with one identity, three events and one; queue depth 2; one may be stopped, the downstream closed | registrations are counted exactly; events leave their queue once, in order and before Done, and are emitted in order while the ticker alone flushes; merges, hub and Close end |
| `conversation_session` | two session stores, an MCP tool that asks for approval and a tool that is off; store faults, crashes, refused openings, truncation | resuming restores the turns; requests are well formed; MCP results stay out of the stream unless the response's own shrink dropped the call; approval comes before use; Run ends |
| `request_log` | two users' skills of one name, good, bad and cyclic plans, a full subscription, a merge that overflows, another subscriber's overflow error, a fault, a cancellation, a reader | the log is what was emitted, in order; a describe tells how the request ended; resuming equals replaying; planner and user skills stay; the log's goroutines end, or wait with nothing left to write when the frame that ends the request is lost or never comes |
| `sql_store` | twelve scenarios of four to six calls on SQLite and Postgres, with faults, cancellations, deletes, a leaked connection, Close, and 432 event queries | acknowledged data is stored; logs are whole; the mirror follows; pushed-down filters are exact; calls return |
| `node_run` | thirteen scenarios: a join, declared artifacts, directories that disappear, a replan with other skills, dynamic nodes, replies of many forms; a fault, policy changes, refused Starts, or a cancellation | handoffs are delivered before a child executes; artifacts are reachable; a node runs under the policies accepted when it was started; sessions continue; a review decides what the reply says |

Disagreements between the code and what it says of itself, one run each:

| run | the code |
|---|---|
| `store_lost_record` | an append behind a torn line is acknowledged and lost |
| `upstream_unreadable` | the link to a parent's handoff leads outside the directories the node's tools accept |

Three more have a configuration that exhibits them but belong to no listed run:

- `StreamOverflow.cfg`: a replay that overflows under OverflowError makes Subscribe
  wait for the lock it holds (`SubscribeEnds`; `stream/stream.go:244`).
- `MergeHubLost.cfg`: a merge that joins a hub just before it is found idle ends
  without an event and without an error (`NothingIsLost`; `stream/merge.go:95`,
  which says that events are forwarded).
- `RequestCycle.cfg`: a plan with a cycle next to a node that can run settles as
  carried out (`ReportMeansRan`; `orchestrator/request.go:483`, `runner/types.go:127`).

Others that the models contain, and that their properties therefore exempt or do
not claim:

- Runner: an Abort during polishing is overwritten by the polish goroutine, Done stays
  open and the slot is kept (`runner/lifecycle.go:364`). The settle observer leaves
  with the context the runner was built with, so that a request canceled after its
  start does the same (`runner/runner.go:457`). Abort publishes the settled phase
  before its error; a Complete before `cancelEngine` is assigned cancels nothing; a
  clean completion leaves `canceled` as the last persisted status, and takes the error
  of an agent that wraps `context.Canceled` for its own; acceptAndComplete waits for
  its context after a failed prelude; AddNodes reports success for a batch the loop
  never reads; StartRunner on a queued runner takes no slot.
- JSON stores: a log deleted and re-created by another process is numbered from the
  old one's cache; a record above the scanner's 8 MiB limit is written and can never
  be read; two processes that truncate one session lose each other's file, and
  Truncate does not sync the file it renames (`llm/session.go:81`). In the worlds with
  Delete or Truncate one process at a time is alive. A torn line of the JSON event log
  fails every load; a cursor can go backwards.
- SQL stores: deletes, cursor and catalog statements do not retry on a locked
  database. On Postgres a Delete between an append's read and its insert leaves a log
  without its first records, and the mirror differs
  (`store/internal/postgres/runner_store.go:155`). On SQLite the connection of an
  append canceled in its transaction may serve others: what they are told is stored
  is not, and the mirror may be ahead (`sqlite/runner_store.go:64`).
- Requests: a canceled request may leave a log without a terminal frame. A terminal
  event that is lost, at the full subscription of the log or in a merge that
  overflows, leaves both goroutines of the log waiting for the context, and so does a
  plan in which every node waits for another. A subscriber with OverflowError makes
  Emit give up before it reaches the log. AddSkills may use a stale list of MCP
  servers.
- Conversation: trimming and compressing may strand the output of a call that was not
  the last item of its response. The result body of an MCP tool is emitted when the
  shrink after the response drops the call, which needs `KeepTurns` items behind it.
- Agents: in a workspace a dynamically added node always fails. A Start that is
  refused binds every agent again: it may take an executing agent's artifact
  directories from it, or put back policies that were replaced since it read them. A
  replan that gives a node another skill resumes the old skill's instructions, or fails
  when a tool is missing. A brace in the words before the object makes a planner's
  reply unreadable (`runner/plan.go:49`). A Complete while nodes execute lets the
  report stage overwrite a handoff.
- Merges: a flush of a draining feeder can overtake one of the ticker, and be emitted
  after Done.

### Bounds

One slot and three requests make every request wait for every other, with a
newcomer arriving during each step of a dispatch; the proofs cover any number. The
diamond has a node with two parents, a node with two children and a late node that
may depend on either. One replan is enough for events and fragments of an earlier
plan to be around in a later one. Buffers of 1 are below the number of phase
changes, so events are dropped; the code's 32 and 8 are reached only by runners
with many replans. Two processes and four appends give a cached process that
another overtakes, twice. With two frames and a replay buffer of one, the buffer is
trimmed and a subscriber can catch up on one frame while it misses the other. Three
events of which two join, at depth 2, give joined ticks, a tick that leaves events
behind and a full queue. A conversation of two or three responses with up to two tool
calls each is longer than what the shrinking keeps (`KeepTurns` 2, `KeepOutputs` 1), so
that outputs are dropped, turns trimmed and compressed, and a call is dropped before
it is answered. A merge of depth 2 is overrun by the events of a plan with one node.
The scenarios of `sql_store` set appends against appends, deletes, loads, events and
Close, on either backend, and the catalog calls against each other; other pairs, such
as a cursor and a catalog call, share nothing but the database's lock and are not all
there. `node_run`'s plans have parents that write a handoff, that declare artifacts,
or both, and one node that gets none.

### Fairness

Every goroutine that can run eventually does (weak fairness per goroutine, which
Go's scheduler gives), and agents, planner, models and node executions are assumed
to return, so liveness is relative to that. The event loop's `select` picks ready
cases at random, so a done context is chosen eventually even when others are ready
again and again: strong fairness of that case. A waiter for `deliveryMu` gets it
although others take it in between (Go's mutexes do not starve): strong fairness of
its step. Readers keep reading, hub tickers keep firing, upstreams end, a user
answers approvals, calls of the SQL store make progress. Nobody has to cancel, abort,
remove, complete, describe or start anything. Deadlock checking is off where a
system may come to its end; `node_run` has a terminal step of its own.

## What is proved

For every value of the constants, with the assumptions named in the modules and no
others. Each property below is also an invariant or a property of a run.

- `RunnerEngineProofs` (any finite graph, initial plan and sequence of additions):
  `TypeCorrect`; `StartsAreRight`, a node starts once and after its parents;
  `NoLostWakeup`; `IdleCanBeTrusted`. None is inductive. `IndInv` adds what ties
  the counters to the graph: `pendingParents[n]` is the number of parents of n
  without output, `activeCount` the number of goroutines still owed, a started node
  has all its parents' outputs, and outputs are those of received results. There is
  one lemma per case of the select; `MakesReady` says which nodes a result makes
  ready. Idle means complete because of acyclicity: were a node left, some node
  without output would have all its parents done, and would have been started.
- `RunnerQueueProofs` (any requests, priorities and slots): `SlotsHold`, the limit
  holds, no slot idles, and dropped runners never run; `SlotsGoInOrder`, an action
  property. `SlotInv` says that no slot is free while an entry is startable and that
  `running` is within the limit; its core is what one dispatch leaves behind
  (`CollectSlots`). `WorkInv` follows one runner: where its calls stand, whether it
  is queued, holds a slot or was dropped.
- `RunnerLifecycleProofs` (any number of plans, any buffers): `DoneStaysFinal`,
  `ReviewsAreCurrent` and `PhasesStayLegal`, the last of which is an action property
  and the refinement of `RunnerPhases`. The invariant is `IInv`: types, a polisher
  for every plan and none ahead of its plan; `ErrInv`, where errors are: who aborts
  holds one, a pending runner has captured none, and a runner that settles or is
  done has captured one, is being handed one, or had a clean end; and, for runners
  nobody disturbs, `Calm`. Its core `PhaseInv` is a table that says for each phase
  where the managed goroutine, the current plan's polisher and the engine stand;
  around it are what the fragments are (`PolishInv`), that the engine boots only a
  pending runner (`EngineInv`), that what was heard from the engine is still so
  when it is acted upon (`ListenInv`), and that only the observer closes Done
  (`OutsideInv`). Buffers do not occur in it: dropped and stale events are harmless
  because everybody reads the phase again. The assumption on setups is that a
  managed runner has polishers and that goroutines have different names.
- `StreamProofs` (any subscriptions, frames and buffers): `NeverSendsOnClosed`.
  `LockInv` adds that only the holder of `deliveryMu` has deliveries under way, that
  they go to attached subscriptions, which are open, and that none attaches twice.
- `MergeHubProofs` (any merges, hubs and events): `CounterIsExact`. `RegInv` adds
  that a started merge has a hub; in `LeaveUncounts` it follows that the guard
  `pendingRegistrations > 0` never hides a miscount.
- `ConversationProofs` (any tools, policies, responses and faults): `GateHolds`,
  approval before use. `GateInv` says that a tool that needs approval is gated in
  the bound policy map or was granted for the session.
- `RequestProofs` (any skills, planners, plans and buffers): `RegistryIsKept`, whose
  invariant is that the latch is set before the first planning call and that a
  batch under way never displaces a user's skill; `LogStaysFaithful`. `FaithInv`
  says that log, queue and subscription hold emitted frames in order (`OrderInv`),
  without a gap as long as nothing was lost (`GapInv`), and that the last one queued
  ended the request (`EndInv`).
- `SqlStoreProofs` (any callers, runners, faults, on both backends): `AckedStaysStored`,
  `LogsStayWhole`, `MirrorKeepsUp`. An append in its transaction holds what excludes
  the others (`TxInv`), so that what it read is still true when it inserts (`SeenInv`),
  unless the log is in `torn`, which stays empty on SQLite (`TornInv`); a call that has
  reached the mirror is in the primary (`StoredInv`). For the mirror, `Tracks` relates a
  log and its copy to the appends and deletes the copy is still to see: the copy
  follows, or an append will be refused there and its caller told; `LeakInv` says that
  a leaked connection means that somebody was told of an error. The theorems have the
  exemptions of the properties and no others: calls on a leaked connection, and
  Postgres logs that were deleted under an append.

Only model-checked:

- liveness, which rests on fairness: `EngineEnds`, `EverythingEnds`, `QueueDrains`,
  `ReadersEnd`, `AllEnd`, `RunEnds`, `LogEnds`, `CallsReturn`;
- what folds or recursive definitions compute, which needs induction over data:
  `OutcomeIsLogged`, `ResumeIsReplay`, `ResumeRestores`, `RequestIsWellFormed`,
  `MCPResultsStayOut`, `PushdownIsExact`, `ArtifactsAreReachable`, `ReviewMeansIt`, and
  the other properties of `NodeRun`, whose state is computed by such definitions;
- `TornTailIsHarmless` and the refinements of `RunnerLog` and `SessionLog`: what a
  scan of a file yields is recursive in its lines;
- `ReadersSeeTheLog` and `EventsPassInOrder`, whose invariants relate several
  sequences to sets of positions and are not proved.

## Not modelled

Prompt and document wording, terminal rendering, logging, flag parsing, process and
network input and output, the MCP client, code generated by sqlc, the API client and
token accounting, the memo archive, the classification of shell commands and URLs.
