------------------------------ MODULE NodeRun -------------------------------
(***************************************************************************)
(* What a managed runner does with its agents: binding them to a session,  *)
(* a tool policy and the directories of the workspace (skill_binding.go,   *)
(* tool_policy.go, workspace_binding.go), their polish, execute and report *)
(* stages (agent/stage.go), the planner's review between them, and the     *)
(* handoffs from a node to its children (channel_documents.go).            *)
(*                                                                         *)
(* Processes: the driver (runManagedLifecycle, then the engine and         *)
(* settle), one goroutine per running stage of a node, a user who sets     *)
(* policies and cancels, and a caller whose second Start is refused after  *)
(* it has already bound every agent again.  The driver and that caller     *)
(* bind an agent in the same steps, which interleave.                      *)
(***************************************************************************)
EXTENDS FileTools, PlanText

CONSTANTS Scenarios, Unmarshal

\* A scenario is [root, dirs, tools, plans, replies, budgets]: whether there is a
\* workspace root, the directories and tools each skill was registered with, the
\* plan and the one a replan gives, what the planner may reply to each review,
\* and how often what goes wrong may.  A plan is [initial, parents, skill, kind, calls, writes, artifacts, adds] over
\* its nodes; an agent is an "llm", whose model makes the calls of tools, a
\* "plain" one without a client, or a "hook", which writes files of its own.
ASSUME NodeRunAssumption ==
    \A s \in DOMAIN Scenarios :
    /\ Scenarios[s].budgets \subseteq [{"faults", "policies", "starts", "cancels"} -> Nat]
    /\ \A i \in DOMAIN Scenarios[s].plans :
         LET p == Scenarios[s].plans[i] IN
         /\ p.initial \subseteq DOMAIN p.parents
         /\ \A n \in DOMAIN p.parents : ValidateNodeID(n) /\ p.kind[n] \in {"llm", "plain", "hook"}

VARIABLES
    scenario,
    plan,       \* which of the scenario's plans the runner has
    replies,    \* what the planner will still answer
    phase,      \* RunnerPhase
    drv,        \* where the driver is
    todo,       \* nodes its prepareNodeAgents has not reached
    again,      \* the same of a Start that will be refused, with its plan
    bind,       \* the bind that each of the two is in the middle of
    r,          \* the fields of the Runner that the agents live by
    job,        \* what the engine's loop is in the middle of: nodes to add, and the
                \* node whose result it handles with the children to deliver it to
    held,       \* the runtime a node's running stage took hold of
    prompt,     \* what its model is told of other nodes: parents whose handoffs
                \* it may read, exchange documents, and the request itself
    outputs,    \* what completed nodes returned, in the engine
    events,     \* stream events about documents
    left,       \* what the budget still allows
    judged,     \* ghost: the last reply that a review decided on
    acked,      \* ghost: per skill, the last policy SetSkillCapabilityPolicy took
    said,       \* ghost: per node, what its stages said, under every plan
    due,        \* ghost: per node, acked when the policies its agent has were read
    disturbed   \* ghost: nodes bound again by a refused Start after their own bind

vars == <<scenario, plan, replies, phase, drv, todo, again, bind, r, job, held, prompt, outputs, events, left,
          judged, acked, said, due, disturbed>>

given == <<scenario, plan, replies>>
driver == <<phase, drv, todo>>
binders == <<again, bind>>
engine == <<job, outputs, events>>
ghosts == <<judged, acked, said, due, disturbed>>

Plan == scenario.plans[plan]
Nodes == DOMAIN Plan.parents
AllNodes == UNION {DOMAIN scenario.plans[i].parents : i \in DOMAIN scenario.plans}
Skills == UNION {{scenario.plans[i].skill[n] : n \in DOMAIN scenario.plans[i].skill} : i \in DOMAIN scenario.plans}

Root == <<"work", "task">>
Untold == [refs |-> {}, exchange |-> {}, request |-> FALSE]
Unbound == [gen |-> 0, policy |-> 0, roots |-> {}, speaks |-> "none", turns |-> << >>]
Agent == [cfg |-> 0, runtime |-> Unbound, paths |-> FALSE]

\* No bind is under way.
Idle == [at |-> "idle", node |-> "none", roots |-> {}, paths |-> FALSE, cfg |-> 0, due |-> 0]

\* New takes a snapshot of the skills of the plan it is given.
SnapshotSkillToolSets(p) == [s \in {p.skill[n] : n \in p.initial} |-> Agent.cfg]

Init ==
    /\ \E s \in DOMAIN Scenarios : scenario = Scenarios[s]
    /\ plan = 1 /\ replies = scenario.replies /\ phase = "created"
    /\ drv = "prepare polish" /\ todo = Plan.initial /\ again = [plan |-> 0, todo |-> {}]
    /\ bind = [driver |-> Idle, caller |-> Idle]
    /\ r = [agents |-> [n \in Nodes |-> Agent],
            toolSets |-> SnapshotSkillToolSets(Plan),
            sessions |-> << >>, workspace |-> {}, merged |-> [n \in Nodes |-> 0],
            fs |-> [dirs |-> {<< >>, <<"work">>} \cup UNION {scenario.dirs[s] : s \in Skills}, files |-> << >>, links |-> << >>],
            used |-> [n \in Nodes |-> 0], ctxDone |-> FALSE, delivered |-> {},
            pc |-> [n \in Nodes |-> "off"]]
    /\ job = [add |-> {}, from |-> "none", to |-> {}] /\ held = [n \in Nodes |-> Unbound]
    /\ prompt = [n \in Nodes |-> Untold]
    /\ outputs = << >> /\ events = {} /\ left \in scenario.budgets
    /\ judged = [means |-> "none", braced |-> FALSE, decided |-> "none"]
    /\ acked = [s \in Skills |-> 0] /\ said = [n \in AllNodes |-> << >>] /\ due = [n \in Nodes |-> 0] /\ disturbed = {}

Canceled == r.ctxDone
Spend(what) == left[what] > 0 /\ left' = [left EXCEPT ![what] = @ - 1]

\* A fault that may strike while a step works, at one of the given places
Fault(places, hit) ==
    \/ hit = "none" /\ UNCHANGED left
    \/ hit \in places /\ Spend("faults")

-----------------------------------------------------------------------------
\* Binding an agent

\* The roots a bound skill's tools may reach
WorkspaceOf(n, runtime) == [temp |-> <<"tmp", n>>, skill |-> <<"src", n>>, extra |-> runtime.roots]

\* A handoff with one bad artifact path is no handoff.
BuildHandoffDoc(d) == \A a \in d.artifacts : ValidateHandoffArtifactPath(a.path)
ParseChannelDocument(docs) == {d \in docs : BuildHandoffDoc(d)}

ResourceAllowedRoots(x) == IF x.workspace = {} THEN {} ELSE {CanonicalExistingDir(x.fs, Root)}

NodeAccessibleDirs(x, n, inputs) ==
    LET roots == ResourceAllowedRoots(x) IN
    IF roots = {} THEN {}
    ELSE AccessibleDirs(Root, n)
         \cup HandoffArtifactDirs(x.fs, ParseChannelDocument(inputs), [p \in x.workspace |-> SkillRoot(Root, p)], roots)

\* AgentRuntimePaths and nodeRuntimePaths fail for a node that the workspace was
\* not made for.
AgentRuntimePaths(x, n) == n \in x.workspace
NodeRuntimePaths(x, n) == x.workspace = {} \/ AgentRuntimePaths(x, n)

\* Mutant: an agent keeps the policies it was built with.
ApplySkillToolSetOnce(x, skill, n) == x.agents[n].cfg

\* applySkillToolSet reads the runner's snapshot, or makes one from the agent's
\* own policies, and lets go of toolSetMu before it gives them to the agent.
ApplySkillToolSet(x, skill, n) == IF skill \in DOMAIN x.toolSets THEN x.toolSets[skill] ELSE x.agents[n].cfg

\* Mutant: every bind opens a new session.
LoadSessionAnew(x, n) == [skill |-> Plan.skill[n], turns |-> << >>]

\* memorySessionStore.  A session begins with the instructions and the tools of
\* the skill that opened it.
LoadSession(x, n) == IF n \in DOMAIN x.sessions THEN x.sessions[n] ELSE [skill |-> Plan.skill[n], turns |-> << >>]
AppendSession(x, n, turn) == [x EXCEPT !.sessions[n].turns = Append(@, turn)]

\* Every directory a skill is given must be there, and the tools of the session
\* must be tools of the skill that resumes it.
CanonicalDirs(x, dirs) == \A d \in dirs : CanonicalExistingDir(x.fs, d) # Nowhere
OpenSession(x, n) == scenario.tools[LoadSession(x, n).skill] \subseteq scenario.tools[Plan.skill[n]]

\* The copies of a skill that a bind goes through.  The directories of the bind
\* come on top of the skill's own.
WithToolSetConfig(skill, cfg) == [skill EXCEPT !.policy = cfg]
SetAccessibleDirsAndBuiltinTools(skill, fs, dirs) == [skill EXCEPT !.roots = {Real(fs, d) : d \in dirs}]

\* Skill.Bind: a new conversation over what the session has, with the
\* instructions the session began with and a new event stream
Bind(skill, last, session) == [skill EXCEPT !.gen = last.gen + 1, !.turns = session.turns, !.speaks = session.skill]

AllDirs(n, b) == scenario.dirs[Plan.skill[n]] \cup b.roots
Binds(x, n, b) == CanonicalDirs(x, AllDirs(n, b)) /\ OpenSession(x, n)

\* Agent.BindForRunner: a node's session is opened by its first bind and
\* resumed by every later one.
BindForRunner(x, n, b) ==
    LET session == LoadSession(x, n)
        skill == SetAccessibleDirsAndBuiltinTools(WithToolSetConfig(Unbound, x.agents[n].cfg), x.fs, AllDirs(n, b)) IN
    [x EXCEPT !.sessions = (n :> session) @@ @,
              !.agents[n].runtime = Bind(skill, @, session),
              !.agents[n].paths = b.paths]

\* A bind begins: the runtime paths, then the read of applySkillToolSet.
Prepare(x, n, inputs) ==
    [at |-> "set", node |-> n, roots |-> NodeAccessibleDirs(x, n, inputs), paths |-> x.workspace # {},
     cfg |-> ApplySkillToolSet(x, Plan.skill[n], n), due |-> acked[Plan.skill[n]]]
Snapshot(x, n) == [x EXCEPT !.toolSets = @ @@ (Plan.skill[n] :> ApplySkillToolSet(x, Plan.skill[n], n))]

\* prepareNodeAgents of the driver, one node of the map at a time, in any order.
\* StartPolish, ReplanWith and AcceptPolishedPlan come here first.
PrepareNodeAgents(n) ==
    /\ drv \in {"prepare polish", "prepare launch"} /\ n \in todo /\ bind.driver = Idle
    /\ todo' = todo \ {n}
    /\ IF NodeRuntimePaths(r, n)
       THEN r' = Snapshot(r, n) /\ bind' = [bind EXCEPT !.driver = Prepare(r, n, {})] /\ UNCHANGED drv
       ELSE drv' = "abort" /\ UNCHANGED <<r, bind>>
    /\ UNCHANGED <<given, phase, again, held, prompt, engine, left, ghosts>>

\* The agents of a plan that was replaced meanwhile are nobody's any more.
Gone(who) == who = "caller" /\ again.plan # plan

\* The policies that were read are given to the agent, without a lock.
SetRuntimeToolSetConfig(who) ==
    LET b == bind[who] IN
    /\ b.at = "set"
    /\ bind' = [bind EXCEPT ![who].at = "bind"]
    /\ IF Gone(who) THEN UNCHANGED <<r, due>>
       ELSE /\ r' = [r EXCEPT !.agents[b.node].cfg = b.cfg]
            /\ due' = [due EXCEPT ![b.node] = IF who = "caller" THEN Min({@, b.due}) ELSE @]
    /\ UNCHANGED <<given, driver, again, held, prompt, engine, left, judged, acked, said, disturbed>>

\* bindAgentSession, under skillSessionMu.  An error ends prepareNodeAgents.
BindAgentSession(who) ==
    LET b == bind[who] IN
    /\ b.at = "bind" /\ ~(who = "driver" /\ drv = "engine")
    /\ bind' = [bind EXCEPT ![who] = Idle]
    /\ \E hit \in {"bind", "none"} :
         /\ Fault({"bind"}, hit)
         /\ IF Gone(who) THEN UNCHANGED <<drv, again, r, disturbed>>
            ELSE IF hit = "bind" \/ ~Binds(r, b.node, b)
            THEN /\ drv' = IF who = "driver" THEN "abort" ELSE drv
                 /\ again' = IF who = "caller" THEN [again EXCEPT !.todo = {}] ELSE again
                 /\ UNCHANGED <<r, disturbed>>
            ELSE /\ r' = BindForRunner(r, b.node, b)
                 /\ disturbed' = IF who = "driver" THEN disturbed \ {b.node} ELSE disturbed \cup {b.node}
                 /\ UNCHANGED <<drv, again>>
    /\ UNCHANGED <<given, phase, todo, held, prompt, engine, judged, acked, said, due>>

-----------------------------------------------------------------------------
\* The stages of an agent

Stages == {"polish", "execute", "report"}

\* upstreamHandoffReferences and exchangeReferencesMarkdown: what the agent can
\* read itself, links followed
UpstreamHandoffReferences(n) ==
    {p \in AllNodes : r.agents[n].paths /\ Real(r.fs, ChannelDir(Root, n, "upstream") \o <<p, "handoff.md">>) # Nowhere}
ExchangeReferences(n) ==
    {r.fs.files[q] : q \in {q \in DOMAIN r.fs.files : r.agents[n].paths /\ IsPrefix(Append(Root, "exchange"), q)}}

\* executionPrompt: a node that has parents is not told the request.
ExecutionPrompt(n) ==
    [refs |-> UpstreamHandoffReferences(n), exchange |-> ExchangeReferences(n),
     request |-> Plan.parents[n] = {} /\ UpstreamHandoffReferences(n) = {}]

\* polishPrompt and reportPrompt
StagePrompt(n) ==
    [refs |-> UpstreamHandoffReferences(n), exchange |-> ExchangeReferences(n), request |-> FALSE]

\* Execute, Polish and Report up to the model's answer: a canceled context ends
\* them first.  The runtime is the one bound now.
StageStart(n, stage) ==
    /\ r.pc[n] = stage
    /\ IF Canceled /\ stage # "report"
       THEN r' = [r EXCEPT !.pc[n] = stage \o " failed"] /\ UNCHANGED <<held, prompt>>
       ELSE /\ r' = [r EXCEPT !.pc[n] = stage \o " running"]
            /\ held' = [held EXCEPT ![n] = r.agents[n].runtime]
            /\ prompt' = [prompt EXCEPT ![n] = IF stage = "execute" THEN ExecutionPrompt(n) ELSE StagePrompt(n)]
    /\ UNCHANGED <<given, driver, binders, engine, left, ghosts>>

\* A tool call of a node's model, under the roots that its runtime has
ToolCall(n) ==
    /\ r.pc[n] = "execute running" /\ Plan.kind[n] = "llm" /\ r.used[n] < Len(Plan.calls[n])
    /\ r' = [r EXCEPT !.used[n] = @ + 1, !.fs = UseTool(@, WorkspaceOf(n, held[n]), Plan.calls[n][r.used[n] + 1])]
    /\ UNCHANGED <<given, driver, binders, held, prompt, engine, left, ghosts>>

WriteFiles(fs, paths, body) ==
    [fs EXCEPT !.files = [p \in paths |-> body] @@ @,
               !.dirs = @ \cup UNION {Prefixes(Front(p)) : p \in paths}]

\* The model answers, or the request fails.  A turn goes to the conversation of
\* the runtime the stage holds and to the session; an agent without a client
\* has a text of its own and a hook does not ask at all.
StageRun(n, stage) ==
    /\ r.pc[n] = stage \o " running"
    /\ stage = "execute" /\ Plan.kind[n] = "llm" => r.used[n] = Len(Plan.calls[n])
    /\ \E hit \in {"run", "none"} :
         /\ Fault({"run"}, hit)
         /\ LET asks   == Plan.kind[n] = "llm" \/ (Plan.kind[n] = "hook" /\ stage # "execute")
                hook   == Plan.kind[n] = "hook" /\ stage = "execute"
                files  == {SkillRoot(Root, n) \o p : p \in {p \in Plan.writes[n] : hook /\ r.agents[n].paths}}
                turned == [held[n] EXCEPT !.turns = Append(@, stage)]
                x      == IF asks
                          THEN [AppendSession(r, n, stage) EXCEPT !.agents[n].runtime = IF @.gen = held[n].gen THEN turned ELSE @]
                          ELSE r IN
            IF (hit = "run" /\ (asks \/ hook)) \/ (hook /\ Canceled)
            THEN r' = [r EXCEPT !.pc[n] = stage \o " failed"] /\ UNCHANGED <<held, said>>
            ELSE /\ r' = [x EXCEPT !.fs = WriteFiles(@, files, <<"work">>),
                                   !.pc[n] = stage \o (IF hook THEN " done" ELSE " answered")]
                 /\ IF asks THEN /\ held' = [held EXCEPT ![n] = turned]
                                 /\ said' = [said EXCEPT ![n] = Append(@, stage)]
                    ELSE UNCHANGED <<held, said>>
    /\ prompt' = [prompt EXCEPT ![n] = Untold]
    /\ UNCHANGED <<given, driver, binders, engine, judged, acked, due, disturbed>>

ArchiveDir(n, stage) == Root \o <<"archive", "memo", n, stage>>

\* snapshotMemos: where the files of the memo directory are copied to
SnapshotMemos(n, stage) ==
    LET memo == ChannelDir(Root, n, "memo") IN
    {ArchiveDir(n, stage) \o SubSeq(p, Len(memo) + 1, Len(p)) : p \in Below(memo, DOMAIN r.fs.files)}

\* renderStageOutputs: handoff.md, then the exchange document, then the memo
\* snapshots; an error leaves what was written before it.  A memo directory that
\* the model deleted is such an error.
RenderStageOutputs(n, stage) ==
    /\ r.pc[n] = stage \o " answered"
    /\ \E hit \in {"handoff", "exchange", "memo", "none"} :
         /\ IF ~r.agents[n].paths THEN hit = "none" /\ UNCHANGED left
            ELSE IF ChannelDir(Root, n, "memo") \notin r.fs.dirs THEN hit = "memo" /\ UNCHANGED left
            ELSE Fault({"handoff", "exchange", "memo"}, hit)
         /\ LET handoff  == {Append(ChannelDir(Root, n, "downstream"), "handoff.md")}
                exchange == {Root \o <<"exchange", stage \o "-" \o n>>}
                written  == (IF hit # "handoff" THEN handoff ELSE {})
                            \cup (IF hit \in {"memo", "none"} THEN exchange ELSE {})
                            \cup (IF hit = "none" THEN SnapshotMemos(n, stage) ELSE {}) IN
            r' = [r EXCEPT !.fs = IF r.agents[n].paths THEN WriteFiles(@, written, <<stage, n>>) ELSE @,
                           !.pc[n] = stage \o (IF hit = "none" THEN " done" ELSE " failed")]
    /\ UNCHANGED <<given, driver, binders, held, prompt, engine, ghosts>>

\* What a stage returns, as a document; a hook's execution is the only one that
\* declares artifacts.
Output(n, stage) ==
    [from |-> n, stage |-> stage, artifacts |-> IF stage = "execute" THEN Plan.artifacts[n] ELSE {}]

Event(type, n, stage) == [type |-> type, node |-> n, stage |-> stage]

HandoffEvents(n, stage, d) ==
    {Event("handoff.emitted", n, stage)} \cup {Event("artifact.created", n, stage) : a \in d.artifacts}

EmitMemoSnapshotEvent(n, stage) ==
    {Event("memo.snapshot", n, stage) : p \in {q \in DOMAIN r.fs.files : r.workspace # {} /\ IsPrefix(ArchiveDir(n, stage), q)}}

\* emitChannelDocumentEvents, then the memo snapshot
DocumentEvents(n, stage) ==
    UNION {HandoffEvents(n, stage, d) : d \in ParseChannelDocument({Output(n, stage)})} \cup EmitMemoSnapshotEvent(n, stage)

\* One goroutine of a fan-out ends.
FanOut(n, stage, done) ==
    /\ r.pc[n] = stage \o " done"
    /\ events' = events \cup DocumentEvents(n, stage)
    /\ r' = [r EXCEPT !.pc[n] = done]
    /\ UNCHANGED <<given, driver, binders, held, prompt, job, outputs, left, ghosts>>

FanOutPolish(n) == FanOut(n, "polish", "polished")
FanOutReport(n) == FanOut(n, "report", "reported")

-----------------------------------------------------------------------------
\* The driver up to execution

\* StartPolish and ReplanWith once the agents are bound
StartPolish ==
    /\ drv = "prepare polish" /\ todo = {} /\ bind.driver = Idle
    /\ drv' = "polish" /\ phase' = "polishing"
    /\ r' = [r EXCEPT !.pc = [n \in Nodes |-> IF n \in Plan.initial THEN "polish" ELSE "off"]]
    /\ UNCHANGED <<given, todo, binders, held, prompt, engine, left, ghosts>>

\* runPolishStage after its wait: one failed polish aborts the runner.
PolishEnds ==
    /\ drv = "polish" /\ \A n \in Plan.initial : r.pc[n] \in {"polished", "polish failed"}
    /\ IF \E n \in Plan.initial : r.pc[n] = "polish failed"
       THEN drv' = "abort" /\ UNCHANGED phase
       ELSE drv' = "review" /\ phase' = "awaiting_review"
    /\ UNCHANGED <<given, todo, binders, r, held, prompt, engine, left, ghosts>>

\* reviewPolishedPlan: a reply that cannot be read is asked for once more.
ReviewPolishedPlan ==
    /\ drv \in {"review", "retry"} /\ replies # << >>
    /\ replies' = Tail(replies)
    /\ \E reply \in Head(replies) : LET verdict == ParsePlannerReviewOutput(reply.raw, Unmarshal) IN
       /\ judged' = [means |-> reply.means, braced |-> reply.braced, decided |-> verdict]
       /\ drv' = CASE verdict = "approve" -> "prepare launch"
                   [] verdict = "reject"  -> "reject"
                   [] OTHER               -> IF drv = "review" THEN "retry" ELSE "abort"
       /\ todo' = IF verdict = "approve" THEN Plan.initial ELSE todo
    /\ UNCHANGED <<scenario, plan, phase, binders, r, held, prompt, engine, left, acked, said, due, disturbed>>

RejectPolishedPlan ==
    /\ drv = "reject" /\ drv' = "replan" /\ phase' = "awaiting_replan"
    /\ UNCHANGED <<given, todo, binders, r, held, prompt, engine, left, ghosts>>

\* replanPolishedPlan, up to where ReplanWith binds the agents of the new plan:
\* they are new ones, and their nodes keep their sessions.
ReplanPolishedPlan ==
    /\ drv = "replan" /\ plan < Len(scenario.plans)
    /\ plan' = plan + 1 /\ drv' = "prepare polish" /\ todo' = scenario.plans[plan + 1].initial
    /\ LET new == DOMAIN scenario.plans[plan + 1].parents IN
       /\ r' = [r EXCEPT !.agents = [n \in new |-> Agent], !.merged = [n \in new |-> 0], !.used = [n \in new |-> 0],
                         !.pc = [n \in new |-> "off"]]
       /\ held' = [n \in new |-> Unbound] /\ prompt' = [n \in new |-> Untold] /\ due' = [n \in new |-> 0]
    /\ disturbed' = {}
    /\ UNCHANGED <<scenario, replies, phase, binders, engine, left, judged, acked, said>>

\* The planner's run fails, the context ends while the driver waits, or a step
\* of it returned an error.
Abort ==
    /\ bind.driver = Idle
    /\ \/ drv = "abort" /\ UNCHANGED left
       \/ drv \in {"review", "retry", "replan"} /\ Spend("faults")
       \/ drv = "replan" /\ plan = Len(scenario.plans) /\ UNCHANGED left
       \/ drv \in {"prepare polish", "polish", "review", "retry", "replan"} /\ Canceled /\ UNCHANGED left
    /\ drv' = "end" /\ phase' = "settled" /\ todo' = {}
    /\ UNCHANGED <<given, binders, r, held, prompt, engine, ghosts>>

-----------------------------------------------------------------------------
\* The engine

Stopped == drv' = "end" /\ phase' = "settled"

\* prepareEngineLaunch after the agents are bound, and provisionWorkspace for
\* the initial nodes
LaunchEngine ==
    /\ drv = "prepare launch" /\ todo = {} /\ bind.driver = Idle
    /\ \E hit \in {"provision", "none"} :
         /\ Fault({"provision"}, hit)
         /\ IF hit = "provision" THEN Stopped /\ UNCHANGED <<job, r>>
            ELSE /\ drv' = "engine" /\ phase' = "executing"
                 /\ job' = [job EXCEPT !.add = Plan.initial]
                 /\ r' = IF scenario.root THEN [r EXCEPT !.workspace = Plan.initial,
                                                        !.fs = ProvisionWorkspace(@, Root, Plan.initial)]
                         ELSE r
    /\ UNCHANGED <<given, todo, binders, held, prompt, outputs, events, ghosts>>

\* The engine's loop is not in the middle of starting a node.
Free == drv = "engine" /\ bind.driver = Idle

\* runNode, up to where prepareNodeAgent has read the policies; the parents'
\* handoffs are its inputs.
RunNode(x, n) ==
    IF ~NodeRuntimePaths(x, n) THEN Stopped /\ r' = x /\ UNCHANGED <<bind, due>>
    ELSE /\ bind' = [bind EXCEPT !.driver = Prepare(x, n, {outputs[p] : p \in Plan.parents[n]})]
         /\ r' = [Snapshot(x, n) EXCEPT !.pc[n] = "preparing"]
         /\ due' = [due EXCEPT ![n] = acked[Plan.skill[n]]]
         /\ UNCHANGED <<phase, drv>>

\* The loop goes on with x and starts no node.
GoOn(x) == r' = x /\ UNCHANGED <<phase, drv, bind, due>>

\* prepareNodeAgent under skillSessionMu: the bind, and the merge of the new stream
PrepareNodeAgent ==
    LET b == bind.driver IN
    /\ drv = "engine" /\ b.at = "bind"
    /\ \E hit \in {"bind", "none"} :
         /\ Fault({"bind"}, hit)
         /\ IF hit = "bind" \/ ~Binds(r, b.node, b)
            THEN Stopped /\ bind' = [bind EXCEPT !.driver = Idle] /\ UNCHANGED <<r, disturbed>>
            ELSE /\ bind' = [bind EXCEPT !.driver.at = "start"]
                 /\ r' = LET x == BindForRunner(r, b.node, b) IN [x EXCEPT !.merged[b.node] = x.agents[b.node].runtime.gen]
                 /\ disturbed' = disturbed \ {b.node}
                 /\ UNCHANGED <<phase, drv>>
    /\ UNCHANGED <<given, todo, again, held, prompt, engine, judged, acked, said, due>>

\* The rest of runNode: the state and the event are stored, then the node's
\* goroutine starts.
NodeStarted ==
    LET b == bind.driver IN
    /\ drv = "engine" /\ b.at = "start"
    /\ bind' = [bind EXCEPT !.driver = Idle]
    /\ \E hit \in {"record", "none"} :
         /\ Fault({"record"}, hit)
         /\ IF hit = "record" THEN Stopped /\ UNCHANGED r
            ELSE r' = [r EXCEPT !.pc[b.node] = "execute"] /\ UNCHANGED <<phase, drv>>
    /\ UNCHANGED <<given, todo, again, held, prompt, engine, ghosts>>

Known == {n \in Nodes : r.pc[n] \notin {"off", "polished"}}
Waits(n) == \E p \in Plan.parents[n] : p \notin DOMAIN outputs

\* addNodesInternal, for the initial nodes or for those a node returned
AddNode(n) ==
    /\ Free /\ n \in job.add
    /\ job' = [job EXCEPT !.add = @ \ {n}]
    /\ IF n \in Known THEN GoOn(r)
       ELSE IF Waits(n) THEN GoOn([r EXCEPT !.pc[n] = "waiting"])
       ELSE RunNode(r, n)
    /\ UNCHANGED <<given, todo, again, held, prompt, outputs, events, left, judged, acked, said, disturbed>>

\* The loop is back at its select.
Selecting == Free /\ job.add = {} /\ job.to = {} /\ job.from \in DOMAIN outputs \cup {"none"}

\* The engine takes a node's result: the nodes it returned are added first,
NodeResult(p) ==
    /\ Selecting /\ r.pc[p] = "execute done"
    /\ job' = [add |-> Plan.adds[p], from |-> p, to |-> {}]
    /\ r' = [r EXCEPT !.pc[p] = "executed"]
    /\ UNCHANGED <<given, driver, binders, held, prompt, outputs, events, left, ghosts>>

\* then its output counts and its documents are announced,
NodeCompleted(p) ==
    /\ Free /\ job.from = p /\ job.add = {} /\ p \notin DOMAIN outputs
    /\ outputs' = (p :> Output(p, "execute")) @@ outputs
    /\ events' = events \cup DocumentEvents(p, "execute")
    /\ job' = [job EXCEPT !.to = {n \in Known : p \in Plan.parents[n]}]
    /\ UNCHANGED <<given, driver, binders, r, held, prompt, left, ghosts>>

\* Mutant: only the parent that a child was still waiting for hands over.
DeliverHandoffLast(x, p, n) ==
    IF x.workspace = {} \/ Waits(n) THEN x ELSE [x EXCEPT !.fs = Handoff(@, Root, p, n), !.delivered = @ \cup {<<p, n>>}]

\* and each child is given the handoff and started when it waits for no other.
\* Without a workspace there is nothing to give.
DeliverHandoff(x, p, n) ==
    IF x.workspace = {} THEN x
    ELSE [x EXCEPT !.fs = Handoff(@, Root, p, n), !.delivered = @ \cup {<<p, n>>}]

\* A node that the workspace was not made for cannot be given anything.
DeliverHandoffToSuccessor(n) ==
    /\ Free /\ n \in job.to
    /\ job' = [job EXCEPT !.to = @ \ {n}]
    /\ IF r.workspace # {} /\ n \notin r.workspace THEN Stopped /\ UNCHANGED <<r, bind, due>>
       ELSE LET x == DeliverHandoff(r, job.from, n) IN IF Waits(n) THEN GoOn(x) ELSE RunNode(x, n)
    /\ UNCHANGED <<given, todo, again, held, prompt, outputs, events, left, judged, acked, said, disturbed>>

Active == {n \in Nodes : r.pc[n] \in {"execute", "execute running", "execute answered", "execute done", "execute failed"}}

\* A failed node stops the engine, and so does the end of its context; the
\* goroutines of other nodes go on and nobody takes their results.
EngineStops ==
    /\ \/ Selecting /\ (Canceled \/ \E n \in Nodes : r.pc[n] = "execute failed")
       \/ Free /\ Canceled /\ job = [add |-> Plan.initial, from |-> "none", to |-> {}]
    /\ Stopped
    /\ UNCHANGED <<given, todo, binders, r, held, prompt, engine, left, ghosts>>

\* EventEngineIdle, Complete and settle, up to the goroutines of fanOutReport
Complete ==
    /\ Selecting /\ Active = {}
    /\ drv' = "report" /\ phase' = "report"
    /\ r' = [r EXCEPT !.pc = [n \in Nodes |-> IF n \in DOMAIN outputs THEN "report" ELSE @[n]]]
    /\ UNCHANGED <<given, todo, binders, held, prompt, engine, left, ghosts>>

ReportEnds ==
    /\ drv = "report" /\ \A n \in DOMAIN outputs : r.pc[n] \in {"reported", "report failed"}
    /\ Stopped
    /\ UNCHANGED <<given, todo, binders, r, held, prompt, engine, left, ghosts>>

-----------------------------------------------------------------------------
\* Callers

\* SetSkillCapabilityPolicy needs a snapshot; a policy is the number of the call.
SetSkillCapabilityPolicy(skill) ==
    /\ phase # "settled" /\ Spend("policies")
    /\ LET policy == 1 + Max({acked[s] : s \in Skills}) IN
       IF skill \in DOMAIN r.toolSets
       THEN r' = [r EXCEPT !.toolSets[skill] = policy] /\ acked' = [acked EXCEPT ![skill] = policy]
       ELSE UNCHANGED <<r, acked>>
    /\ UNCHANGED <<given, driver, binders, held, prompt, engine, judged, said, due, disturbed>>

Cancel ==
    /\ phase \in {"polishing", "awaiting_review", "awaiting_replan", "executing"} /\ Spend("cancels")
    /\ r' = [r EXCEPT !.ctxDone = TRUE]
    /\ UNCHANGED <<given, driver, binders, held, prompt, engine, ghosts>>

\* r.initialNodes: ReplanWith binds the agents of a new plan before it takes the
\* plan over.
InitialNodes == IF phase = "awaiting_replan" /\ drv # "replan" THEN plan - 1 ELSE plan

\* Start on a runner that has left PhaseCreated: prepareEngineLaunch binds every
\* agent of the plan before it looks at the status and the phase.
StartAgain ==
    /\ phase \notin {"created", "settled"} /\ again.todo = {} /\ Spend("starts")
    /\ again' = [plan |-> InitialNodes, todo |-> scenario.plans[InitialNodes].initial]
    /\ UNCHANGED <<given, driver, bind, r, held, prompt, engine, ghosts>>

StartAgainBinds(n) ==
    /\ n \in again.todo /\ bind.caller = Idle
    /\ again' = [again EXCEPT !.todo = IF Gone("caller") \/ NodeRuntimePaths(r, n) THEN @ \ {n} ELSE {}]
    /\ IF Gone("caller") \/ ~NodeRuntimePaths(r, n) THEN UNCHANGED <<r, bind>>
       ELSE r' = Snapshot(r, n) /\ bind' = [bind EXCEPT !.caller = Prepare(r, n, {})]
    /\ UNCHANGED <<given, driver, held, prompt, engine, left, ghosts>>

-----------------------------------------------------------------------------
Work ==
    \/ StartPolish \/ PolishEnds \/ ReviewPolishedPlan \/ RejectPolishedPlan \/ ReplanPolishedPlan \/ Abort \/ LaunchEngine
    \/ PrepareNodeAgent \/ NodeStarted \/ EngineStops \/ Complete \/ ReportEnds
    \/ SetRuntimeToolSetConfig("driver") \/ BindAgentSession("driver")
    \/ \E n \in Nodes : \/ PrepareNodeAgents(n) \/ FanOutPolish(n) \/ FanOutReport(n)
                       \/ ToolCall(n) \/ AddNode(n) \/ NodeResult(n) \/ NodeCompleted(n) \/ DeliverHandoffToSuccessor(n)
    \/ \E n \in Nodes, stage \in Stages : StageStart(n, stage) \/ StageRun(n, stage) \/ RenderStageOutputs(n, stage)

\* Any other state without a step would be a runner that hangs.
Settled == phase = "settled" /\ UNCHANGED vars

Next ==
    \/ Work \/ Settled
    \/ Cancel \/ StartAgain
    \/ \E skill \in Skills : SetSkillCapabilityPolicy(skill)
    \/ \E n \in again.todo : StartAgainBinds(n)
    \/ SetRuntimeToolSetConfig("caller") \/ BindAgentSession("caller")

Spec == Init /\ [][Next]_vars

-----------------------------------------------------------------------------
\* Properties

Executing(n) == r.pc[n] \in {"execute", "execute running", "execute answered"}
Authors == {n \in Nodes : Plan.kind[n] # "hook"}
HandoffIn(n, p) == ChannelDir(Root, n, "upstream") \o <<p, "handoff.md">>

\* As long as a node executes in a workspace, its upstream directory leads to the
\* handoff that each parent's execution wrote, and to nothing a later stage of
\* the parent wrote over it, and its prompt names those handoffs and no other
\* node's.  (deliverHandoffToSuccessor before the runNode of the child; a hook
\* returns its handoff and writes none, and an agent that a refused Start bound
\* again may have lost its directories.)
InputsAreDelivered ==
    LET writers == Authors \ disturbed IN
    \A n \in Nodes \ disturbed : Executing(n) /\ n \in r.workspace /\ phase = "executing" =>
        /\ \A p \in Plan.parents[n] :
             /\ <<p, n>> \in r.delivered
             /\ p \in writers => LET q == Real(r.fs, HandoffIn(n, p)) IN
                                  q # Nowhere /\ r.fs.files[q] = <<"execute", p>>
        /\ r.pc[n] = "execute running" =>
             prompt[n].refs \subseteq Plan.parents[n] /\ Plan.parents[n] \cap writers \subseteq prompt[n].refs

\* The directories that a bind gives an executing node beyond its skill's own are in
\* the runner's workspace, and have in them every artifact that a parent declared
\* and that is there.  (nodeAccessibleDirs and handoffArtifactDirsFromOutputs; a
\* refused Start binds without the parents'.)
ArtifactsAreReachable ==
    \A n \in Nodes \ disturbed : r.pc[n] = "execute running" =>
        /\ \A d \in held[n].roots \ scenario.dirs[Plan.skill[n]] : PathWithinRoot(Root, d)
        /\ n \in r.workspace =>
             \A d \in ParseChannelDocument({outputs[p] : p \in Plan.parents[n]}) : \A a \in d.artifacts :
                LET at == ResolveHandoffArtifactPath(SkillRoot(Root, d.from), a.path) IN
                (IF a.type = "dir" THEN at \in r.fs.dirs ELSE Exists(r.fs, at)) =>
                    ResolvePath(r.fs, WorkspaceOf(n, held[n]), Abs(at)) # Nowhere

\* A node's model runs under the policies that were accepted when the engine read
\* them to start the node, or later ones, whatever plan or bind came before; if a
\* refused Start gave its agent policies after that, then under those accepted
\* when that Start read them.  (applySkillToolSet, which lets go of toolSetMu
\* between the read and the write, and BindForRunner.)
PolicyHolds ==
    \A n \in Nodes : r.pc[n] = "execute running" => held[n].policy >= due[n]

\* A stage's conversation goes on from all that earlier stages of the node said,
\* in earlier plans too, and its events reach the runner's stream once it
\* executes.  (bindAgentSession resumes the node's session; a refused Start may
\* bind while a stage runs.)
SessionContinues ==
    \A n \in Nodes \ disturbed, stage \in Stages : r.pc[n] = stage \o " running" =>
        /\ held[n].turns = said[n]
        /\ stage # "polish" => held[n].gen = r.merged[n]

\* A review decides what the object in the planner's reply says, also when it is in
\* a code fence, between other words or has braces and quotes in its strings, and
\* a reply that says neither counts as unreadable.  A brace in the words before the
\* object may make it unreadable too, and never turns it into the other decision.
\* (extractBalancedObject starts at the first brace.)
ReviewMeansIt ==
    judged.decided = judged.means \/ (judged.braced /\ judged.decided = "error")

\* A model that is told to read what its parents handed over can: the paths in
\* its prompt resolve to something its file tools may open.
UpstreamIsReadable ==
    \A n \in Nodes : r.pc[n] = "execute running" =>
        \A p \in Plan.parents[n] : Exists(r.fs, HandoffIn(n, p)) =>
            ResolvePath(r.fs, WorkspaceOf(n, held[n]), Abs(HandoffIn(n, p))) # Nowhere
=============================================================================
