----------------------------- MODULE Conversation -----------------------------
(* llm.Conversation bound to a session (src/llm/conversation*.go) with the     *)
(* policy wrapper around its tools (tool_policy.go): Run's loop of requests    *)
(* and tool calls, the event log it writes to every session store, the shrink  *)
(* after every response, Truncate, and opening the session again in a new      *)
(* Conversation, after a crash or because an agent is bound once more.         *)
EXTENDS Turns, TLC

CONSTANTS
  Stores,        \* number of session stores, in the order OpenSession got them
  Tools,         \* registered tools
  MCPTools,      \* the registered tools that an MCP server backs
  Policy,        \* policies of registered tools when a skill is bound
  Responses,     \* what the model may answer: sequences of output items
  KeepTurns, KeepOutputs,   \* AutoShrinkConfig
  Summaries,     \* what the summarizer may do, "none" when there is none
  MaxSteps,      \* requests per Run
  Bodies,        \* output bodies of a tool: 0 for text, Empty for none
  TruncateTo,    \* sequence numbers given to Truncate
  Budgets        \* bounds: how many runs, responses, opens, faults and truncations

ASSUME ConversationAssumption ==
  /\ Stores \in Nat \ {0}
  /\ MCPTools \subseteq Tools
  /\ DOMAIN Policy \subseteq Tools
  /\ Bodies \subseteq {0, Empty}
  /\ TruncateTo \subseteq Nat
  /\ {KeepTurns, KeepOutputs} \subseteq Nat
  /\ Budgets \subseteq [{"runs", "responses", "opens", "faults", "truncates"} -> Nat]
  /\ MaxSteps \in Nat \ {0}
  /\ Summaries \subseteq {"none", "ok", "fails"}

VARIABLES
  turns,         \* Conversation.turns
  log,           \* per store, the session's events
  pend,          \* <<store, event>> still to be appended by the running call
  lastErr,       \* Conversation.lastErr is set
  policies,      \* the policy map the bound tools share
  pc, step,      \* where Run is, and its loop counter
  calls,         \* tool calls of the last response still to be dispatched
  nextId,        \* number of the next call
  left,          \* what the bounds still allow
  synced,        \* stores whose log was the replayed one when the session was bound
  broken,        \* a Truncate failed half way since then
  lossy,         \* an append or a Truncate has failed
  cut,           \* calls whose Run was interrupted by a crash or a truncation
  notLast,       \* calls that were not the last item of their response
  shed,          \* calls followed by KeepTurns items or more in a response that was shrunk
  aired,         \* calls whose result body was put on the event stream
  granted,       \* tools the approver let pass for the session, calls it approved
  used,          \* <<call, tool>> whose tool was executed under this binding
  result         \* how the last Run ended

vars == <<turns, log, pend, lastErr, policies, pc, step, calls, nextId, left, synced,
          broken, lossy, cut, notLast, shed, aired, granted, used, result>>

Store == 1 .. Stores
ghosts == <<synced, broken, lossy, cut, notLast, shed, aired, granted, used>>

Ids(s) == {s[i].call.id : i \in {j \in DOMAIN s : s[j].role = "tool_call"}}
Outputs(s) == {s[i].call.id : i \in {j \in DOMAIN s : s[j].role = "tool_output"}}

Init ==
  /\ turns = << >>
  /\ log = [s \in Store |-> << >>]
  /\ pend = << >>
  /\ lastErr = FALSE
  /\ policies = Policy
  /\ pc = "closed"
  /\ step = 0
  /\ calls = << >>
  /\ nextId = 1
  /\ left \in Budgets
  /\ synced = {}
  /\ broken = FALSE
  /\ lossy = FALSE
  /\ cut = {}
  /\ notLast = {}
  /\ shed = {}
  /\ aired = {}
  /\ granted = {}
  /\ used = {}
  /\ result = "none"

Spend(what) == left[what] > 0 /\ left' = [left EXCEPT ![what] = @ - 1]

\* emit: every event goes to every store, in their order.
Emitted(events) ==
  [k \in 1 .. Len(events) * Stores |->
     <<((k - 1) % Stores) + 1, events[((k - 1) \div Stores) + 1]>>]

\* An operation edits the turn list and emits the events of the edits.
Edit(events) ==
  /\ turns' = FoldLeft(Apply, turns, events)
  /\ pend' = Emitted(events)

-----------------------------------------------------------------------------
(* OpenSession, in a new Conversation over a skill bound afresh.               *)

Having == {s \in Store : log[s] # << >>}
SeedSession == [s \in Store |-> <<s, InitEvent>>]

\* mirrorSessionEvents: the stores without the session get the replayed events.
MirrorSession(events) ==
  FlattenSeq([s \in Store |-> IF s \in Having THEN << >>
                              ELSE [i \in DOMAIN events |-> <<s, events[i]>>]])

OpenSession ==
  /\ pc = "closed"
  /\ Spend("opens")
  /\ pc' = "opening"
  /\ IF Having = {}
       THEN turns' = << >> /\ pend' = SeedSession
       ELSE LET source == log[Min(Having)]
            IN  turns' = Replay(source) /\ pend' = MirrorSession(source)
  /\ UNCHANGED <<log, lastErr, policies, step, calls, nextId, ghosts, result>>

\* A session can be resumed only with every tool it was seeded with: in a
\* Conversation that lacks one the replay ends in an error, before anything is
\* mirrored.  A store that cannot be read ends the call in the same way.
OpenRefused ==
  /\ pc = "closed"
  /\ Having # {}
  /\ Spend("opens")
  /\ UNCHANGED <<turns, log, pend, lastErr, policies, pc, step, calls, nextId, ghosts, result>>

\* Every store has the session: the conversation is bound.
SessionBound ==
  /\ pc = "opening"
  /\ pend = << >>
  /\ pc' = "idle"
  /\ synced' = {s \in Store : log[s] = log[1]}
  /\ broken' = FALSE
  /\ UNCHANGED <<turns, log, pend, lastErr, policies, step, calls, nextId, left, lossy,
                 cut, notLast, shed, aired, granted, used, result>>

\* The log after the appends in `writes`: a store numbers its own events.
Written(writes) ==
  [s \in Store |-> LET mine == SelectSeq(writes, LAMBDA w : w[1] = s)
                   IN  log[s] \o [i \in DOMAIN mine |-> mine[i][2]]]

\* Every append of the running call succeeds.
AppendAll ==
  /\ pend # << >>
  /\ log' = Written(pend)
  /\ pend' = << >>
  /\ UNCHANGED <<turns, lastErr, policies, pc, step, calls, nextId, left, ghosts, result>>

\* Mutant: the error of a failed append is dropped.
AppendFailsSilently(k) ==
  /\ Spend("faults")
  /\ pend' = << >>
  /\ IF pc = "opening" THEN log' = Written(SubSeq(pend, 1, k - 1)) /\ pc' = "closed" /\ turns' = << >>
                       ELSE log' = Written(RemoveAt(pend, k)) /\ UNCHANGED <<pc, turns>>
  /\ lossy' = TRUE
  /\ UNCHANGED <<lastErr, policies, step, calls, nextId, synced, broken, cut, notLast, shed, aired, granted, used, result>>

\* The k-th append fails.  OpenSession returns the error and leaves what it has
\* written; later the error is latched, and all other events are still written.
AppendFails(k) ==
  /\ Spend("faults")
  /\ pend' = << >>
  /\ IF pc = "opening"
       THEN /\ log' = Written(SubSeq(pend, 1, k - 1))
            /\ pc' = "closed"
            /\ turns' = << >>
            /\ UNCHANGED lastErr
       ELSE /\ log' = Written(RemoveAt(pend, k))
            /\ lastErr' = TRUE
            /\ UNCHANGED <<pc, turns>>
  /\ lossy' = TRUE
  /\ UNCHANGED <<policies, step, calls, nextId, synced, broken, cut, notLast, shed, aired, granted, used, result>>

-----------------------------------------------------------------------------
(* Run: the user turn, then requests and tool calls until a response has none. *)

Return(how) == pc' = "idle" /\ step' = 0 /\ result' = how

RunStart ==
  /\ pc = "idle"
  /\ pend = << >>
  /\ Spend("runs")
  /\ Edit(<<AppendEvent(Turn("user", NoCall, 0))>>)
  /\ pc' = "send"
  /\ step' = 0
  /\ result' = "none"
  /\ UNCHANGED <<log, lastErr, policies, calls, nextId, ghosts>>

\* A transport error, response.failed, response.incomplete, a stream that ends
\* without response.completed, a cancelled context: nothing is recorded.
RequestFails ==
  /\ pc = "send"
  /\ pend = << >>
  /\ Return("failed")
  /\ UNCHANGED <<turns, log, pend, lastErr, policies, calls, nextId, left, ghosts>>

\* The calls of a response, numbered, and the turns its items become.  An item is
\* a message, a reasoning trace (with or without a raw item to replay), or a tool.
CallAt(response, i) ==
  [id |-> nextId + Cardinality({j \in 1 .. i - 1 : response[j].type = "function_call"}),
   tool |-> response[i].tool]

ItemTurn(response, i) ==
  CASE response[i].type = "message"       -> Turn("assistant", NoCall, 0)
    [] response[i].type = "reasoning"     -> Turn("reasoning", NoCall, response[i].raw)
    [] response[i].type = "function_call" -> Turn("tool_call", CallAt(response, i), 0)

CallIndexes(response) == {i \in DOMAIN response : response[i].type = "function_call"}

\* applyResponseOutput: the items in order, the usage, and the shrink that a
\* usage above the threshold asks for, before any of the calls is answered.
Recorded(response, high, summary) ==
  LET items == [i \in DOMAIN response |-> AppendEvent(ItemTurn(response, i))] \o <<UsageEvent>>
  IN  items \o IF high THEN ShrinkEvents(FoldLeft(Apply, turns, items), KeepTurns, KeepOutputs, summary)
                       ELSE << >>

ApplyResponseOutput(response, high, summary) ==
  /\ Edit(Recorded(response, high, summary))
  /\ nextId' = nextId + Cardinality(CallIndexes(response))
  /\ notLast' = notLast \cup {CallAt(response, i).id : i \in CallIndexes(response) \ {Len(response)}}
  /\ shed' = shed \cup {CallAt(response, i).id :
                           i \in {j \in CallIndexes(response) : high /\ Len(response) - j >= KeepTurns}}

RunStep(response, high, summary) ==
  /\ pc = "send"
  /\ pend = << >>
  /\ Spend("responses")
  /\ ApplyResponseOutput(response, high, summary)
  /\ calls' = LET at == SetToSortSeq(CallIndexes(response), <)
              IN  [k \in DOMAIN at |-> CallAt(response, at[k])]
  /\ pc' = IF CallIndexes(response) = {} THEN "final" ELSE "dispatch"
  /\ UNCHANGED <<log, lastErr, policies, step, synced, broken, lossy, cut, aired, granted, used, result>>

\* The final response: a persistence error latched since the session was bound
\* is reported now.
Final ==
  /\ pc = "final"
  /\ pend = << >>
  /\ Return(IF lastErr THEN "not_persisted" ELSE "ok")
  /\ UNCHANGED <<turns, log, pend, lastErr, policies, calls, nextId, left, ghosts>>

-----------------------------------------------------------------------------
(* dispatch and policyTool.Execute                                             *)

\* emitToolResult: the tool's name is looked up in the turn list; without it the
\* result of an MCP tool looks like any other and its body is emitted.
Aired(id) == IF ToolNameFor(turns, id) \in MCPTools THEN {} ELSE {id}

\* The output turn, its event, and the next call, request or the step bound.
AppendToolOutput(body) ==
  LET call == Head(calls)
  IN  /\ Edit(<<AppendEvent(Turn("tool_output", call, body))>>)
      /\ aired' = aired \cup Aired(call.id)
      /\ calls' = Tail(calls)
      /\ IF Len(calls) > 1
           THEN pc' = "dispatch" /\ UNCHANGED <<step, result>>
           ELSE IF step + 1 < MaxSteps
                  THEN pc' = "send" /\ step' = step + 1 /\ UNCHANGED result
                  ELSE Return("max_steps")

Tool == Head(calls).tool
Dispatching == pc = "dispatch" /\ pend = << >>

\* resolvePolicy: a tool without an entry passes.
PolicyOf(t) == IF t \in DOMAIN policies THEN policies[t] ELSE "passby"

\* Mutant: a tool that is off leaves its call unanswered.
RefuseUnknown ==
  /\ Dispatching
  /\ Tool \notin Tools
  /\ AppendToolOutput(0)
  /\ UNCHANGED <<log, lastErr, policies, nextId, left, synced, broken, lossy, cut, notLast, shed, granted, used>>

\* An unregistered tool, or one whose policy is off: the error is the output.
Refuse ==
  /\ Dispatching
  /\ Tool \notin Tools \/ PolicyOf(Tool) = "off"
  /\ AppendToolOutput(0)
  /\ UNCHANGED <<log, lastErr, policies, nextId, left, synced, broken, lossy, cut, notLast, shed, granted, used>>

\* The tool runs; it may return an error, and its output may be empty.
Execute ==
  /\ \E body \in Bodies : AppendToolOutput(body)
  /\ used' = used \cup {Head(calls)}

DispatchPassed ==
  /\ Dispatching
  /\ Tool \in Tools
  /\ PolicyOf(Tool) = "passby"
  /\ Execute
  /\ UNCHANGED <<log, lastErr, policies, nextId, left, synced, broken, lossy, cut, notLast, shed, granted>>

\* requestApproval: what the approver's answer comes to.  Without an approver, on
\* a timeout, on an error and on an outcome it does not know the call is denied;
\* an empty outcome is a denial.
ApproverAnswers == {"approve", "approve_for_session", "deny", "", "unknown", "error", "timeout", "none"}
Resolved(answer) == IF answer \in {"approve", "approve_for_session"} THEN answer ELSE "deny"

\* policyTool.Execute under need_approve; approval for the session changes the
\* policy map that the tools of this binding share.
RequestApproval(answer) ==
  /\ Dispatching
  /\ Tool \in Tools
  /\ PolicyOf(Tool) = "need_approve"
  /\ IF Resolved(answer) = "deny"
       THEN AppendToolOutput(0) /\ UNCHANGED <<granted, used>>
       ELSE /\ Execute
            /\ granted' = granted \cup {IF answer = "approve" THEN <<"call", Head(calls).id>>
                                                              ELSE <<"tool", Tool>>}
  /\ policies' = IF answer = "approve_for_session" THEN [policies EXCEPT ![Tool] = "passby"] ELSE policies
  /\ UNCHANGED <<log, lastErr, nextId, left, synced, broken, lossy, cut, notLast, shed>>

-----------------------------------------------------------------------------
(* Truncate, Stream, and the end of the conversation object                    *)

\* Every store in turn; the first that fails stops it.  Then the first store's
\* log is loaded and replayed; if it cannot be loaded the turns stay as they were.
Truncated(toSeq, ok) ==
  [s \in Store |-> IF s <= ok THEN SubSeq(log[s], 1, Min({Max({toSeq, 1}), Len(log[s])})) ELSE log[s]]

Truncate(toSeq, ok, loads) ==
  LET reloads == ok = Stores /\ loads
  IN  /\ pc = "idle"
      /\ pend = << >>
      /\ left.truncates > 0
      /\ reloads \/ left.faults > 0
      /\ left' = [left EXCEPT !.truncates = @ - 1, !.faults = @ - (IF reloads THEN 0 ELSE 1)]
      /\ log' = Truncated(toSeq, ok)
      /\ IF reloads THEN turns' = Replay(log'[1]) /\ UNCHANGED <<broken, lossy>>
                    ELSE broken' = TRUE /\ lossy' = TRUE /\ UNCHANGED turns
      /\ cut' = cut \cup (1 .. nextId - 1)
      /\ UNCHANGED <<pend, lastErr, policies, pc, step, calls, nextId, synced, notLast, shed, aired,
                     granted, used, result>>

\* Stream: a single request whose calls are left to the caller, who closes the
\* conversation or answers them; here they stay unanswered.
Stream(response, high, summary) ==
  /\ pc = "idle"
  /\ pend = << >>
  /\ Spend("responses")
  /\ ApplyResponseOutput(response, high, summary)
  /\ cut' = cut \cup (nextId .. nextId' - 1)
  /\ UNCHANGED <<log, lastErr, policies, pc, step, calls, synced, broken, lossy, aired, granted, used, result>>

\* Mutant: the tools of every binding share one map.
SharedPolicies == policies

\* wrapToolsWithPolicySet clones the configured policies for every binding.
BoundPolicies == Policy

\* The object is gone: an agent is bound again, or the process died, perhaps
\* after the first k of the appends it had to make and with calls unanswered.
Close(k) ==
  /\ pc # "closed"
  /\ log' = Written(SubSeq(pend, 1, k))
  /\ pc' = "closed"
  /\ turns' = << >>
  /\ pend' = << >>
  /\ calls' = << >>
  /\ result' = "none"
  /\ lastErr' = FALSE
  /\ step' = 0
  /\ policies' = BoundPolicies
  /\ granted' = {}
  /\ used' = {}
  /\ aired' = {}
  /\ synced' = {}
  /\ cut' = IF pc = "idle" /\ pend = << >> THEN cut ELSE cut \cup (1 .. nextId - 1)
  /\ UNCHANGED <<nextId, left, broken, lossy, notLast, shed>>

Answers == \E r \in Responses, high \in BOOLEAN, s \in Summaries :
             (high \/ s = "none") /\ RunStep(r, high, s)
Streams == \E r \in Responses, high \in BOOLEAN, s \in Summaries :
             (high \/ s = "none") /\ Stream(r, high, s)
Truncates == \E toSeq \in TruncateTo, ok \in 0 .. Stores, loads \in BOOLEAN : Truncate(toSeq, ok, loads)

\* What the goroutine inside a call does by itself.
Work ==
  \/ SessionBound
  \/ AppendAll
  \/ RequestFails
  \/ Answers
  \/ Final
  \/ Refuse
  \/ DispatchPassed
  \/ \E answer \in ApproverAnswers : RequestApproval(answer)

Next ==
  \/ Work
  \/ \E k \in 1 .. Len(pend) : AppendFails(k)
  \/ OpenSession
  \/ OpenRefused
  \/ RunStart
  \/ Truncates
  \/ Streams
  \/ \E k \in 0 .. Len(pend) : Close(k)

Spec == Init /\ [][Next]_vars

\* The provider answers or the request fails, and an approval is answered or
\* times out: a call that runs goes on.
FairSpec == Spec /\ WF_vars(Work)

-----------------------------------------------------------------------------
(* Properties *)

Clean == pc \notin {"closed", "opening"} /\ pend = << >> /\ ~lastErr /\ ~broken

\* Opening the session again restores the conversation: as long as no append has
\* failed and no Truncate stopped half way, replaying the log of the first store,
\* or of any store that agreed with it when the session was bound, gives the turn
\* list in memory, whatever was trimmed, compressed, truncated or mirrored before.
ResumeRestores ==
  Clean => \A s \in synced \cup {1} : Replay(log[s]) = turns

\* The requests a Run sends are well formed as long as no store has failed.  Every
\* call in one has its output, unless an earlier Run was interrupted before it
\* answered; and every output has its call, unless the call was followed by
\* another item of its response.
RequestIsWellFormed ==
  pc = "send" /\ pend = << >> /\ ~lossy =>
    LET input == BuildResponseInput(turns)
    IN  /\ Ids(input) \subseteq Outputs(input) \cup cut
        /\ Outputs(input) \subseteq Ids(input) \cup notLast

\* The result body of an MCP tool does not reach the event stream
\* (emitToolResult), unless the shrink that came with the call's own response has
\* dropped the call before it was answered: that takes a usage above the threshold
\* and KeepTurns further items in the response.
MCPResultsStayOut ==
  \A c \in aired : c \in shed \/ ~ \E u \in used : u.id = c /\ u.tool \in MCPTools

\* A tool whose policy asks for approval runs only if the approver approved this
\* call, or the tool for the session, since the skill was bound.
ApprovedBeforeUse ==
  \A u \in used : u.tool \in DOMAIN Policy /\ Policy[u.tool] = "need_approve" =>
    {<<"call", u.id>>, <<"tool", u.tool>>} \cap granted # {}

\* A Run ends: with a final response, an error or the step bound.
RunEnds == (pc = "send") ~> (pc \in {"idle", "closed"})
===============================================================================
