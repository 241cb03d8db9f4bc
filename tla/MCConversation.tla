---------------------------- MODULE MCConversation ----------------------------
EXTENDS Conversation

Message == [type |-> "message", tool |-> "none", raw |-> 0]
Reasoning == [type |-> "reasoning", tool |-> "none", raw |-> 1]
CallOf(t) == [type |-> "function_call", tool |-> t, raw |-> 0]

\* An MCP tool that needs approval, and a tool that is off.
MCTools == {"mcp", "off"}
MCPOnly == {"mcp"}
MCPolicy == [t \in MCTools |-> IF t = "mcp" THEN "need_approve" ELSE "off"]

\* The shrink keeps two turns: the first call of the longest response is dropped
\* by it before the call is answered.
MCResponses == {<<Message>>, <<Reasoning, CallOf("mcp")>>,
                <<CallOf("mcp"), CallOf("off"), Reasoning>>}
Both == {"none", "ok", "fails"}

Budget(runs, responses, opens, faults, truncates) ==
  [runs |-> runs, responses |-> responses, opens |-> opens, faults |-> faults, truncates |-> truncates]

\* A store fails around two openings, two Runs around a crash, a truncation, one
\* that fails, or a longer history under one opening.
MCBudgets == {Budget(1, 2, 2, 1, 0), Budget(2, 2, 2, 0, 0), Budget(1, 2, 2, 0, 1),
              Budget(1, 1, 2, 1, 1), Budget(1, 3, 1, 0, 0)}
===============================================================================
