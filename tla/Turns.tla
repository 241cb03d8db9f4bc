-------------------------------- MODULE Turns --------------------------------
(* The turn list of a Conversation and the edits on it (src/llm/turn.go,       *)
(* event.go, conversation.go).  A turn keeps its role, the call it belongs to, *)
(* and a body: for a tool output how often it was replaced by a placeholder    *)
(* (Empty when there was nothing to replace), for a reasoning turn whether it  *)
(* carries a raw item.  Texts, tiers and time stamps are left out.             *)
EXTENDS Integers, Sequences, FiniteSets, SequencesExt, FiniteSetsExt

Role == {"user", "assistant", "tool_call", "tool_output", "reasoning"}

Empty == -1             \* an output of length zero
Placeholder == 2        \* a placeholder of a placeholder: no longer changes

NoCall == [id |-> 0, tool |-> "none"]
Turn(role, call, body) == [role |-> role, call |-> call, body |-> body]

\* The turns that Trim and Compress never leave first.
Rewound == {"tool_output", "reasoning"}

\* The number of turns dropped for a cut wanted at c: the loop goes back as
\* long as the turn after the cut is one of those, except at the very end.
CutAt(turns, c) ==
  Max({k \in 0 .. c : \/ k \in {0, Len(turns)}
                      \/ turns[k + 1].role \notin Rewound})

From(turns, k) == SubSeq(turns, k + 1, Len(turns))

\* Mutant: the cut is not rewound past outputs.
TrimBlunt(turns, keep) ==
  IF Len(turns) <= keep THEN turns ELSE From(turns, Len(turns) - keep)

Trim(turns, keep) ==
  IF Len(turns) <= keep THEN turns ELSE From(turns, CutAt(turns, Len(turns) - keep))

\* The outputs DropToolDetails truncates: all but the last `keep`, and none
\* without a body.
Dropped(turns, keep) ==
  LET Outputs == {i \in DOMAIN turns : turns[i].role = "tool_output"}
  IN  {i \in Outputs : /\ turns[i].body # Empty
                       /\ Cardinality({j \in Outputs : j >= i}) > keep}

DropToolDetails(turns, keep) ==
  [i \in DOMAIN turns |->
     IF i \in Dropped(turns, keep)
       THEN [turns[i] EXCEPT !.body = Min({@ + 1, Placeholder})]
       ELSE turns[i]]

\* turns[from:to] with Go's bounds, clamped.
ReplaceRange(turns, from, to, replacement) ==
  LET hi == Min({to, Len(turns)})
      lo == Min({Max({from, 0}), hi})
  IN  SubSeq(turns, 1, lo) \o replacement \o From(turns, hi)

Summary == Turn("assistant", NoCall, 0)

-----------------------------------------------------------------------------
(* Events: what a session log holds, one for every edit.                       *)

Event(kind) == [kind |-> kind, turn |-> Summary, keep |-> 0, to |-> 0]
InitEvent == Event("init")
UsageEvent == Event("record_usage")
AppendEvent(turn) == [Event("append") EXCEPT !.turn = turn]
TrimEvent(keep) == [Event("trim") EXCEPT !.keep = keep]
DropEvent(keep) == [Event("drop_tool_details") EXCEPT !.keep = keep]
CompressEvent(to) == [Event("replace_range") EXCEPT !.to = to]

Apply(turns, ev) ==
  CASE ev.kind = "append" -> Append(turns, ev.turn)
    [] ev.kind = "trim" -> Trim(turns, ev.keep)
    [] ev.kind = "drop_tool_details" -> DropToolDetails(turns, ev.keep)
    [] ev.kind = "replace_range" -> ReplaceRange(turns, 0, ev.to, <<ev.turn>>)
    [] OTHER -> turns

Replay(log) == FoldLeft(Apply, << >>, log)

-----------------------------------------------------------------------------
(* Auto-shrink.  `summary` is what the summarizer does: there is "none", it    *)
(* answers ("ok") or it "fails".  The result is the events of the edits; the   *)
(* turn list is what applying them gives.                                      *)

\* Trim records an event exactly when the list is longer than `keep`.
TrimEvents(turns, keep) == IF Len(turns) <= keep THEN << >> ELSE <<TrimEvent(keep)>>

DropEvents(turns, keep) == IF Dropped(turns, keep) = {} THEN << >> ELSE <<DropEvent(keep)>>

\* Compress up to the rewound cut; nothing to replace is not a failure.
CompressEvents(turns, upto, summary, keep) ==
  LET cut == CutAt(turns, upto)
  IN  CASE cut = 0          -> << >>
        [] summary = "ok"   -> <<CompressEvent(cut)>>
        [] OTHER            -> TrimEvents(turns, keep)

ShrinkEvents(turns, keepTurns, keepOutputs, summary) ==
  LET drop  == DropEvents(turns, keepOutputs)
      after == FoldLeft(Apply, turns, drop)
  IN  drop \o IF summary # "none" /\ Len(after) > keepTurns
                THEN CompressEvents(after, Len(after) - keepTurns, summary, keepTurns)
                ELSE TrimEvents(after, keepTurns)

-----------------------------------------------------------------------------
(* The request built from the turn list: reasoning is replayed only with its   *)
(* raw item and after the last user turn.                                      *)
LastUser(turns) == Max({0} \cup {i \in DOMAIN turns : turns[i].role = "user"})

BuildResponseInput(turns) ==
  LET kept == {i \in DOMAIN turns : turns[i].role = "reasoning" =>
                                      turns[i].body = 1 /\ i > LastUser(turns)}
  IN  [k \in 1 .. Cardinality(kept) |-> turns[CHOOSE i \in kept :
         Cardinality({j \in kept : j <= i}) = k]]

\* Mutant: only the last turn is looked at.
ToolNameAtEnd(turns, id) ==
  LET last == Last(turns)
  IN  IF last.role = "tool_call" /\ last.call.id = id THEN last.call.tool ELSE "none"

\* toolNameForCallID: the tool of a call whose turn is still in the list.
ToolNameFor(turns, id) ==
  LET at == {i \in DOMAIN turns : turns[i].role = "tool_call" /\ turns[i].call.id = id}
  IN  IF at = {} THEN "none" ELSE turns[Max(at)].call.tool
==============================================================================
