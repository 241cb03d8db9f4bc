----------------------------- MODULE MCNodeRun ------------------------------
\* NodeRun with small plans: a join of two parents, a chain whose nodes declare
\* artifacts, a replan that gives a node another skill, and nodes that add nodes.
EXTENDS NodeRun

LOCAL Object(inner) == <<"{">> \o inner \o <<"}">>
LOCAL Says(inner) == Object(<<"quote", "word", "quote", "dot">> \o inner)

\* {"approved":true}, the same with a reason that has a brace and an escaped
\* quote in it, a reject object in an object, one with both fields, and one with
\* neither
MCYes     == Says(<<"word">>)
MCYesWhy  == Says(<<"word", "dot", "quote", "}", "backslash", "quote", "{", "quote">>)
MCNo      == Says(Object(<<"quote", "word", "quote">>))
MCBoth    == Says(<<"word", "dot">> \o Object(<< >>))
MCNeither == Says(<<"dot">>)

MCUnmarshal ==
    (MCYes :> [reject |-> FALSE, approved |-> "yes"]) @@ (MCYesWhy :> [reject |-> FALSE, approved |-> "yes"])
    @@ (MCNo :> [reject |-> TRUE, approved |-> "absent"]) @@ (MCBoth :> [reject |-> TRUE, approved |-> "yes"])
    @@ (MCNeither :> [reject |-> FALSE, approved |-> "absent"])

\* Replies: an object with other text around it.  The words before it may have a
\* quote or braces of their own, and all of it may be in a code fence.
LOCAL Wrapped(fence, before, object, after) ==
    LET text == before \o object \o after IN
    CASE fence = "none"   -> text
      [] fence = "tagged" -> <<"fence", "word", "newline">> \o text \o <<"newline", "fence">>
      [] fence = "bare"   -> <<"space", "fence", "newline">> \o text \o <<"fence", "newline", "word">>
LOCAL Prose == {<< >>, <<"space", "word", "quote", "word", "dot", "newline">>, <<"word", "fence", "newline">>}
LOCAL BracedProse == {<<"word", "{", "word", "}", "dot">>, <<"word", "{">>, <<"{", "}">>, <<"quote", "{", "quote">>}
LOCAL After == {<< >>, <<"word", "}">>, <<"space", "quote", "{">>}
LOCAL Reply(raw, means, braced) == [raw |-> raw, means |-> means, braced |-> braced]

MCReplies(means, objects) ==
    {Reply(Wrapped(f, b, o, a), means, FALSE) : f \in {"none", "tagged", "bare"}, b \in Prose, o \in objects, a \in After}
    \cup {Reply(Wrapped(f, b, o, a), means, TRUE) : f \in {"none", "tagged"}, b \in BracedProse, o \in objects, a \in {<< >>}}

MCApproves == MCReplies("approve", {MCYes, MCYesWhy})
MCRejects == MCReplies("reject", {MCNo, MCBoth})
MCUnreadable ==
    MCReplies("error", {MCNeither}) \cup {Reply(t, "error", FALSE) : t \in {<< >>, <<"space">>, <<"word">>, <<"{">>, <<"fence">>}}
MCApprove == {Reply(MCYes, "approve", FALSE)}
MCReject == {Reply(MCNo, "reject", FALSE)}

LOCAL P(parents, skill, kind, does, artifacts, adds) ==
    [initial |-> DOMAIN parents \ UNION {adds[n] : n \in DOMAIN adds}, parents |-> parents,
     skill |-> skill, kind |-> kind, artifacts |-> artifacts, adds |-> adds,
     calls |-> [n \in DOMAIN kind |-> IF kind[n] = "llm" THEN does[n] ELSE << >>],
     writes |-> [n \in DOMAIN kind |-> IF kind[n] = "hook" THEN does[n] ELSE {}]]
LOCAL All(nodes, v) == [n \in nodes |-> v]

\* Tool calls: at the node's own files, at the exchange directory, and through
\* the links to what its parents wrote
LOCAL At(n, p) == Abs(SkillRoot(Root, n) \o p)
LOCAL Call(tool, path, to) ==
    [tool |-> tool, path |-> path, to |-> to, old |-> <<"work">>, body |-> <<"work">>, recursive |-> FALSE]
LOCAL Write(path) == Call("write_file", path, path)
LOCAL Edit(path, old) == [Call("edit_file", path, path) EXCEPT !.old = old, !.body = <<"more">>]
LOCAL Delete(path, recursive) == [Call("delete_file", path, path) EXCEPT !.recursive = recursive]
LOCAL Move(path, to) == Call("move_file", path, to)
LOCAL Art(type, path) == [type |-> type, path |-> path]

\* Two parents and their child; two of them share a skill.
MCJoin ==
    LET ns == {"a", "b", "c"} IN
    P("a" :> {} @@ "b" :> {} @@ "c" :> {"a", "b"}, "a" :> "s" @@ "b" :> "t" @@ "c" :> "s",
      "a" :> "llm" @@ "b" :> "plain" @@ "c" :> "llm",
      "a" :> <<Write(At("a", <<"memo", "m">>)), Write(Rel(<<"d", "f">>)), Edit(Rel(<<"d", "f">>), <<"work">>),
               Move(Rel(<<"d">>), At("a", <<"downstream", "artifacts", "d">>)), Delete(At("a", <<"downstream">>), FALSE)>>
      @@ "b" :> << >>
      @@ "c" :> <<Write(At("c", <<"upstream", "a", "handoff.md">>)), Edit(At("c", <<"upstream", "b", "handoff.md">>), <<"execute", "b">>),
                  Move(At("c", <<"upstream", "a", "artifacts", "d", "f">>), At("c", <<"scratch", "f">>)),
                  Delete(At("c", <<"upstream", "..", "..", "a", "downstream">>), TRUE)>>,
      All(ns, {}), All(ns, {}))

\* A hook declares artifacts in the ways a document may name them.
MCArtifacts(artifacts, calls) ==
    LET ns == {"a", "b"} IN
    P("a" :> {} @@ "b" :> {"a"}, All(ns, "s"), "a" :> "hook" @@ "b" :> "llm",
      "a" :> {<<"downstream", "artifacts", "d", "f">>, <<"scratch", "g">>} @@ "b" :> calls,
      [All(ns, {}) EXCEPT !["a"] = artifacts], All(ns, {}))

MCNew == Art("dir", Rel(<<"downstream", "artifacts", "d">>))
MCOld == Art("file", Rel(<<"outbox", "artifacts", "d", "..", "d", "f">>))
MCPrivate == Art("", Rel(<<"workspace", "g">>))
MCOutside == Art("file", Rel(<<"scratch", "..", "..", "..", "..", "etc", "f">>))
MCMissing == Art("dir", Rel(<<"downstream", "nothing">>))

\* One node, then the same node under another skill with a second one.
MCBefore == LET ns == {"a"} IN P(All(ns, {}), All(ns, "s"), All(ns, "llm"), All(ns, << >>), All(ns, {}), All(ns, {}))
MCAfter ==
    LET ns == {"a", "b"} IN
    P("a" :> {} @@ "b" :> {"a"}, "a" :> "t" @@ "b" :> "s", All(ns, "llm"), All(ns, << >>), All(ns, {}), All(ns, {}))

\* A hook returns nodes, one of which needs it.
MCDynamic(adds) ==
    LET ns == {"a", "b", "c"} IN
    P("a" :> {} @@ "b" :> {"a"} @@ "c" :> {}, All(ns, "s"), "a" :> "hook" @@ "b" :> "llm" @@ "c" :> "plain",
      "a" :> {} @@ "b" :> <<Write(Rel(<<"..", "f">>))>> @@ "c" :> << >>, All(ns, {}), [All(ns, {}) EXCEPT !["a"] = adds])

\* A node deletes the directory that its skill was registered with, which its
\* child's skill needs too.
MCSpoil ==
    LET ns == {"a", "b"} IN
    P("a" :> {} @@ "b" :> {"a"}, All(ns, "s"), "a" :> "llm" @@ "b" :> "plain",
      "a" :> <<Delete(Abs(<<"data">>), TRUE)>> @@ "b" :> << >>, All(ns, {}), All(ns, {}))

LOCAL B(faults, policies, starts, cancels) ==
    [faults |-> faults, policies |-> policies, starts |-> starts, cancels |-> cancels]
LOCAL Trouble == {B(1, 0, 0, 0), B(0, 1, 0, 0), B(0, 0, 0, 1)}
LOCAL Again == {B(0, 1, 1, 0)}

LOCAL S(root, plans, answers, budgets) ==
    [root |-> root, plans |-> plans, replies |-> answers, budgets |-> budgets,
     dirs |-> "s" :> {<<"data">>} @@ "t" :> {}, tools |-> "s" :> {"read"} @@ "t" :> {"read", "web"}]
MCScenarios == <<
    S(TRUE, <<MCJoin>>, <<MCApprove>>, Trouble),
    S(TRUE, <<MCAfter>>, <<MCApprove>>, {B(0, 2, 1, 0), B(0, 1, 2, 0)}),
    S(TRUE, <<MCArtifacts({MCNew, MCOld, MCPrivate}, << >>)>>, <<MCApprove>>, Trouble \cup Again),
    S(TRUE, <<MCArtifacts({MCOutside, MCOld}, <<Write(At("b", <<"memo", "m">>))>>)>>, <<MCApprove>>, Trouble),
    S(TRUE, <<MCArtifacts({MCMissing, MCOld}, <<Delete(At("b", <<"memo">>), TRUE)>>)>>, <<MCApprove>>, Trouble \cup Again),
    S(TRUE, <<MCSpoil>>, <<MCApprove>>, Trouble \cup Again),
    S(TRUE, <<MCBefore, MCAfter>>, <<MCReject, MCApprove>>, Trouble \cup Again),
    S(FALSE, <<MCAfter, MCBefore>>, <<MCReject, MCApprove>>, Trouble \cup Again),
    S(FALSE, <<MCBefore, MCBefore>>, <<MCUnreadable, MCRejects, MCUnreadable, MCApproves>>, Trouble),
    S(FALSE, <<MCBefore>>, <<MCApproves \cup MCRejects, MCUnreadable>>, Trouble),
    S(FALSE, <<MCDynamic({"b", "c"})>>, <<MCApprove>>, Trouble \cup Again),
    S(TRUE, <<MCDynamic({"b", "c"})>>, <<MCApprove>>, Trouble),
    S(TRUE, <<MCDynamic({"b"})>>, <<MCApprove>>, Trouble) >>
=============================================================================
