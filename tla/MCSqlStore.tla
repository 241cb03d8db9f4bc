----------------------------- MODULE MCSqlStore -----------------------------
EXTENDS EventQueries

C(kind, key, arg) == [kind |-> kind, key |-> key, arg |-> arg]

MCStripe == [r \in {"r1", "r2"} |-> 1]

NoLog == [r \in {"r1", "r2"} |-> << >>]
TwoRecords == [NoLog EXCEPT !["r1"] = <<[seq |-> 1, kind |-> "init", by |-> "before"], [seq |-> 2, kind |-> "event", by |-> "before"]>>]

Of(backend, log, f, k, calls) == [backend |-> backend, log |-> log, faults |-> f, cancels |-> k, calls |-> calls, asks |-> FALSE]

\* Events of two types that differ where LIKE does not look, of two runners
E(n, type, id, runner, st) ==
    [request |-> "q", seq |-> n, type |-> type, layer |-> "llm", id |-> id, parent |-> "", runner |-> runner,
     node |-> "", session |-> "", status |-> st]
E1 == E(1, "llm.tool_call", "a", "r1", "running")
E2 == E(2, "llm.tool.call", "b", "r1", "completed")
E3 == E(3, "status", "a", "r2", "completed")

Task(request) == [status |-> "pending", request |-> request, dag |-> ""]

Scope(runner) == [request |-> "q", runner |-> runner, node |-> "", session |-> ""]
Source(id) == [layer |-> "", id |-> id, parent |-> ""]
MCQueries == [scope : {Scope(""), Scope("r1")}, from : {0, 2},
              filter : [types : {{}, {"status"}, {"status", "llm.tool_call"}}, prefixes : {{}, {"llm.tool_"}},
                        sources : {{}, {Source("a")}, {Source("a"), Source("b")}},
                        statuses : {{}, {"running"}, {"running", "completed"}}, scope : {Scope(""), Scope("r2")}]]

MCScenarios == [
    contended |-> Of("sqlite", NoLog, 0, 0,
        [a |-> C("append", "r1", "init"), b |-> C("append", "r1", "event"), c |-> C("append", "r2", "init"),
         d |-> C("event", "q", E1), e |-> C("append", "r1", "event")]),
    deleted |-> Of("sqlite", TwoRecords, 0, 0,
        [a |-> C("append", "r1", "event"), b |-> C("delete", "r1", ""), c |-> C("append", "r1", "init"),
         d |-> C("load", "r1", ""), e |-> C("delete", "r1", "")]),
    faulty |-> Of("sqlite", NoLog, 2, 0,
        [a |-> C("append", "r1", "init"), b |-> C("append", "r1", "event"), c |-> C("delete", "r1", ""),
         d |-> C("event", "q", E1), e |-> C("cursor", "q", 1)]),
    canceled |-> Of("sqlite", NoLog, 0, 2,
        [a |-> C("append", "r1", "init"), b |-> C("append", "r2", "init"), c |-> C("event", "q", E1),
         d |-> C("delete", "r1", ""), e |-> C("load", "r1", "")]),
    postgres |-> Of("postgres", NoLog, 1, 1,
        [a |-> C("append", "r1", "init"), b |-> C("append", "r1", "event"), c |-> C("append", "r2", "init"),
         d |-> C("load", "r1", ""), e |-> C("cursor", "q", 1)]),
    dropped |-> Of("postgres", TwoRecords, 1, 0,
        [a |-> C("delete", "r1", ""), b |-> C("delete", "r1", ""), c |-> C("cursor", "q", 1), d |-> C("cursor", "q", 2),
         e |-> C("cursor.load", "q", "")]),
    race |-> Of("postgres", TwoRecords, 0, 0,
        [a |-> C("append", "r1", "event"), b |-> C("delete", "r1", ""), c |-> C("append", "r1", "init"),
         d |-> C("delete", "r1", ""), e |-> C("append", "r1", "event")]),
    adrift |-> Of("sqlite", TwoRecords, 0, 1,
        [a |-> C("append", "r1", "event"), b |-> C("delete", "r1", ""), c |-> C("cursor", "q", 1),
         d |-> C("task.create", "t", Task("this")), e |-> C("close", "", "")]),
    closed |-> Of("sqlite", NoLog, 0, 1,
        [a |-> C("close", "", ""), b |-> C("close", "", ""), c |-> C("append", "r1", "init"), d |-> C("event", "q", E1),
         e |-> C("load", "r1", "")]),
    planned |-> Of("sqlite", NoLog, 0, 0,
        [a |-> C("task.create", "t", Task("this")), b |-> C("task.create", "t", Task("that")),
         c |-> C("task.plan", "t", [status |-> "planned", dag |-> "dag"]),
         d |-> C("task.status", "t", "running"), e |-> C("append", "r1", "init"), f |-> C("task.get", "t", "")]),
    catalog |-> Of("sqlite", NoLog, 0, 0,
        [a |-> C("tool.upsert", "x", "image"), b |-> C("tool.delete", "x", ""), c |-> C("edge.upsert", "g", [task |-> "t", status |-> "running", handoff |-> ""]),
         d |-> C("edge.result", "g", [status |-> "completed", handoff |-> "handoff"]), e |-> C("log", "g", "info"), f |-> C("tool.get", "x", "")]),
    events |-> [Of("sqlite", NoLog, 0, 0,
        [a |-> C("event", "q", E1), b |-> C("event", "q", E2), c |-> C("event", "q", E3), d |-> C("event", "q", E1)])
            EXCEPT !.asks = TRUE]]

MCHasPrefix(t, p) == (p = "llm." /\ t # "status") \/ (p = "llm.tool_" /\ t = "llm.tool_call")
MCLike(t, p) == p \in {"llm.", "llm.tool_"} /\ t # "status"
=============================================================================
