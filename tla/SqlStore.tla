------------------------------ MODULE SqlStore ------------------------------
(***************************************************************************)
(* The durable backends and their markdown mirror (store/runtime,          *)
(* store/internal/backend, store/internal/sqlite,                          *)
(* store/internal/postgres).  Callers append, load and delete runner       *)
(* records, append request events, save cursors, keep the catalog and      *)
(* close the store, all at once.  The primary is SQLite, where one writer  *)
(* at a time holds the database, or Postgres, where appends to a runner's  *)
(* log exclude each other; the mirror is written after it.                 *)
(***************************************************************************)
EXTENDS Tables

CONSTANTS
    Caller,     \* the callers
    Runner,     \* runner ids
    Stripe,     \* compositeRunnerLockIndex: the stripe of a runner id
    Scenarios   \* by name: the backend, each caller's call, the log there is
                \* at first, how many calls may fail or be canceled, and
                \* whether EventQueries are asked

None == "none"

\* A record in a runner's log, with the caller who appended it (a ghost)
Record == [seq : Nat, kind : {"init", "event"}, by : Caller \cup {"before"}]

\* The first record of a log, and no other, is its init record, and the sequence
\* numbers have no gap.
Whole(log) == \A i \in DOMAIN log : log[i].seq = i /\ (log[i].kind = "init") = (i = 1)

ASSUME SqlStoreAssumption ==
    /\ Caller \cap {None, "leaked", "before"} = {}
    /\ Runner \subseteq DOMAIN Stripe
    /\ \A s \in DOMAIN Scenarios :
         /\ DOMAIN Scenarios[s].calls \subseteq Caller
         /\ \A c \in DOMAIN Scenarios[s].calls : LET call == Scenarios[s].calls[c] IN
              /\ call.kind \in {"append", "load", "delete"} => call.key \in Runner
              /\ call.kind = "append" => call.arg \in {"init", "event"}
         /\ Scenarios[s].log \in [Runner -> Seq(Record)]
         /\ \A r \in Runner : Whole(Scenarios[s].log[r])

VARIABLES
    scenario,   \* the scenario
    pc,         \* where each call stands
    result,     \* what it returned
    stripe,     \* compositeRunnerStore.appendLocks
    mutex,      \* runnerRecordState of each runner id, in the SQLite store
    advisory,   \* pg_advisory_xact_lock of each runner id
    writer,     \* who is in a SQLite transaction, "leaked" if its connection is idle
                \* in the pool again
    seen,       \* the last sequence number a transaction read
    db,         \* the committed tables
    pending,    \* the tables as the leaked connection sees them
    mirror,     \* the mirror's runner logs, events and cursors
    erased,     \* callers whose record was deleted (a ghost)
    adrift,     \* callers whose statement ran on the leaked connection (a ghost)
    torn,       \* runners whose log was deleted while an append was about to
                \* insert what it had read (a ghost)
    canceled,   \* callers whose context is canceled
    once,       \* who closes the store, with the outcome
    left        \* faults and cancellations left

locks == <<stripe, mutex, advisory, writer>>
ghosts == <<erased, adrift, torn>>
vars  == <<scenario, pc, result, locks, seen, db, pending, mirror, ghosts, canceled, once, left>>

Sqlite == scenario.backend = "sqlite"
Calls  == DOMAIN scenario.calls
Call(c) == scenario.calls[c]
Is(c, kind, at) == c \in Calls /\ Call(c).kind = kind /\ pc[c] = at
Key(c) == Call(c).key

Init ==
    /\ \E s \in DOMAIN Scenarios : scenario = Scenarios[s]
    /\ pc = [c \in Caller |-> "start"] /\ result = [c \in Caller |-> ""]
    /\ stripe = [s \in {Stripe[r] : r \in Runner} |-> None]
    /\ mutex = [r \in Runner |-> None] /\ advisory = [r \in Runner |-> None]
    /\ writer = None /\ seen = [c \in Caller |-> 0]
    /\ db = [records |-> scenario.log, events |-> {}, cursors |-> << >>,
             tools |-> << >>, tasks |-> << >>, edges |-> << >>, logs |-> << >>]
    /\ mirror = [records |-> scenario.log, events |-> {}, cursors |-> << >>]
    /\ pending = << >> /\ erased = {} /\ adrift = {} /\ torn = {} /\ canceled = {}
    /\ once = [by |-> None, outcome |-> None]
    /\ left = [faults |-> scenario.faults, cancels |-> scenario.cancels]

Spend(what) == left[what] > 0 /\ left' = [left EXCEPT ![what] = @ - 1]
Closed == once.by # None

Goes(c, at) == pc' = [pc EXCEPT ![c] = at] /\ UNCHANGED result
Returns(c, r) == pc' = [pc EXCEPT ![c] = "done"] /\ result' = [result EXCEPT ![c] = r]

Held(lock, c) == [k \in DOMAIN lock |-> IF lock[k] = c THEN None ELSE lock[k]]

\* What a call gives back when it leaves the primary, and when it returns
LeavePrimary(c) ==
    /\ mutex' = Held(mutex, c) /\ advisory' = Held(advisory, c)
    /\ writer' = IF writer = c THEN None ELSE writer
Release(c) == LeavePrimary(c) /\ stripe' = Held(stripe, c)

-----------------------------------------------------------------------------
\* Append to a runner's log

\* Mutant: the mirror is written without the stripe.
AppendStartUnlocked(c) ==
    /\ Is(c, "append", "start")
    /\ Goes(c, IF Sqlite THEN "mutex" ELSE "conn")
    /\ UNCHANGED <<scenario, stripe, mutex, advisory, writer, seen, db, pending, mirror, ghosts, canceled, once, left>>

AppendStart(c) ==
    /\ Is(c, "append", "start") /\ stripe[Stripe[Key(c)]] = None
    /\ stripe' = [stripe EXCEPT ![Stripe[Key(c)]] = c]
    /\ Goes(c, IF Sqlite THEN "mutex" ELSE "conn")
    /\ UNCHANGED <<scenario, mutex, advisory, writer, seen, db, pending, mirror, ghosts, canceled, once, left>>

\* The per-runner mutex of the SQLite store, which a delete and a load take too
LockState(c) ==
    /\ \/ Is(c, "append", "mutex") /\ Goes(c, "conn")
       \/ Is(c, "delete", "start") /\ Sqlite /\ Goes(c, "delete")
       \/ Is(c, "load", "start") /\ Sqlite /\ Goes(c, "load")
    /\ mutex[Key(c)] = None
    /\ mutex' = [mutex EXCEPT ![Key(c)] = c]
    /\ UNCHANGED <<scenario, stripe, advisory, writer, seen, db, pending, mirror, ghosts, canceled, once, left>>

InTransaction(c) == Is(c, "append", "read") \/ Is(c, "append", "insert")
HoldsConn(c) == Is(c, "append", "begin") \/ InTransaction(c)

\* An append has one connection from here to its end.
TakeConn(c) ==
    /\ Is(c, "append", "conn") /\ ~Closed
    /\ Goes(c, "begin")
    /\ UNCHANGED <<scenario, locks, seen, db, pending, mirror, ghosts, canceled, once, left>>

\* BEGIN IMMEDIATE, tried again while another transaction is open
BeginImmediate(c) ==
    /\ Is(c, "append", "begin") /\ Sqlite /\ writer = None
    /\ writer' = c
    /\ Goes(c, "read")
    /\ UNCHANGED <<scenario, stripe, mutex, advisory, seen, db, pending, mirror, ghosts, canceled, once, left>>

\* Postgres: BEGIN and pg_advisory_xact_lock, which waits for the other appends
BeginLocked(c) ==
    /\ Is(c, "append", "begin") /\ ~Sqlite /\ advisory[Key(c)] = None
    /\ advisory' = [advisory EXCEPT ![Key(c)] = c]
    /\ Goes(c, "read")
    /\ UNCHANGED <<scenario, stripe, mutex, writer, seen, db, pending, mirror, ghosts, canceled, once, left>>

\* The store is closed, or the context ends before there is a transaction.
BeginFails(c) ==
    /\ (Is(c, "append", "conn") /\ Closed) \/ ((Is(c, "append", "conn") \/ Is(c, "append", "begin")) /\ c \in canceled)
    /\ Returns(c, "error")
    /\ Release(c)
    /\ UNCHANGED <<scenario, seen, db, pending, mirror, ghosts, canceled, once, left>>

HasInit(log) == \E i \in DOMAIN log : log[i].kind = "init"
LastSequence(log) == Max({log[i].seq : i \in DOMAIN log} \cup {0})

\* Mutant: a second init record is admitted.
AdmitsAgain(log, kind) == kind = "init" \/ HasInit(log)

\* The first record, and only that one, is an init.
Admits(log, kind) == (kind = "init") = ~HasInit(log)

\* Mutant: a record that is refused leaves the transaction open.
ReadStateKeeps(c) ==
    LET log == db.records[Key(c)] IN
    /\ Is(c, "append", "read")
    /\ IF Admits(log, Call(c).arg)
       THEN /\ seen' = [seen EXCEPT ![c] = LastSequence(log)]
            /\ Goes(c, "insert")
            /\ UNCHANGED locks
       ELSE Returns(c, "refused") /\ UNCHANGED <<seen, locks>>
    /\ UNCHANGED <<scenario, db, pending, mirror, ghosts, canceled, once, left>>

\* GetRunnerRecordState; a record that may not come next is refused and the
\* transaction rolled back.
ReadState(c) ==
    LET log == db.records[Key(c)] IN
    /\ Is(c, "append", "read")
    /\ IF Admits(log, Call(c).arg)
       THEN /\ seen' = [seen EXCEPT ![c] = LastSequence(log)]
            /\ Goes(c, "insert")
            /\ UNCHANGED locks
       ELSE Returns(c, "refused") /\ Release(c) /\ UNCHANGED seen
    /\ UNCHANGED <<scenario, db, pending, mirror, ghosts, canceled, once, left>>

NextRecord(c) == [seq |-> seen[c] + 1, kind |-> Call(c).arg, by |-> c]

\* InsertRunnerRecord and COMMIT
InsertRecord(c) ==
    LET statement == InsertRunnerRecord(db, Key(c), NextRecord(c)) IN
    /\ Is(c, "append", "insert")
    /\ db' = statement.db
    /\ IF statement.rows < 0 THEN Returns(c, "error") /\ Release(c)
       ELSE Goes(c, "mirror") /\ LeavePrimary(c) /\ UNCHANGED stripe
    /\ UNCHANGED <<scenario, seen, pending, mirror, ghosts, canceled, once, left>>

\* Mutant: a failed commit is taken for a commit.
InsertFailsSilently(c) ==
    /\ Is(c, "append", "insert") /\ Spend("faults")
    /\ Returns(c, "ok")
    /\ Release(c)
    /\ UNCHANGED <<scenario, seen, db, pending, mirror, ghosts, canceled, once>>

\* A statement of the transaction fails: it is rolled back.
InsertFails(c) ==
    /\ Is(c, "append", "insert") /\ Spend("faults")
    /\ Returns(c, "error")
    /\ Release(c)
    /\ UNCHANGED <<scenario, seen, db, pending, mirror, ghosts, canceled, once>>

\* The context ends inside the transaction, which is rolled back.
TxCanceled(c) ==
    /\ c \in canceled /\ InTransaction(c)
    /\ Returns(c, "error")
    /\ Release(c)
    /\ UNCHANGED <<scenario, seen, db, pending, mirror, ghosts, canceled, once, left>>

\* rollbackImmediate has the canceled context and may not reach the database: the
\* connection goes back to the pool with its transaction open, after the insert or
\* before it.
TxLeaks(c) ==
    /\ c \in canceled /\ InTransaction(c) /\ Sqlite /\ ~Closed
    /\ Returns(c, "error")
    /\ stripe' = Held(stripe, c) /\ mutex' = Held(mutex, c) /\ writer' = "leaked"
    /\ \/ pending' = db
       \/ pc[c] = "insert" /\ pending' = InsertRunnerRecord(db, Key(c), NextRecord(c)).db
    /\ UNCHANGED <<scenario, advisory, seen, db, mirror, ghosts, canceled, once, left>>

\* The mirror appends with sequence numbers of its own; that it cannot is an
\* error although the primary has the record.
MirrorRecord(c) ==
    LET log == mirror.records[Key(c)] IN
    /\ Is(c, "append", "mirror")
    /\ \/ /\ Admits(log, Call(c).arg)
          /\ mirror' = [mirror EXCEPT !.records[Key(c)] =
                           Append(@, [seq |-> LastSequence(@) + 1, kind |-> Call(c).arg, by |-> c])]
          /\ Returns(c, "ok")
          /\ UNCHANGED left
       \/ ~Admits(log, Call(c).arg) /\ Returns(c, "error") /\ UNCHANGED <<mirror, left>>
       \/ Spend("faults") /\ Returns(c, "error") /\ UNCHANGED mirror
    /\ Release(c)
    /\ UNCHANGED <<scenario, seen, db, pending, ghosts, canceled, once>>

-----------------------------------------------------------------------------
\* A statement on its own gets a connection from the pool, which may be the leaked
\* one.  It then runs inside the transaction nobody commits.  The pool keeps that
\* connection or, having enough idle ones, closes it, which rolls it back.

View(conn) == IF conn = "leaked" THEN pending ELSE db
Locked == Sqlite /\ writer # None

Adrift(c, tables) ==
    /\ writer = "leaked" /\ ~Closed
    /\ adrift' = adrift \cup {c}
    /\ \/ pending' = tables /\ UNCHANGED writer
       \/ pending' = << >> /\ writer' = None
    /\ UNCHANGED <<scenario, advisory, seen, db, mirror, erased, torn, canceled, once, left>>

-----------------------------------------------------------------------------
\* Load and delete a runner's log

\* A read meets the lock of a commit only.
LoadRecords(c) ==
    /\ Is(c, "load", IF Sqlite THEN "load" ELSE "start")
    /\ \/ (Closed \/ c \in canceled \/ Locked) /\ Returns(c, "error")
       \/ ~Closed /\ Returns(c, IF db.records[Key(c)] = << >> THEN "none" ELSE "ok")
    /\ Release(c)
    /\ UNCHANGED <<scenario, seen, db, pending, mirror, ghosts, canceled, once, left>>

\* DeleteRunnerRecords, which is told when there is no record to delete
DeleteRunnerRecords(c, fails) ==
    LET log == db.records[Key(c)]
        met == \E d \in Calls : Is(d, "append", "insert") /\ Key(d) = Key(c) IN
    /\ IF fails THEN Returns(c, "error") /\ UNCHANGED <<db, erased, torn>>
       ELSE IF log = << >> THEN Returns(c, "none") /\ UNCHANGED <<db, erased, torn>>
       ELSE /\ db' = [db EXCEPT !.records[Key(c)] = << >>]
            /\ erased' = erased \cup {log[i].by : i \in DOMAIN log}
            /\ torn' = IF met THEN torn \cup {Key(c)} ELSE torn
            /\ Goes(c, "unmirror")
    /\ mutex' = Held(mutex, c)
    /\ UNCHANGED <<scenario, stripe, advisory, writer, seen, pending, mirror, adrift, canceled, once, left>>

\* The database is locked while a transaction is open, and the delete does not wait.
DeleteInSqlite(c) ==
    /\ Is(c, "delete", "delete")
    /\ DeleteRunnerRecords(c, Closed \/ c \in canceled \/ writer # None)

\* Postgres deletes the rows that are committed; nothing excludes an append.
DeleteInPostgres(c) ==
    /\ Is(c, "delete", "start") /\ ~Sqlite
    /\ DeleteRunnerRecords(c, Closed \/ c \in canceled)

UnmirrorRecords(c) ==
    /\ Is(c, "delete", "unmirror")
    /\ \/ /\ mirror' = [mirror EXCEPT !.records[Key(c)] = << >>]
          /\ Returns(c, IF mirror.records[Key(c)] = << >> THEN "error" ELSE "ok")
          /\ UNCHANGED left
       \/ Spend("faults") /\ Returns(c, "error") /\ UNCHANGED mirror
    /\ UNCHANGED <<scenario, locks, seen, db, pending, ghosts, canceled, once>>

-----------------------------------------------------------------------------
\* Single statements: events, cursors and the catalog

Reads == {"cursor.load", "tool.get", "task.get"}

\* What a statement gives its caller
Executed(c, statement, next) ==
    IF statement.rows < 0 THEN Returns(c, "error")
    ELSE IF statement.rows = 0 THEN Returns(c, "none")
    ELSE IF next = "done" THEN Returns(c, "ok") ELSE Goes(c, next)

\* A connection of its own finds a write locked while a transaction is open.
Exec(c, conn, statement, next) ==
    /\ c \in Calls /\ pc[c] = "start" /\ ~Closed
    /\ \/ /\ conn = "own" /\ (~Locked \/ Call(c).kind \in Reads)
          /\ db' = statement.db
          /\ UNCHANGED <<scenario, advisory, writer, seen, pending, mirror, ghosts, canceled, once, left>>
       \/ conn = "leaked" /\ Adrift(c, statement.db)
    /\ Executed(c, statement, next)
    /\ UNCHANGED <<stripe, mutex>>

AppendEvent(c, conn) ==
    Is(c, "event", "start") /\ Exec(c, conn, InsertRequestStreamEvent(View(conn), Call(c).arg), "mirror")

SaveCursor(c, conn) ==
    Is(c, "cursor", "start") /\ Exec(c, conn, UpsertSnapshotCursor(View(conn), Key(c), Call(c).arg), "mirror")

LoadCursor(c, conn) == Is(c, "cursor.load", "start") /\ Exec(c, conn, GetSnapshotCursor(View(conn), Key(c)), "done")

ToolCall(c, conn) ==
    \/ Is(c, "tool.upsert", "start") /\ Exec(c, conn, UpsertTool(View(conn), Key(c), Call(c).arg), "done")
    \/ Is(c, "tool.delete", "start") /\ Exec(c, conn, DeleteTool(View(conn), Key(c)), "done")
    \/ Is(c, "tool.get", "start") /\ Exec(c, conn, GetTool(View(conn), Key(c)), "done")

TaskCall(c, conn) ==
    \/ Is(c, "task.create", "start") /\ Exec(c, conn, CreateTask(View(conn), Key(c), Call(c).arg), "done")
    \/ Is(c, "task.get", "start") /\ Exec(c, conn, GetTask(View(conn), Key(c)), "done")

TaskUpdate(c, conn) ==
    \/ Is(c, "task.status", "start") /\ Exec(c, conn, UpdateTaskStatus(View(conn), Key(c), Call(c).arg), "done")
    \/ Is(c, "task.plan", "start") /\ Exec(c, conn, UpdateTaskPlan(View(conn), Key(c), Call(c).arg), "done")

EdgeCall(c, conn) ==
    \/ Is(c, "edge.upsert", "start") /\ Exec(c, conn, UpsertEdge(View(conn), Key(c), Call(c).arg), "done")
    \/ Is(c, "edge.result", "start") /\ Exec(c, conn, UpdateEdgeResult(View(conn), Key(c), Call(c).arg), "done")
    \/ Is(c, "log", "start") /\ Exec(c, conn, InsertLog(View(conn), Key(c), Call(c).arg), "done")

Statement(c, conn) ==
    \/ AppendEvent(c, conn) \/ SaveCursor(c, conn) \/ LoadCursor(c, conn) \/ ToolCall(c, conn)
    \/ TaskCall(c, conn) \/ TaskUpdate(c, conn) \/ EdgeCall(c, conn)

\* BEGIN IMMEDIATE inside a transaction is an error, and not one to wait for.
BeginAdrift(c) ==
    /\ Is(c, "append", "conn") /\ Adrift(c, pending)
    /\ Returns(c, "error")
    /\ stripe' = Held(stripe, c) /\ mutex' = Held(mutex, c)

LoadAdrift(c) ==
    /\ Is(c, "load", "load") /\ Adrift(c, pending)
    /\ Returns(c, IF pending.records[Key(c)] = << >> THEN "none" ELSE "ok")
    /\ mutex' = Held(mutex, c) /\ UNCHANGED stripe

DeleteAdrift(c) ==
    /\ Is(c, "delete", "delete") /\ Adrift(c, [pending EXCEPT !.records[Key(c)] = << >>])
    /\ IF pending.records[Key(c)] = << >> THEN Returns(c, "none") ELSE Goes(c, "unmirror")
    /\ mutex' = Held(mutex, c) /\ UNCHANGED stripe

\* Only the event store waits for the lock, until its context ends.
ExecFails(c) ==
    /\ c \in Calls /\ Call(c).kind \notin {"append", "delete", "load", "close"} /\ pc[c] = "start"
    /\ Closed \/ c \in canceled \/ (Locked /\ Call(c).kind # "event")
    /\ Returns(c, "error")
    /\ UNCHANGED <<scenario, locks, seen, db, pending, mirror, ghosts, canceled, once, left>>

\* The event log's mirror is best effort.
MirrorEvent(c) ==
    /\ Is(c, "event", "mirror")
    /\ Returns(c, "ok")
    /\ \/ mirror' = [mirror EXCEPT !.events = @ \cup {Call(c).arg}] /\ UNCHANGED left
       \/ Spend("faults") /\ UNCHANGED mirror
    /\ UNCHANGED <<scenario, locks, seen, db, pending, ghosts, canceled, once>>

MirrorCursor(c) ==
    /\ Is(c, "cursor", "mirror")
    /\ \/ mirror' = [mirror EXCEPT !.cursors = Upsert(@, Key(c), Call(c).arg)] /\ Returns(c, "ok") /\ UNCHANGED left
       \/ Spend("faults") /\ Returns(c, "error") /\ UNCHANGED mirror
    /\ UNCHANGED <<scenario, locks, seen, db, pending, ghosts, canceled, once>>

-----------------------------------------------------------------------------
\* Close and cancellation

\* closeOnce: the first caller closes the primary and then the mirror; what is
\* in a transaction keeps its connection, idle ones are closed.
CloseStart(c) ==
    /\ Is(c, "close", "start") /\ ~Closed
    /\ once' = [once EXCEPT !.by = c]
    /\ Goes(c, "closing")
    /\ writer' = IF writer = "leaked" THEN None ELSE writer
    /\ pending' = << >>
    /\ UNCHANGED <<scenario, stripe, mutex, advisory, seen, db, mirror, ghosts, canceled, left>>

\* closeWithContext: the database has drained, or the context ends first.
CloseEnds(c) ==
    /\ Is(c, "close", "closing")
    /\ \E r \in {"ok", "error"} :
          /\ IF r = "ok" THEN \A d \in Calls : ~HoldsConn(d) ELSE c \in canceled
          /\ once' = [once EXCEPT !.outcome = r]
          /\ Returns(c, r)
    /\ UNCHANGED <<scenario, locks, seen, db, pending, mirror, ghosts, canceled, left>>

\* Every other caller waits for it and gets its outcome.
CloseAgain(c) ==
    /\ Is(c, "close", "start") /\ once.outcome # None
    /\ Returns(c, once.outcome)
    /\ UNCHANGED <<scenario, locks, seen, db, pending, mirror, ghosts, canceled, once, left>>

Cancel(c) ==
    /\ c \in Calls \ canceled /\ pc[c] # "done" /\ Spend("cancels")
    /\ canceled' = canceled \cup {c}
    /\ UNCHANGED <<scenario, pc, result, locks, seen, db, pending, mirror, ghosts, once>>

Step(c) ==
    \/ AppendStart(c) \/ LockState(c) \/ TakeConn(c) \/ BeginImmediate(c) \/ BeginLocked(c) \/ BeginFails(c)
    \/ ReadState(c) \/ InsertRecord(c) \/ InsertFails(c) \/ TxCanceled(c) \/ TxLeaks(c) \/ MirrorRecord(c)
    \/ LoadRecords(c) \/ DeleteInSqlite(c) \/ DeleteInPostgres(c) \/ UnmirrorRecords(c)
    \/ Statement(c, "own") \/ ExecFails(c) \/ MirrorEvent(c) \/ MirrorCursor(c)
    \/ CloseStart(c) \/ CloseEnds(c) \/ CloseAgain(c)

\* A caller who gets the leaked connection
StepAdrift(c) == BeginAdrift(c) \/ LoadAdrift(c) \/ DeleteAdrift(c) \/ Statement(c, "leaked")

Next == \E c \in Caller : Step(c) \/ StepAdrift(c) \/ Cancel(c)

Spec == Init /\ [][Next]_vars

\* Every call goes on when it can; nobody has to cancel one, and the pool need not
\* hand out one connection rather than another.
FairSpec == Spec /\ \A c \in Caller : WF_vars(Step(c))

-----------------------------------------------------------------------------
\* Properties

\* What the call asked to store is in the primary, or somebody deleted it.
Stored(c) ==
    /\ Call(c).kind = "append" => c \in erased \/ \E i \in DOMAIN db.records[Key(c)] : db.records[Key(c)][i].by = c
    /\ Call(c).kind = "event" => Call(c).arg \in db.events
    /\ Call(c).kind = "cursor" => Key(c) \in DOMAIN db.cursors
    /\ Call(c).kind = "task.create" => Key(c) \in DOMAIN db.tasks
    /\ Call(c).kind = "edge.upsert" => Key(c) \in DOMAIN db.edges

\* What a caller was told is stored is in the primary, until somebody deletes it
\* (AppendRecord, AppendEvent, SaveCursor, CreateTask, UpsertEdge).  The exception
\* is a call that got the connection an append left in its canceled transaction.
AckedIsStored == \A c \in Calls \ adrift : result[c] = "ok" => Stored(c)

\* The numbers of a runner's log ascend and it has one init record at most; it
\* starts with that record and has no gap, unless it was deleted in Postgres while
\* an append was about to insert what it had read.
LogIsWhole ==
    \A r \in Runner : LET log == db.records[r] IN
        /\ \A i, j \in DOMAIN log : i < j => log[i].seq < log[j].seq /\ ~(log[i].kind = "init" /\ log[j].kind = "init")
        /\ Sqlite \/ r \notin torn => Whole(log)

\* The mirror has the primary's runner logs once every call has returned, unless
\* one of them was told of an error or the log was deleted under an append in
\* Postgres; it has no event the primary lacks, except those that were inserted on
\* a connection left in a canceled transaction.
MirrorFollows ==
    /\ \A e \in mirror.events \ db.events : \E c \in adrift : Call(c).kind = "event" /\ Call(c).arg = e
    /\ (\A c \in Calls : pc[c] = "done" /\ result[c] # "error") =>
           \A r \in Runner : Sqlite \/ r \notin torn => mirror.records[r] = db.records[r]

\* Every call returns, unless a canceled transaction was left open and an append or
\* an event whose context is alive waits for its end.
CallsReturn ==
    <>[](\/ \A c \in Calls : pc[c] = "done"
         \/ writer = "leaked" /\ \E c \in Calls \ canceled : Is(c, "append", "begin") \/ Is(c, "event", "start"))
=============================================================================
