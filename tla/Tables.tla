------------------------------- MODULE Tables -------------------------------
(***************************************************************************)
(* What the SQL statements of the durable backends do to their tables      *)
(* (store/internal/sqlite, store/internal/postgres).  A NULL column is "": *)
(* nullableString makes the one out of the other.                          *)
(***************************************************************************)
EXTENDS Integers, Sequences, FiniteSetsExt

\* Statements.  Each gives the tables after it and how many rows it changed,
\* -1 when a constraint forbids it.  Foreign keys are declared and not enforced.

Changed(db, n) == [db |-> db, rows |-> n]

\* The row of key k becomes row, if there is one
Update(table, k, row) == [table EXCEPT ![k] = row]

\* The same, if there is one or not
Upsert(table, k, row) == [j \in DOMAIN table \cup {k} |-> IF j = k THEN row ELSE table[j]]

\* PRIMARY KEY (runner_id, sequence_number)
InsertRunnerRecord(db, k, rec) ==
    IF \E i \in DOMAIN db.records[k] : db.records[k][i].seq = rec.seq THEN Changed(db, -1)
    ELSE Changed([db EXCEPT !.records[k] = Append(@, rec)], 1)

InsertRequestStreamEvent(db, e) ==
    IF \E o \in db.events : o.request = e.request /\ o.seq = e.seq THEN Changed(db, -1)
    ELSE Changed([db EXCEPT !.events = @ \cup {e}], 1)

UpsertSnapshotCursor(db, k, seq) == Changed([db EXCEPT !.cursors = Upsert(@, k, seq)], 1)

\* A row that is looked up counts as one.
Found(db, table, k) == Changed(db, IF k \in DOMAIN table THEN 1 ELSE 0)
GetSnapshotCursor(db, k) == Found(db, db.cursors, k)
GetTask(db, k) == Found(db, db.tasks, k)
GetTool(db, k) == Found(db, db.tools, k)

UpsertTool(db, k, v) == Changed([db EXCEPT !.tools = Upsert(@, k, v)], 1)

DeleteTool(db, k) ==
    IF k \notin DOMAIN db.tools THEN Changed(db, 0)
    ELSE Changed([db EXCEPT !.tools = [n \in DOMAIN @ \ {k} |-> @[n]]], 1)

\* A task row has a status, a request and a dag, an edge row a task, a status and
\* a handoff; all of them are the caller's.
CreateTask(db, k, row) ==
    IF k \in DOMAIN db.tasks THEN Changed(db, -1)
    ELSE Changed([db EXCEPT !.tasks = Upsert(@, k, row)], 1)

UpdateTaskStatus(db, k, v) ==
    IF k \notin DOMAIN db.tasks THEN Changed(db, 0)
    ELSE Changed([db EXCEPT !.tasks = Update(@, k, [@[k] EXCEPT !.status = v])], 1)

UpdateTaskPlan(db, k, v) ==
    IF k \notin DOMAIN db.tasks THEN Changed(db, 0)
    ELSE Changed([db EXCEPT !.tasks = Update(@, k, [@[k] EXCEPT !.status = v.status, !.dag = v.dag])], 1)

UpsertEdge(db, k, row) == Changed([db EXCEPT !.edges = Upsert(@, k, row)], 1)

UpdateEdgeResult(db, k, v) ==
    IF k \notin DOMAIN db.edges THEN Changed(db, 0)
    ELSE Changed([db EXCEPT !.edges = Update(@, k, [@[k] EXCEPT !.status = v.status, !.handoff = v.handoff])], 1)

InsertLog(db, k, v) == Changed([db EXCEPT !.logs = Append(@, <<k, v>>)], 1)
=============================================================================
