--------------------------- MODULE SqlStoreProofs ---------------------------
(***************************************************************************)
(* Proofs about the durable backends: for any number of callers and        *)
(* runners, on SQLite and on Postgres, whatever fails or is canceled.      *)
(***************************************************************************)
EXTENDS SqlStore, TLAPS

Columns == {"records", "events", "cursors", "tools", "tasks", "edges", "logs"}

\* s is a sequence, whatever its elements are.
IsSeq(s) == s \in Seq({s[i] : i \in DOMAIN s})

\* What the other invariants need of the types
TypeInv ==
    /\ scenario \in {Scenarios[s] : s \in DOMAIN Scenarios}
    /\ DOMAIN pc = Caller /\ DOMAIN result = Caller /\ DOMAIN seen = Caller
    /\ DOMAIN advisory = Runner
    /\ DOMAIN db = Columns /\ DOMAIN db.records = Runner
    /\ \A r \in Runner : IsSeq(db.records[r])

\* A sequence and one element more
LEMMA IsSeqAppend ==
    ASSUME NEW s, IsSeq(s), NEW x
    PROVE  /\ IsSeq(Append(s, x)) /\ Len(s) \in Nat /\ DOMAIN s = 1 .. Len(s)
           /\ Len(Append(s, x)) = Len(s) + 1 /\ DOMAIN Append(s, x) = 1 .. Len(s) + 1
           /\ \A i \in DOMAIN s : Append(s, x)[i] = s[i]
           /\ Append(s, x)[Len(s) + 1] = x
<1> DEFINE S == {s[i] : i \in DOMAIN s}
           a == Append(s, x)
<1>1. s \in Seq(S)
  BY DEF IsSeq
<1> HIDE DEF S
<1>2. /\ Len(s) \in Nat /\ DOMAIN s = 1 .. Len(s)
      /\ Len(a) = Len(s) + 1 /\ DOMAIN a = 1 .. Len(s) + 1
      /\ \A i \in DOMAIN s : a[i] = s[i]
      /\ a[Len(s) + 1] = x
  BY <1>1
<1>3. a \in Seq(S \cup {x})
  BY <1>1
<1>4. S \cup {x} = {a[i] : i \in DOMAIN a}
  BY <1>2 DEF S
<1> QED
  BY <1>2, <1>3, <1>4 DEF IsSeq

\* The empty log
LEMMA IsSeqEmpty == IsSeq(<< >>) /\ DOMAIN << >> = {} /\ Len(<< >>) = 0
<1>1. << >> \in Seq({<< >>[i] : i \in DOMAIN << >>})
  OBVIOUS
<1>2. DOMAIN << >> = {}
  OBVIOUS
<1>3. Len(<< >>) = 0
  OBVIOUS
<1> QED
  BY <1>1, <1>2, <1>3 DEF IsSeq

\* What a caller asks for
LEMMA CallsAreTyped ==
    ASSUME TypeInv
    PROVE  /\ Calls \subseteq Caller
           /\ \A c \in Calls : /\ Call(c).kind \in {"append", "load", "delete"} => Key(c) \in Runner
                               /\ Call(c).kind = "append" => Call(c).arg \in {"init", "event"}
  BY SqlStoreAssumption DEF TypeInv, Calls, Call, Key

\* An insert appends to one log, or its key is taken.
Conflict(c)  == \E i \in DOMAIN db.records[Key(c)] : db.records[Key(c)][i].seq = seen[c] + 1
Inserts(c)   == InsertRecord(c) /\ ~Conflict(c)
Conflicts(c) == InsertRecord(c) /\ Conflict(c)

\* The steps that leave the primary's tables as they are
Aside(c) ==
    \/ AppendStart(c) \/ LockState(c) \/ TakeConn(c) \/ BeginImmediate(c) \/ BeginLocked(c) \/ BeginFails(c)
    \/ ReadState(c) \/ Conflicts(c) \/ InsertFails(c) \/ TxCanceled(c) \/ TxLeaks(c)
    \/ MirrorRecord(c) \/ LoadRecords(c) \/ UnmirrorRecords(c) \/ ExecFails(c) \/ MirrorEvent(c) \/ MirrorCursor(c)
    \/ CloseStart(c) \/ CloseEnds(c) \/ CloseAgain(c) \/ Cancel(c) \/ StepAdrift(c)

\* Whatever a caller does
Acts(c) == Step(c) \/ StepAdrift(c) \/ Cancel(c)

LEMMA Kinds ==
    ASSUME NEW c, Acts(c)
    PROVE  Aside(c) \/ Statement(c, "own") \/ Inserts(c) \/ DeleteInSqlite(c) \/ DeleteInPostgres(c)
  BY DEF Acts, Step, Aside, Inserts, Conflicts

\* A single statement changes one table, never a runner's log.
LEMMA StatementsKeepRecords ==
    ASSUME NEW c, DOMAIN db = Columns, Statement(c, "own")
    PROVE  /\ db'.records = db.records /\ DOMAIN db' = Columns
           /\ (\E r \in {"error", "none", "ok"} : Returns(c, r)) \/ Goes(c, "mirror")
           /\ c \in Calls /\ pc[c] = "start" /\ Call(c).kind \notin {"append", "delete", "load", "close"}
           /\ UNCHANGED <<scenario, locks, seen, pending, mirror, ghosts, canceled, once, left>>
<1> USE DEF Exec, Executed, View, Changed, Found, Columns, Is, locks, ghosts
<1>1. CASE AppendEvent(c, "own")
  BY <1>1 DEF AppendEvent, InsertRequestStreamEvent
<1>2. CASE SaveCursor(c, "own")
  BY <1>2 DEF SaveCursor, UpsertSnapshotCursor
<1>3. CASE LoadCursor(c, "own")
  BY <1>3 DEF LoadCursor, GetSnapshotCursor
<1>4. CASE ToolCall(c, "own")
  BY <1>4 DEF ToolCall, UpsertTool, DeleteTool, GetTool
<1>5. CASE TaskCall(c, "own")
  BY <1>5 DEF TaskCall, CreateTask, GetTask
<1>6. CASE TaskUpdate(c, "own")
  BY <1>6 DEF TaskUpdate, UpdateTaskStatus, UpdateTaskPlan
<1>7. CASE EdgeCall(c, "own")
  BY <1>7 DEF EdgeCall, UpsertEdge, UpdateEdgeResult, InsertLog
<1> QED
  BY <1>1, <1>2, <1>3, <1>4, <1>5, <1>6, <1>7 DEF Statement

\* A statement on the leaked connection
LEMMA StatementAdrift ==
    ASSUME NEW c, Statement(c, "leaked")
    PROVE  \E tables : /\ Adrift(c, tables) /\ UNCHANGED stripe
                       /\ c \in Calls /\ pc[c] = "start" /\ Call(c).kind \notin {"append", "delete", "load", "close"}
                       /\ \/ \E r \in {"error", "none", "ok"} : Returns(c, r)
                          \/ Goes(c, "mirror") /\ Call(c).kind \in {"event", "cursor"}
<1> USE DEF Exec, Executed, Is
<1>1. CASE AppendEvent(c, "leaked") \/ SaveCursor(c, "leaked")
  BY <1>1 DEF AppendEvent, SaveCursor
<1>2. CASE LoadCursor(c, "leaked")
  BY <1>2 DEF LoadCursor
<1>3. CASE ToolCall(c, "leaked")
  BY <1>3 DEF ToolCall
<1>4. CASE TaskCall(c, "leaked") \/ TaskUpdate(c, "leaked")
  BY <1>4 DEF TaskCall, TaskUpdate
<1>5. CASE EdgeCall(c, "leaked")
  BY <1>5 DEF EdgeCall
<1> QED
  BY <1>1, <1>2, <1>3, <1>4, <1>5 DEF Statement

\* A caller who got the leaked connection goes on, or returns, and leaves the
\* committed tables alone.
LEMMA AdriftFrame ==
    ASSUME NEW c, StepAdrift(c)
    PROVE  /\ c \in Calls /\ pc[c] \in {"start", "conn", "load", "delete"}
           /\ writer = "leaked" /\ writer' \in {"leaked", None} /\ adrift' = adrift \cup {c}
           /\ UNCHANGED stripe \/ stripe' = Held(stripe, c)
           /\ \/ \E r \in {"error", "none", "ok"} : Returns(c, r)
              \/ Goes(c, "mirror") /\ Call(c).kind \in {"event", "cursor"}
              \/ Goes(c, "unmirror") /\ Call(c).kind = "delete"
           /\ UNCHANGED <<scenario, advisory, seen, db, mirror, erased, torn>>
<1> USE DEF Adrift, Is
<1>1. CASE BeginAdrift(c)
  BY <1>1 DEF BeginAdrift
<1>2. CASE LoadAdrift(c)
  BY <1>2 DEF LoadAdrift
<1>3. CASE DeleteAdrift(c)
  BY <1>3 DEF DeleteAdrift
<1>4. CASE Statement(c, "leaked")
  BY <1>4, StatementAdrift
<1> QED
  BY <1>1, <1>2, <1>3, <1>4 DEF StepAdrift

LEMMA ConflictFrame ==
    ASSUME NEW c, Conflicts(c)
    PROVE  /\ Is(c, "append", "insert") /\ Returns(c, "error") /\ Release(c)
           /\ UNCHANGED <<scenario, seen, db, pending, mirror, ghosts, canceled, once, left>>
  BY DEF Conflicts, Conflict, InsertRecord, InsertRunnerRecord, NextRecord, Changed

\* What a step aside does to a caller: it goes on, or returns
LEMMA AsideFrame ==
    ASSUME NEW c \in Caller, TypeInv, Aside(c)
    PROVE  /\ UNCHANGED <<scenario, db, erased, torn>> /\ adrift \subseteq adrift'
           /\ DOMAIN pc' = Caller /\ DOMAIN result' = Caller /\ DOMAIN seen' = Caller /\ DOMAIN advisory' = Runner
           /\ \A d \in Caller \ {c} : pc'[d] = pc[d] /\ result'[d] = result[d] /\ seen'[d] = seen[d]
<1> USE DEF TypeInv, Goes, Returns, Release, LeavePrimary, Held, locks, ghosts
<1>1. CASE AppendStart(c) \/ LockState(c) \/ TakeConn(c) \/ BeginImmediate(c) \/ BeginLocked(c) \/ BeginFails(c)
  BY <1>1 DEF AppendStart, LockState, TakeConn, BeginImmediate, BeginLocked, BeginFails
<1>2. CASE ReadState(c) \/ InsertFails(c)
  BY <1>2 DEF ReadState, InsertFails
<1>3. CASE TxCanceled(c) \/ TxLeaks(c)
  BY <1>3 DEF TxCanceled, TxLeaks
<1>4. CASE MirrorRecord(c) \/ LoadRecords(c) \/ UnmirrorRecords(c)
  BY <1>4 DEF MirrorRecord, LoadRecords, UnmirrorRecords
<1>5. CASE ExecFails(c) \/ MirrorEvent(c) \/ MirrorCursor(c)
  BY <1>5 DEF ExecFails, MirrorEvent, MirrorCursor
<1>6. CASE CloseStart(c) \/ CloseEnds(c) \/ CloseAgain(c) \/ Cancel(c)
  BY <1>6 DEF CloseStart, CloseEnds, CloseAgain, Cancel
<1>7. CASE Conflicts(c)
  BY <1>7, ConflictFrame
<1>8. CASE StepAdrift(c)
  BY <1>8, AdriftFrame
<1> QED
  BY <1>1, <1>2, <1>3, <1>4, <1>5, <1>6, <1>7, <1>8 DEF Aside

\* A committed insert appends to one log.
LEMMA InsertFrame ==
    ASSUME NEW c \in Caller, TypeInv, Inserts(c)
    PROVE  LET rec == [seq |-> seen[c] + 1, kind |-> Call(c).arg, by |-> c] IN
           /\ Is(c, "append", "insert") /\ Key(c) \in Runner
           /\ DOMAIN db' = Columns /\ DOMAIN db'.records = Runner /\ db'.events = db.events
           /\ db'.cursors = db.cursors /\ db'.tasks = db.tasks /\ db'.edges = db.edges
           /\ db'.records[Key(c)] = Append(db.records[Key(c)], rec)
           /\ \A r \in Runner \ {Key(c)} : db'.records[r] = db.records[r]
           /\ Goes(c, "mirror") /\ LeavePrimary(c)
           /\ UNCHANGED <<scenario, stripe, seen, mirror, ghosts, canceled, once, left>>
<1> DEFINE rec == [seq |-> seen[c] + 1, kind |-> Call(c).arg, by |-> c]
<1>1. Is(c, "append", "insert") /\ Key(c) \in Runner
  BY CallsAreTyped DEF Inserts, InsertRecord, Is
<1>2. db' = [db EXCEPT !.records[Key(c)] = Append(@, rec)] /\ Goes(c, "mirror") /\ LeavePrimary(c)
      /\ UNCHANGED <<scenario, stripe, seen, mirror, ghosts, canceled, once, left>>
  BY DEF Inserts, InsertRecord, Conflict, InsertRunnerRecord, NextRecord, Changed
<1> QED
  BY <1>1, <1>2 DEF TypeInv, Columns

\* A delete that finds nothing, or fails
Keeps(c) == UNCHANGED <<db, erased, torn>> /\ \E r \in {"error", "none"} : Returns(c, r)

\* A delete that empties the log
Empties(c) ==
    /\ Sqlite => writer = None
    /\ DOMAIN db' = Columns /\ DOMAIN db'.records = Runner /\ db'.events = db.events
    /\ db'.cursors = db.cursors /\ db'.tasks = db.tasks /\ db'.edges = db.edges
    /\ db'.records[Key(c)] = << >> /\ db.records[Key(c)] # << >>
    /\ \A r \in Runner \ {Key(c)} : db'.records[r] = db.records[r]
    /\ erased' = erased \cup {db.records[Key(c)][i].by : i \in DOMAIN db.records[Key(c)]}
    /\ torn' = torn \cup {r \in {Key(c)} : \E d \in Calls : Is(d, "append", "insert") /\ Key(d) = r}
    /\ Goes(c, "unmirror")

\* A delete does one or the other.
LEMMA DeleteFrame ==
    ASSUME NEW c \in Caller, TypeInv, DeleteInSqlite(c) \/ DeleteInPostgres(c)
    PROVE  /\ Is(c, "delete", "delete") \/ (Is(c, "delete", "start") /\ ~Sqlite)
           /\ Key(c) \in Runner
           /\ Keeps(c) \/ Empties(c)
           /\ UNCHANGED <<scenario, stripe, advisory, writer, seen, mirror, adrift, canceled, once, left>>
<1>1. Key(c) \in Runner
  BY CallsAreTyped DEF DeleteInSqlite, DeleteInPostgres, Is
<1>2. ASSUME NEW fails, DeleteRunnerRecords(c, fails), fails \in BOOLEAN, ~fails /\ Sqlite => writer = None
      PROVE  /\ Keeps(c) \/ Empties(c)
             /\ UNCHANGED <<scenario, stripe, advisory, writer, seen, mirror, adrift, canceled, once, left>>
  <2> DEFINE met == \E d \in Calls : Is(d, "append", "insert") /\ Key(d) = Key(c)
  <2>1. torn' = (IF met THEN torn \cup {Key(c)} ELSE torn)
           => torn' = torn \cup {r \in {Key(c)} : \E d \in Calls : Is(d, "append", "insert") /\ Key(d) = r}
    OBVIOUS
  <2> QED
    BY <1>1, <1>2, <2>1 DEF DeleteRunnerRecords, TypeInv, Columns, Keeps, Empties
<1>3. CASE DeleteInSqlite(c)
  BY <1>1, <1>2, <1>3, Zenon DEF DeleteInSqlite
<1>4. CASE DeleteInPostgres(c)
  BY <1>1, <1>2, <1>4, Zenon DEF DeleteInPostgres
<1> QED
  BY <1>3, <1>4

LEMMA TypeStep == TypeInv /\ [Next]_vars => TypeInv'
<1> SUFFICES ASSUME TypeInv, [Next]_vars PROVE TypeInv'
  OBVIOUS
<1>1. CASE UNCHANGED vars
  BY <1>1 DEF vars, locks, TypeInv, IsSeq
<1>2. ASSUME NEW c \in Caller, Acts(c) PROVE TypeInv'
  <2>1. CASE Aside(c)
    BY <2>1, AsideFrame DEF TypeInv, IsSeq
  <2>2. CASE Statement(c, "own")
    BY <2>2, StatementsKeepRecords DEF TypeInv, IsSeq, locks, Goes, Returns
  <2>3. CASE Inserts(c)
    <3>1. IsSeq(db'.records[Key(c)])
      <4> DEFINE log == db.records[Key(c)]
                 rec == [seq |-> seen[c] + 1, kind |-> Call(c).arg, by |-> c]
      <4>1. IsSeq(log) /\ db'.records[Key(c)] = Append(log, rec)
        BY <2>3, InsertFrame DEF TypeInv
      <4> HIDE DEF log, rec
      <4> QED
        BY <4>1, IsSeqAppend
    <3>2. \A r \in Runner : IsSeq(db'.records[r])
      BY <2>3, <3>1, InsertFrame, Zenon DEF TypeInv
    <3>3. DOMAIN pc' = Caller /\ DOMAIN result' = Caller /\ DOMAIN advisory' = Runner
      BY <2>3, InsertFrame, Zenon DEF TypeInv, Goes, LeavePrimary, Held
    <3> QED
      BY <2>3, <3>2, <3>3, InsertFrame, Zenon DEF TypeInv, IsSeq
  <2>4. CASE DeleteInSqlite(c) \/ DeleteInPostgres(c)
    <3>1. DOMAIN db' = Columns /\ DOMAIN db'.records = Runner /\ \A r \in Runner : IsSeq(db'.records[r])
      BY <2>4, DeleteFrame, IsSeqEmpty DEF TypeInv, Keeps, Empties
    <3>2. DOMAIN pc' = Caller /\ DOMAIN result' = Caller /\ DOMAIN advisory' = Runner
      BY <2>4, DeleteFrame DEF TypeInv, Goes, Returns, LeavePrimary, Held, Keeps, Empties
    <3> QED
      BY <2>4, <3>1, <3>2, DeleteFrame DEF TypeInv, IsSeq
  <2> QED
    BY <1>2, <2>1, <2>2, <2>3, <2>4, Kinds
<1> QED
  BY <1>1, <1>2 DEF Next, Acts

-----------------------------------------------------------------------------
\* The logs

\* The numbers of a whole log run from 1 to its length.
LEMMA LastOfWhole ==
    ASSUME NEW log, IsSeq(log), Whole(log)
    PROVE  Len(log) \in Nat /\ LastSequence(log) = Len(log)
<1> DEFINE n == Len(log)
           S == {log[i].seq : i \in DOMAIN log} \cup {0}
<1>1. n \in Nat /\ DOMAIN log = 1 .. n
  BY DEF IsSeq
<1> HIDE DEF n
<1>2. n \in S /\ \A y \in S : y \in Nat /\ y <= n
  BY <1>1 DEF Whole
<1> HIDE DEF S
<1>3. \A x \in S : (\A y \in S : x >= y) => x = n
  BY <1>1, <1>2
<1>4. Max(S) = n
  BY <1>1, <1>2, <1>3, Zenon DEF Max
<1> QED
  BY <1>1, <1>4, Zenon DEF LastSequence, n, S

\* A record that is admitted and has the next number keeps a log whole.
LEMMA WholeAppend ==
    ASSUME NEW log, NEW rec, IsSeq(log), Whole(log), Admits(log, rec.kind), rec.seq = Len(log) + 1
    PROVE  Whole(Append(log, rec))
<1> DEFINE n == Len(log)
           a == Append(log, rec)
<1>1. /\ n \in Nat /\ DOMAIN log = 1 .. n /\ DOMAIN a = 1 .. n + 1
      /\ \A i \in 1 .. n : a[i] = log[i]
      /\ a[n + 1] = rec
  BY IsSeqAppend
<1>2. rec.seq = n + 1
  OBVIOUS
<1> HIDE DEF n, a
<1>3. (rec.kind = "init") = (n = 0)
  <2>1. HasInit(log) => n # 0
    BY <1>1 DEF HasInit
  <2>2. n # 0 => HasInit(log)
    <3>1. n # 0 => 1 \in DOMAIN log
      BY <1>1
    <3> QED
      BY <3>1 DEF HasInit, Whole
  <2> QED
    BY <2>1, <2>2 DEF Admits
<1>4. \A i \in 1 .. n + 1 : a[i].seq = i /\ (a[i].kind = "init") = (i = 1)
  BY <1>1, <1>2, <1>3 DEF Whole
<1> QED
  BY <1>1, <1>4 DEF Whole, a

\* An append that is in its transaction holds what excludes the others: the
\* database in SQLite, the runner's advisory lock in Postgres.
TxInv ==
    \A c \in Caller : InTransaction(c) => IF Sqlite THEN writer = c ELSE advisory[Key(c)] = c

\* The numbers of a log ascend, and it has one init record at most.
Ordered(log) ==
    /\ \A i \in DOMAIN log : log[i].seq \in Nat
    /\ \A i, j \in DOMAIN log : i < j => log[i].seq < log[j].seq /\ ~(log[i].kind = "init" /\ log[j].kind = "init")

\* A record with the next number, and an init record if there is none, may come next.
Fits(n, kind, log) ==
    n \in Nat /\ (\A i \in DOMAIN log : log[i].seq <= n) /\ (kind = "init" => ~HasInit(log))

\* What a transaction read is still true when it inserts, or the log was deleted.
SeenInv ==
    \A c \in Caller : Is(c, "append", "insert") =>
        /\ Fits(seen[c], Call(c).arg, db.records[Key(c)])
        /\ Key(c) \notin torn => seen[c] = Len(db.records[Key(c)]) /\ Admits(db.records[Key(c)], Call(c).arg)

\* In Postgres a delete excludes nobody.
TornInv == Sqlite => torn = {}

OrderInv == \A r \in Runner : Ordered(db.records[r]) /\ (r \notin torn => Whole(db.records[r]))

LogInv == SeenInv /\ OrderInv /\ TornInv

\* No number of an ordered log is greater than the last.
LEMMA LastOfOrdered ==
    ASSUME NEW log, IsSeq(log), Ordered(log)
    PROVE  LastSequence(log) \in Nat /\ \A i \in DOMAIN log : log[i].seq <= LastSequence(log)
<1> DEFINE n == Len(log)
           S == {log[i].seq : i \in DOMAIN log} \cup {0}
           m == IF n = 0 THEN 0 ELSE log[n].seq
<1>1. n \in Nat /\ DOMAIN log = 1 .. n
  BY DEF IsSeq
<1> HIDE DEF n
<1>2. m \in S /\ \A y \in S : y \in Nat /\ y <= m
  BY <1>1 DEF Ordered
<1> HIDE DEF m
<1>3. \A i \in DOMAIN log : log[i].seq \in S
  OBVIOUS
<1> HIDE DEF S
<1>4. \A x \in S : (\A y \in S : x >= y) => x = m
  BY <1>2
<1>5. \A y \in S : m >= y
  BY <1>2
<1>6. Max(S) = m
  BY <1>2, <1>4, <1>5, Zenon DEF Max
<1>7. LastSequence(log) = m
  BY <1>6, Zenon DEF LastSequence, S
<1> QED
  BY <1>2, <1>3, <1>7

\* What fits keeps a log ordered.
LEMMA OrderedAppend ==
    ASSUME NEW log, NEW rec, NEW k, IsSeq(log), Ordered(log), Fits(k, rec.kind, log), rec.seq = k + 1
    PROVE  Ordered(Append(log, rec))
<1> DEFINE n == Len(log)
           a == Append(log, rec)
<1>1. /\ n \in Nat /\ DOMAIN log = 1 .. n /\ DOMAIN a = 1 .. n + 1
      /\ \A i \in 1 .. n : a[i] = log[i]
      /\ a[n + 1] = rec
  BY IsSeqAppend
<1> HIDE DEF n, a
<1>2. \A i \in DOMAIN a : a[i].seq \in Nat
  BY <1>1 DEF Ordered, Fits
<1>3. ASSUME NEW i \in DOMAIN a, NEW j \in DOMAIN a, i < j
      PROVE  a[i].seq < a[j].seq /\ ~(a[i].kind = "init" /\ a[j].kind = "init")
  <2>1. i \in DOMAIN log /\ a[i] = log[i] /\ log[i].seq \in Nat
    BY <1>1, <1>3 DEF Ordered
  <2>2. CASE j \in DOMAIN log
    BY <1>1, <1>3, <2>1, <2>2 DEF Ordered
  <2>3. CASE j = n + 1
    BY <1>1, <2>1, <2>3 DEF Fits, HasInit
  <2> QED
    BY <1>1, <2>2, <2>3
<1> QED
  BY <1>2, <1>3 DEF Ordered, a

\* A step takes no lock away from another transaction.
LEMMA TxKept ==
    ASSUME NEW c \in Caller, TypeInv, TxInv, Acts(c),
           NEW d \in Caller \ {c}, InTransaction(d)
    PROVE  IF Sqlite THEN writer' = d ELSE advisory'[Key(d)] = d
<1>1. /\ IF Sqlite THEN writer = d ELSE advisory[Key(d)] = d
      /\ d # c /\ d # None /\ Key(d) \in Runner
      /\ ~(Sqlite /\ InTransaction(c)) /\ d # "leaked"
      /\ Call(d).kind = "append"
  BY CallsAreTyped, SqlStoreAssumption DEF TxInv, InTransaction, Is, None
<1> USE <1>1 DEF TypeInv, Release, LeavePrimary, Held, locks
<1>2. CASE AppendStart(c) \/ LockState(c) \/ TakeConn(c) \/ BeginImmediate(c) \/ BeginLocked(c) \/ BeginFails(c)
  BY <1>2 DEF AppendStart, LockState, TakeConn, BeginImmediate, BeginLocked, BeginFails
<1>3. CASE ReadState(c) \/ InsertFails(c)
  BY <1>3 DEF ReadState, InsertFails
<1>4. CASE TxCanceled(c) \/ TxLeaks(c)
  BY <1>4 DEF TxCanceled, TxLeaks, InTransaction
<1>5. CASE MirrorRecord(c) \/ LoadRecords(c) \/ UnmirrorRecords(c)
  BY <1>5 DEF MirrorRecord, LoadRecords, UnmirrorRecords
<1>6. CASE ExecFails(c) \/ MirrorEvent(c) \/ MirrorCursor(c)
  BY <1>6 DEF ExecFails, MirrorEvent, MirrorCursor
<1>7. CASE CloseStart(c) \/ CloseEnds(c) \/ CloseAgain(c) \/ Cancel(c)
  BY <1>7 DEF CloseStart, CloseEnds, CloseAgain, Cancel
<1>8. CASE Statement(c, "own")
  BY <1>8, StatementsKeepRecords, Zenon
<1>9. CASE DeleteInSqlite(c) \/ DeleteInPostgres(c)
  BY <1>9, DeleteFrame, Zenon
<1>10. CASE InsertRecord(c)
  <2>1. LeavePrimary(c)
    BY <1>10 DEF InsertRecord
  <2> QED
    BY <2>1
<1>11. CASE StepAdrift(c)
  BY <1>11, AdriftFrame
<1> QED
  BY <1>2, <1>3, <1>4, <1>5, <1>6, <1>7, <1>8, <1>9, <1>10, <1>11, Kinds, ZenonT(30) DEF Aside, Inserts, Conflicts

\* A caller enters a transaction with its lock.
LEMMA TxOwn ==
    ASSUME NEW c \in Caller, TypeInv, TxInv, Acts(c), InTransaction(c)'
    PROVE  IF Sqlite THEN writer' = c ELSE advisory'[Key(c)] = c
<1> USE DEF TypeInv, InTransaction, Is, Goes, Returns, Calls, Call
<1>1. CASE AppendStart(c) \/ LockState(c) \/ TakeConn(c) \/ BeginFails(c)
  BY <1>1 DEF AppendStart, LockState, TakeConn, BeginFails
<1>2. CASE BeginImmediate(c)
  BY <1>2 DEF BeginImmediate
<1>3. CASE BeginLocked(c)
  BY <1>3, CallsAreTyped DEF BeginLocked
<1>4. CASE ReadState(c)
  BY <1>4 DEF ReadState, TxInv, locks
<1>5. CASE InsertFails(c) \/ TxCanceled(c) \/ TxLeaks(c)
  BY <1>5 DEF InsertFails, TxCanceled, TxLeaks
<1>6. CASE MirrorRecord(c) \/ LoadRecords(c) \/ UnmirrorRecords(c)
  BY <1>6 DEF MirrorRecord, LoadRecords, UnmirrorRecords
<1>7. CASE ExecFails(c) \/ MirrorEvent(c) \/ MirrorCursor(c)
  BY <1>7 DEF ExecFails, MirrorEvent, MirrorCursor
<1>8. CASE CloseStart(c) \/ CloseEnds(c) \/ CloseAgain(c)
  BY <1>8 DEF CloseStart, CloseEnds, CloseAgain
<1>9. CASE Cancel(c)
  BY <1>9 DEF Cancel, TxInv, locks
<1>10. CASE Statement(c, "own")
  BY <1>10, StatementsKeepRecords
<1>11. CASE Inserts(c)
  BY <1>11, InsertFrame, Zenon
<1>12. CASE DeleteInSqlite(c) \/ DeleteInPostgres(c)
  BY <1>12, DeleteFrame DEF Keeps, Empties
<1>13. CASE Conflicts(c) \/ StepAdrift(c)
  BY <1>13, ConflictFrame, AdriftFrame
<1> QED
  BY <1>1, <1>2, <1>3, <1>4, <1>5, <1>6, <1>7, <1>8, <1>9, <1>10, <1>11, <1>12, <1>13, Kinds, Zenon DEF Aside

\* The calls are what they are.
LEMMA ScenarioStays ==
    ASSUME NEW c \in Caller, TypeInv, Acts(c)
    PROVE  scenario' = scenario
<1>1. CASE Aside(c)
  BY <1>1, AsideFrame
<1>2. CASE Statement(c, "own")
  BY <1>2, StatementsKeepRecords DEF TypeInv
<1>3. CASE Inserts(c)
  BY <1>3, InsertFrame, Zenon
<1>4. CASE DeleteInSqlite(c) \/ DeleteInPostgres(c)
  BY <1>4, DeleteFrame
<1> QED
  BY <1>1, <1>2, <1>3, <1>4, Kinds

\* A step of one caller is no step of another.
LEMMA OthersStay ==
    ASSUME NEW c \in Caller, TypeInv, Acts(c), NEW d \in Caller \ {c}
    PROVE  pc'[d] = pc[d] /\ result'[d] = result[d] /\ seen'[d] = seen[d]
<1>1. CASE Aside(c)
  BY <1>1, AsideFrame
<1>2. CASE Statement(c, "own")
  BY <1>2, StatementsKeepRecords DEF TypeInv, Goes, Returns
<1>3. CASE Inserts(c)
  BY <1>3, InsertFrame, Zenon DEF TypeInv, Goes
<1>4. CASE DeleteInSqlite(c) \/ DeleteInPostgres(c)
  BY <1>4, DeleteFrame DEF TypeInv, Goes, Returns, Keeps, Empties
<1> QED
  BY <1>1, <1>2, <1>3, <1>4, Kinds

LEMMA TxStep == TypeInv /\ TxInv /\ [Next]_vars => TxInv'
<1> SUFFICES ASSUME TypeInv, TxInv, [Next]_vars PROVE TxInv'
  OBVIOUS
<1>1. CASE UNCHANGED vars
  BY <1>1 DEF vars, locks, TxInv, InTransaction, Is, Calls, Call, Key, Sqlite
<1>2. ASSUME NEW c \in Caller, Acts(c) PROVE TxInv'
  <2> SUFFICES ASSUME NEW d \in Caller, InTransaction(d)'
               PROVE  (IF Sqlite THEN writer = d ELSE advisory[Key(d)] = d)'
    BY DEF TxInv
  <2>1. scenario' = scenario
    BY <1>2, ScenarioStays
  <2>2. CASE d = c
    BY <1>2, <2>1, <2>2, TxOwn DEF Sqlite, Key, Call
  <2>3. CASE d # c
    <3>1. InTransaction(d)
      BY <1>2, <2>1, <2>3, OthersStay DEF InTransaction, Is, Calls, Call
    <3> QED
      BY <1>2, <2>1, <2>3, <3>1, TxKept DEF Sqlite, Key, Call
  <2> QED
    BY <2>2, <2>3
<1> QED
  BY <1>1, <1>2 DEF Next, Acts

\* The log that another transaction is about to append to is the one it read, or it
\* was deleted.
LEMMA LogKept ==
    ASSUME NEW c \in Caller, TypeInv, TxInv, Acts(c), NEW d \in Caller \ {c}, Is(d, "append", "insert")
    PROVE  /\ torn \subseteq torn'
           /\ \/ db'.records[Key(d)] = db.records[Key(d)]
              \/ db'.records[Key(d)] = << >> /\ Key(d) \in torn'
<1>1. d # None /\ Key(d) \in Runner /\ d \in Calls /\ InTransaction(d)
  BY CallsAreTyped, SqlStoreAssumption DEF InTransaction, Is, None
<1>2. CASE Aside(c)
  BY <1>2, AsideFrame
<1>3. CASE Statement(c, "own")
  BY <1>3, StatementsKeepRecords DEF TypeInv, ghosts
<1>4. CASE Inserts(c)
  <2>1. InTransaction(c)
    BY <1>4, InsertFrame, Zenon DEF InTransaction
  <2>2. Key(c) # Key(d)
    BY <1>1, <2>1 DEF TxInv
  <2> QED
    BY <1>1, <1>4, <2>2, InsertFrame, Zenon DEF ghosts
<1>5. CASE DeleteInSqlite(c) \/ DeleteInPostgres(c)
  <2>1. CASE Keeps(c)
    BY <2>1 DEF Keeps
  <2>2. CASE Empties(c) /\ Key(c) # Key(d)
    BY <1>1, <2>2 DEF Empties
  <2>3. CASE Empties(c) /\ Key(c) = Key(d)
    BY <1>1, <2>3 DEF Empties
  <2> QED
    BY <1>5, <2>1, <2>2, <2>3, DeleteFrame
<1> QED
  BY <1>2, <1>3, <1>4, <1>5, Kinds

\* A transaction gets to its insert by reading the log.
LEMMA SeenOwn ==
    ASSUME NEW c \in Caller, TypeInv, LogInv, Acts(c), Is(c, "append", "insert")'
    PROVE  /\ Fits(seen'[c], Call(c).arg, db'.records[Key(c)])
           /\ Key(c) \notin torn' => seen'[c] = Len(db'.records[Key(c)]) /\ Admits(db'.records[Key(c)], Call(c).arg)
<1> USE DEF TypeInv, Is, Goes, Returns, Calls, Call
<1>1. CASE AppendStart(c) \/ LockState(c) \/ TakeConn(c) \/ BeginFails(c) \/ BeginImmediate(c) \/ BeginLocked(c)
  BY <1>1, Zenon DEF AppendStart, LockState, TakeConn, BeginFails, BeginImmediate, BeginLocked
<1>2. CASE ReadState(c)
  <2> DEFINE log == db.records[Key(c)]
  <2>1. Key(c) \in Runner
    BY <1>2, CallsAreTyped DEF ReadState
  <2>2. IsSeq(log) /\ Ordered(log) /\ (Key(c) \notin torn => Whole(log))
    BY <2>1 DEF LogInv, OrderInv
  <2>3. Key(c) \notin torn => LastSequence(log) = Len(log)
    BY <2>2, LastOfWhole
  <2>4. LastSequence(log) \in Nat /\ \A i \in DOMAIN log : log[i].seq <= LastSequence(log)
    BY <2>2, LastOfOrdered
  <2>5. seen'[c] = LastSequence(log) /\ Admits(log, Call(c).arg) /\ db' = db /\ torn' = torn
    BY <1>2 DEF ReadState, ghosts
  <2>6. Fits(LastSequence(log), Call(c).arg, log)
    BY <2>4, <2>5 DEF Fits, Admits
  <2> QED
    BY <2>3, <2>5, <2>6
<1>3. CASE InsertFails(c) \/ TxCanceled(c) \/ TxLeaks(c)
  BY <1>3 DEF InsertFails, TxCanceled, TxLeaks
<1>4. CASE MirrorRecord(c) \/ LoadRecords(c) \/ UnmirrorRecords(c)
  BY <1>4 DEF MirrorRecord, LoadRecords, UnmirrorRecords
<1>5. CASE ExecFails(c) \/ MirrorEvent(c) \/ MirrorCursor(c)
  BY <1>5 DEF ExecFails, MirrorEvent, MirrorCursor
<1>6. CASE CloseStart(c) \/ CloseEnds(c) \/ CloseAgain(c)
  BY <1>6 DEF CloseStart, CloseEnds, CloseAgain
<1>7. CASE Cancel(c)
  <2>1. UNCHANGED <<scenario, pc, seen, db, torn>>
    BY <1>7 DEF Cancel, ghosts
  <2>2. Is(c, "append", "insert")
    BY <2>1
  <2> QED
    BY <2>1, <2>2 DEF LogInv, SeenInv, Key
<1>8. CASE Statement(c, "own")
  BY <1>8, StatementsKeepRecords
<1>9. CASE Inserts(c)
  BY <1>9, InsertFrame, ZenonT(30)
<1>10. CASE DeleteInSqlite(c) \/ DeleteInPostgres(c)
  BY <1>10, DeleteFrame DEF Keeps, Empties
<1>11. CASE Conflicts(c) \/ StepAdrift(c)
  BY <1>11, ConflictFrame, AdriftFrame
<1> QED
  BY <1>1, <1>2, <1>3, <1>4, <1>5, <1>6, <1>7, <1>8, <1>9, <1>10, <1>11, Kinds, ZenonT(30) DEF Aside

\* A log changes by an insert and by a delete only.
LEMMA OrderStep ==
    ASSUME NEW c \in Caller, TypeInv, LogInv, Acts(c)
    PROVE  OrderInv'
<1>1. CASE Aside(c)
  <2>1. db' = db /\ torn' = torn
    BY <1>1, AsideFrame
  <2> QED
    BY <2>1 DEF LogInv, OrderInv
<1>2. CASE Statement(c, "own")
  <2>1. db'.records = db.records /\ torn' = torn
    BY <1>2, StatementsKeepRecords DEF TypeInv, ghosts
  <2> QED
    BY <2>1 DEF LogInv, OrderInv
<1>3. CASE Inserts(c)
  <2> DEFINE log == db.records[Key(c)]
             rec == [seq |-> seen[c] + 1, kind |-> Call(c).arg, by |-> c]
  <2>1. Key(c) \in Runner /\ Is(c, "append", "insert") /\ db'.records[Key(c)] = Append(log, rec) /\ torn' = torn
    BY <1>3, InsertFrame DEF ghosts
  <2>2. /\ IsSeq(log) /\ Ordered(log) /\ Fits(seen[c], rec.kind, log) /\ rec.seq = seen[c] + 1
        /\ Key(c) \notin torn => Whole(log) /\ Admits(log, rec.kind) /\ rec.seq = Len(log) + 1
    BY <2>1 DEF LogInv, OrderInv, TypeInv, SeenInv
  <2> HIDE DEF log, rec
  <2>3. Ordered(Append(log, rec)) /\ (Key(c) \notin torn => Whole(Append(log, rec)))
    BY <2>2, WholeAppend, OrderedAppend
  <2>4. Ordered(db'.records[Key(c)]) /\ (Key(c) \notin torn => Whole(db'.records[Key(c)]))
    BY <2>1, <2>3
  <2>5. \A r \in Runner \ {Key(c)} : db'.records[r] = db.records[r]
    BY <1>3, InsertFrame, Zenon
  <2>6. \A r \in Runner : Ordered(db'.records[r]) /\ (r \notin torn' => Whole(db'.records[r]))
    BY <2>1, <2>4, <2>5, Zenon DEF LogInv, OrderInv
  <2> QED
    BY <2>6 DEF OrderInv
<1>4. CASE DeleteInSqlite(c) \/ DeleteInPostgres(c)
  <2>1. Ordered(<< >>) /\ Whole(<< >>)
    BY IsSeqEmpty DEF Ordered, Whole
  <2>2. \A r \in Runner : Ordered(db'.records[r]) /\ (r \notin torn' => Whole(db'.records[r]))
    <3>1. CASE Keeps(c)
      BY <3>1, Zenon DEF Keeps, LogInv, OrderInv
    <3>2. CASE Empties(c)
      BY <2>1, <3>2 DEF Empties, LogInv, OrderInv
    <3> QED
      BY <1>4, <3>1, <3>2, DeleteFrame
  <2> QED
    BY <2>2 DEF OrderInv
<1> QED
  BY <1>1, <1>2, <1>3, <1>4, Kinds

\* In SQLite a delete finds the database locked while an append is in its transaction.
LEMMA TornStep ==
    ASSUME NEW c \in Caller, TypeInv, TxInv, TornInv, Acts(c)
    PROVE  TornInv'
<1>1. scenario' = scenario
  BY ScenarioStays
<1>2. CASE torn' = torn
  BY <1>1, <1>2 DEF TornInv, Sqlite
<1>3. CASE DeleteInSqlite(c) \/ DeleteInPostgres(c)
  <2>1. CASE Keeps(c)
    BY <1>2, <2>1 DEF Keeps
  <2>2. CASE Empties(c) /\ Sqlite
    <3>1. ASSUME NEW d \in Calls, Is(d, "append", "insert") PROVE FALSE
      <4>1. d \in Caller /\ d # None /\ InTransaction(d)
        BY <3>1, CallsAreTyped, SqlStoreAssumption DEF InTransaction
      <4> QED
        BY <2>2, <4>1 DEF TxInv, Empties
    <3>2. torn' = torn
      BY <2>2, <3>1 DEF Empties
    <3> QED
      BY <1>2, <3>2
  <2>3. CASE ~Sqlite
    BY <1>1, <2>3 DEF TornInv, Sqlite
  <2> QED
    BY <1>3, <2>1, <2>2, <2>3, DeleteFrame
<1>4. CASE Aside(c)
  BY <1>2, <1>4, AsideFrame
<1>5. CASE Statement(c, "own")
  BY <1>2, <1>5, StatementsKeepRecords DEF TypeInv, ghosts
<1>6. CASE Inserts(c)
  BY <1>2, <1>6, InsertFrame, Zenon DEF ghosts
<1> QED
  BY <1>3, <1>4, <1>5, <1>6, Kinds

LEMMA LogStep == TypeInv /\ TxInv /\ LogInv /\ [Next]_vars => LogInv'
<1> SUFFICES ASSUME TypeInv, TxInv, LogInv, [Next]_vars PROVE LogInv'
  OBVIOUS
<1>1. CASE UNCHANGED vars
  <2>1. scenario' = scenario /\ pc' = pc /\ seen' = seen /\ db' = db /\ torn' = torn
    BY <1>1 DEF vars, ghosts
  <2>2. OrderInv' /\ TornInv'
    BY <2>1 DEF LogInv, OrderInv, TornInv, Sqlite
  <2>3. SeenInv'
    BY <2>1, ZenonT(30) DEF LogInv, SeenInv, Is, Calls, Call, Key
  <2> QED
    BY <2>2, <2>3 DEF LogInv
<1>2. ASSUME NEW c \in Caller, Acts(c) PROVE LogInv'
  <2>1. scenario' = scenario
    BY <1>2, ScenarioStays
  <2>2. OrderInv' /\ TornInv'
    BY <1>2, OrderStep, TornStep DEF LogInv
  <2>3. ASSUME NEW d \in Caller, Is(d, "append", "insert")'
        PROVE  /\ Fits(seen'[d], Call(d).arg, db'.records[Key(d)])
               /\ Key(d) \notin torn' => seen'[d] = Len(db'.records[Key(d)]) /\ Admits(db'.records[Key(d)], Call(d).arg)
    <3>1. CASE d = c
      BY <1>2, <2>3, <3>1, SeenOwn
    <3>2. CASE d # c
      <4>1. Is(d, "append", "insert")
        BY <1>2, <2>1, <2>3, <3>2, OthersStay DEF Is, Calls, Call
      <4>2. /\ Fits(seen[d], Call(d).arg, db.records[Key(d)])
            /\ Key(d) \notin torn => seen[d] = Len(db.records[Key(d)]) /\ Admits(db.records[Key(d)], Call(d).arg)
        BY <4>1 DEF LogInv, SeenInv
      <4>3. /\ torn \subseteq torn'
            /\ \/ db'.records[Key(d)] = db.records[Key(d)]
               \/ db'.records[Key(d)] = << >> /\ Key(d) \in torn'
        BY <1>2, <3>2, <4>1, LogKept
      <4>4. seen'[d] = seen[d]
        BY <1>2, <3>2, OthersStay
      <4>5. Fits(seen[d], Call(d).arg, << >>)
        BY <4>2, IsSeqEmpty DEF Fits, HasInit
      <4> QED
        BY <4>2, <4>3, <4>4, <4>5, Zenon
    <3> QED
      BY <3>1, <3>2
  <2>4. SeenInv'
    BY <2>1, <2>3 DEF SeenInv, Key, Call
  <2> QED
    BY <2>2, <2>4 DEF LogInv
<1> QED
  BY <1>1, <1>2 DEF Next, Acts

\* A whole log is ordered.
LEMMA WholeOrdered ==
    ASSUME NEW log, IsSeq(log), Whole(log)
    PROVE  Ordered(log)
<1>1. Len(log) \in Nat /\ DOMAIN log = 1 .. Len(log)
  BY DEF IsSeq
<1> QED
  BY <1>1 DEF Whole, Ordered

LEMMA InitHolds == Init => TypeInv /\ TxInv /\ LogInv
<1> SUFFICES ASSUME Init PROVE TypeInv /\ TxInv /\ LogInv
  OBVIOUS
<1>1. scenario \in {Scenarios[s] : s \in DOMAIN Scenarios}
  BY Zenon DEF Init
<1>2. scenario.log \in [Runner -> Seq(Record)] /\ \A r \in Runner : Whole(scenario.log[r])
  BY <1>1, SqlStoreAssumption
<1>3. DOMAIN db = Columns /\ db.records = scenario.log
  BY Zenon DEF Init, Columns
<1>4. \A r \in Runner : db.records[r] \in Seq(Record) /\ Whole(db.records[r])
  BY <1>2, <1>3
<1>5. ASSUME NEW s \in Seq(Record) PROVE IsSeq(s)
  BY DEF IsSeq
<1>6. TypeInv
  BY <1>1, <1>2, <1>3, <1>4, <1>5, Zenon DEF Init, TypeInv
<1>7. TxInv /\ SeenInv /\ TornInv
  BY Zenon DEF Init, TxInv, SeenInv, InTransaction, Is, TornInv
<1>8. OrderInv
  BY <1>4, <1>5, WholeOrdered DEF OrderInv
<1> QED
  BY <1>6, <1>7, <1>8 DEF LogInv

\* A runner's log keeps its one init record, at the front, and has no gap in its
\* numbers, whatever calls append to it, delete it, fail or are canceled at once
\* (AppendRecord and Delete of both backends).  In Postgres, where nothing excludes
\* a Delete from an Append of the same runner, the numbers of a log that was
\* deleted under an Append still ascend.
THEOREM LogsStayWhole == Spec => []LogIsWhole
<1>1. Init => TypeInv /\ TxInv /\ LogInv
  BY InitHolds
<1>2. TypeInv /\ TxInv /\ LogInv /\ [Next]_vars => (TypeInv /\ TxInv /\ LogInv)'
  BY TypeStep, TxStep, LogStep
<1>3. LogInv => LogIsWhole
  BY DEF LogInv, OrderInv, TornInv, Ordered, LogIsWhole
<1> QED
  BY <1>1, <1>2, <1>3, PTL DEF Spec

-----------------------------------------------------------------------------
\* What was acknowledged

\* The primary has the record a caller appended, or somebody deleted it.
HasRecord(c) == c \in erased \/ \E i \in DOMAIN db.records[Key(c)] : db.records[Key(c)][i].by = c

\* The primary has the row a caller inserted or set.
HasRow(c) ==
    /\ Call(c).kind = "event" => Call(c).arg \in db.events
    /\ Call(c).kind = "cursor" => Key(c) \in DOMAIN db.cursors
    /\ Call(c).kind = "task.create" => Key(c) \in DOMAIN db.tasks
    /\ Call(c).kind = "edge.upsert" => Key(c) \in DOMAIN db.edges

LEMMA StoredIs ==
    ASSUME NEW c
    PROVE  Stored(c) <=> (Call(c).kind = "append" => HasRecord(c)) /\ HasRow(c)
  BY Zenon DEF Stored, HasRecord, HasRow

\* A call that got as far as the mirror is in the primary.
StoredInv == \A c \in Calls \ adrift : pc[c] = "mirror" \/ result[c] = "ok" => Stored(c)

\* These tables lose no row.
Grows ==
    /\ db.events \subseteq db'.events /\ DOMAIN db.cursors \subseteq DOMAIN db'.cursors
    /\ DOMAIN db.tasks \subseteq DOMAIN db'.tasks /\ DOMAIN db.edges \subseteq DOMAIN db'.edges

LEMMA StatementStores ==
    ASSUME NEW c \in Caller, TypeInv, Statement(c, "own")
    PROVE  /\ Grows
           /\ \/ Returns(c, "error") \/ Returns(c, "none")
              \/ /\ Call(c).kind = "event" => Call(c).arg \in db'.events
                 /\ Call(c).kind = "cursor" => Key(c) \in DOMAIN db'.cursors
                 /\ Call(c).kind = "task.create" => Key(c) \in DOMAIN db'.tasks
                 /\ Call(c).kind = "edge.upsert" => Key(c) \in DOMAIN db'.edges
<1> USE DEF Exec, Executed, View, Changed, Found, Columns, Is, TypeInv, Grows
<1>1. CASE AppendEvent(c, "own")
  BY <1>1 DEF AppendEvent, InsertRequestStreamEvent
<1>2. CASE SaveCursor(c, "own")
  BY <1>2 DEF SaveCursor, UpsertSnapshotCursor, Upsert
<1>3. CASE LoadCursor(c, "own")
  BY <1>3 DEF LoadCursor, GetSnapshotCursor
<1>4. CASE ToolCall(c, "own")
  BY <1>4 DEF ToolCall, UpsertTool, DeleteTool, GetTool
<1>5. CASE TaskCall(c, "own")
  BY <1>5 DEF TaskCall, CreateTask, GetTask, Upsert
<1>6. CASE TaskUpdate(c, "own")
  BY <1>6 DEF TaskUpdate, UpdateTaskStatus, UpdateTaskPlan, Update
<1>7. CASE EdgeCall(c, "own")
  BY <1>7 DEF EdgeCall, UpsertEdge, UpdateEdgeResult, InsertLog, Upsert, Update
<1> QED
  BY <1>1, <1>2, <1>3, <1>4, <1>5, <1>6, <1>7, Zenon DEF Statement

\* The kinds of call that store something
Storing == {"append", "event", "cursor", "task.create", "edge.upsert"}

\* Such a call gets past the primary by its statement only, or on the leaked connection.
LEMMA AsideAcks ==
    ASSUME NEW c \in Caller, TypeInv, Aside(c), c \in Calls, Call(c).kind \in Storing,
           pc'[c] = "mirror" \/ result'[c] = "ok"
    PROVE  pc[c] = "mirror" \/ result[c] = "ok" \/ c \in adrift'
<1> USE DEF TypeInv, Is, Goes, Returns, Storing
<1>1. CASE AppendStart(c) \/ LockState(c) \/ TakeConn(c) \/ BeginFails(c) \/ BeginImmediate(c) \/ BeginLocked(c)
  BY <1>1 DEF AppendStart, LockState, TakeConn, BeginFails, BeginImmediate, BeginLocked
<1>2. CASE ReadState(c) \/ InsertFails(c) \/ TxCanceled(c) \/ TxLeaks(c)
  BY <1>2, Zenon DEF ReadState, InsertFails, TxCanceled, TxLeaks
<1>3. CASE MirrorRecord(c) \/ LoadRecords(c) \/ UnmirrorRecords(c)
  BY <1>3 DEF MirrorRecord, LoadRecords, UnmirrorRecords
<1>4. CASE ExecFails(c) \/ MirrorEvent(c) \/ MirrorCursor(c)
  BY <1>4 DEF ExecFails, MirrorEvent, MirrorCursor
<1>5. CASE CloseStart(c) \/ CloseEnds(c) \/ CloseAgain(c) \/ Cancel(c)
  BY <1>5 DEF CloseStart, CloseEnds, CloseAgain, Cancel
<1>6. CASE Conflicts(c)
  BY <1>6, ConflictFrame
<1>7. CASE StepAdrift(c)
  BY <1>7, AdriftFrame
<1> QED
  BY <1>1, <1>2, <1>3, <1>4, <1>5, <1>6, <1>7, ZenonT(30) DEF Aside

\* A record stays until it is deleted.
LEMMA RecordStays ==
    ASSUME NEW c \in Caller, TypeInv, Acts(c), NEW d \in Calls, Call(d).kind = "append", HasRecord(d)
    PROVE  HasRecord(d)'
<1> DEFINE k == Key(d)
<1>1. k \in Runner /\ scenario' = scenario /\ Key(d)' = k
  BY CallsAreTyped, ScenarioStays DEF Key, Call
<1>2. CASE Aside(c)
  BY <1>1, <1>2, AsideFrame DEF HasRecord
<1>3. CASE Statement(c, "own")
  BY <1>1, <1>3, StatementsKeepRecords DEF HasRecord, TypeInv, ghosts
<1>4. CASE Inserts(c)
  <2>1. erased' = erased
    BY <1>4, InsertFrame, ZenonT(30) DEF ghosts
  <2>2. CASE Key(c) # k
    BY <1>1, <1>4, <2>1, <2>2, InsertFrame, Zenon DEF HasRecord
  <2>3. CASE Key(c) = k
    <3> DEFINE log == db.records[k]
               rec == [seq |-> seen[c] + 1, kind |-> Call(c).arg, by |-> c]
    <3>1. db'.records[k] = Append(log, rec) /\ IsSeq(log)
      BY <1>1, <1>4, <2>3, InsertFrame, ZenonT(30) DEF TypeInv
    <3> HIDE DEF rec, k, log
    <3>2. \A i \in DOMAIN log : i \in DOMAIN Append(log, rec) /\ Append(log, rec)[i] = log[i]
      BY <3>1, IsSeqAppend, SMTT(20)
    <3> QED
      BY <1>1, <2>1, <3>1, <3>2 DEF HasRecord, k, log
  <2> QED
    BY <2>2, <2>3
<1>5. CASE DeleteInSqlite(c) \/ DeleteInPostgres(c)
  <2>1. CASE Keeps(c)
    BY <1>1, <2>1 DEF HasRecord, Keeps
  <2>2. CASE Empties(c) /\ Key(c) = k
    BY <1>1, <2>2 DEF HasRecord, Empties
  <2>3. CASE Empties(c) /\ Key(c) # k
    BY <1>1, <2>3 DEF HasRecord, Empties
  <2> QED
    BY <1>5, <2>1, <2>2, <2>3, DeleteFrame
<1> QED
  BY <1>2, <1>3, <1>4, <1>5, Kinds

LEMMA RowsStay ==
    ASSUME NEW c \in Caller, TypeInv, Acts(c)
    PROVE  Grows
<1>1. CASE Aside(c)
  BY <1>1, AsideFrame DEF Grows
<1>2. CASE Statement(c, "own")
  BY <1>2, StatementStores
<1>3. CASE Inserts(c)
  BY <1>3, InsertFrame, Zenon DEF Grows
<1>4. CASE DeleteInSqlite(c) \/ DeleteInPostgres(c)
  BY <1>4, DeleteFrame DEF Keeps, Empties, Grows
<1> QED
  BY <1>1, <1>2, <1>3, <1>4, Kinds

LEMMA StoredStays ==
    ASSUME NEW c \in Caller, TypeInv, Acts(c), NEW d \in Calls, Stored(d)
    PROVE  Stored(d)'
<1>1. scenario' = scenario /\ Grows
  BY ScenarioStays, RowsStay
<1>2. Call(d).kind = "append" => HasRecord(d)'
  BY RecordStays, StoredIs
<1>3. HasRow(d)'
  BY <1>1, StoredIs DEF HasRow, Grows, Call, Key
<1> QED
  BY <1>1, <1>2, <1>3, Zenon DEF Stored, HasRecord, HasRow, Call

\* No caller leaves the leaked connection behind.
LEMMA AdriftStays ==
    ASSUME NEW c \in Caller, TypeInv, Acts(c)
    PROVE  adrift \subseteq adrift'
<1>1. CASE Aside(c)
  BY <1>1, AsideFrame
<1>2. CASE Statement(c, "own")
  BY <1>2, StatementsKeepRecords DEF TypeInv, ghosts
<1>3. CASE Inserts(c)
  BY <1>3, InsertFrame, Zenon DEF ghosts
<1>4. CASE DeleteInSqlite(c) \/ DeleteInPostgres(c)
  BY <1>4, DeleteFrame
<1> QED
  BY <1>1, <1>2, <1>3, <1>4, Kinds

\* An insert is what a caller needs to go on to the mirror.
LEMMA StoredOwn ==
    ASSUME NEW c \in Calls, TypeInv, StoredInv, Acts(c), c \notin adrift', pc'[c] = "mirror" \/ result'[c] = "ok"
    PROVE  Stored(c)'
<1>0. c \in Caller /\ c \notin adrift /\ scenario' = scenario
  BY CallsAreTyped, AdriftStays, ScenarioStays
<1>1. CASE pc[c] = "mirror" \/ result[c] = "ok"
  BY <1>0, <1>1, StoredStays DEF StoredInv
<1>2. CASE Call(c).kind \notin Storing
  BY <1>0, <1>2, ZenonT(30) DEF Stored, Call, Storing
<1>3. CASE ~(pc[c] = "mirror" \/ result[c] = "ok") /\ Call(c).kind \in Storing
  <2>1. CASE Aside(c)
    BY <1>0, <1>3, <2>1, AsideAcks
  <2>2. CASE Statement(c, "own")
    <3>1. ~(Returns(c, "error") \/ Returns(c, "none"))
      BY <1>0, <1>3 DEF Returns, TypeInv
    <3>2. Call(c).kind # "append"
      BY <2>2, StatementsKeepRecords DEF TypeInv
    <3>3. HasRow(c)'
      BY <1>0, <2>2, <3>1, StatementStores, Zenon DEF HasRow, Call, Key
    <3> QED
      BY <1>0, <3>2, <3>3, Zenon DEF Stored, HasRow, Call
  <2>3. CASE Inserts(c)
    <3> DEFINE k == Key(c)
               log == db.records[k]
               rec == [seq |-> seen[c] + 1, kind |-> Call(c).arg, by |-> c]
    <3>1. Is(c, "append", "insert") /\ db'.records[k] = Append(log, rec) /\ IsSeq(log) /\ rec.by = c /\ Key(c)' = k
      BY <1>0, <2>3, InsertFrame, Zenon DEF TypeInv, Key, Call
    <3> HIDE DEF rec, k, log
    <3>2. Len(log) + 1 \in DOMAIN Append(log, rec) /\ Append(log, rec)[Len(log) + 1] = rec
      BY <3>1, IsSeqAppend
    <3>3. HasRecord(c)'
      BY <3>1, <3>2 DEF HasRecord
    <3>4. Call(c)'.kind = "append"
      BY <1>0, <3>1 DEF Is, Call
    <3> QED
      BY <3>3, <3>4 DEF Stored, HasRecord
  <2>4. CASE DeleteInSqlite(c) \/ DeleteInPostgres(c)
    BY <1>0, <1>3, <2>4, DeleteFrame DEF Is, Storing
  <2> QED
    BY <2>1, <2>2, <2>3, <2>4, Kinds
<1> QED
  BY <1>1, <1>2, <1>3

LEMMA StoredStep == TypeInv /\ StoredInv /\ [Next]_vars => StoredInv'
<1> SUFFICES ASSUME TypeInv, StoredInv, [Next]_vars PROVE StoredInv'
  OBVIOUS
<1>1. CASE UNCHANGED vars
  BY <1>1, ZenonT(30) DEF vars, ghosts, StoredInv, Stored, Calls, Call, Key
<1>2. ASSUME NEW c \in Caller, Acts(c) PROVE StoredInv'
  <2>1. scenario' = scenario /\ adrift \subseteq adrift'
    BY <1>2, ScenarioStays, AdriftStays
  <2>2. ASSUME NEW d \in Calls, d \notin adrift', pc'[d] = "mirror" \/ result'[d] = "ok"
        PROVE  Stored(d)'
    <3>1. CASE d = c
      BY <1>2, <2>2, <3>1, StoredOwn
    <3>2. CASE d # c
      <4>1. d \in Caller /\ (pc[d] = "mirror" \/ result[d] = "ok")
        BY <1>2, <2>2, <3>2, OthersStay, CallsAreTyped
      <4> QED
        BY <1>2, <2>1, <2>2, <4>1, StoredStays DEF StoredInv
    <3> QED
      BY <3>1, <3>2
  <2> QED
    BY <2>1, <2>2 DEF StoredInv, Calls
<1> QED
  BY <1>1, <1>2 DEF Next, Acts

\* What AppendRecord, AppendEvent, SaveCursor, CreateTask or UpsertEdge acknowledged
\* is in the primary until it is deleted, whatever else runs, fails or is canceled,
\* on both backends; unless the call ran on the connection that an append left in
\* its canceled transaction.
THEOREM AckedStaysStored == Spec => []AckedIsStored
<1>1. Init => TypeInv /\ StoredInv
  <2> SUFFICES ASSUME Init PROVE TypeInv /\ StoredInv
    OBVIOUS
  <2>1. TypeInv
    BY InitHolds
  <2> QED
    BY <2>1, CallsAreTyped, Zenon DEF Init, StoredInv
<1>2. TypeInv /\ StoredInv /\ [Next]_vars => (TypeInv /\ StoredInv)'
  BY TypeStep, StoredStep
<1>3. StoredInv => AckedIsStored
  BY DEF StoredInv, AckedIsStored
<1> QED
  BY <1>1, <1>2, <1>3, PTL DEF Spec

-----------------------------------------------------------------------------
\* The mirror

\* A record as the primary and the mirror store it
Rec(n, kind, c) == [seq |-> n, kind |-> kind, by |-> c]

\* How the copy of a log stands to the log, D being the deletes and A the appends
\* that the mirror is still to see: it follows, or an append is certain to be
\* refused there and its caller told.
Tracks(calls, log, copy, D, A) ==
    \/ D = {} /\ A = {} /\ log = copy
    \/ \E a \in DOMAIN calls : D = {} /\ A = {a} /\ log = Append(copy, Rec(Len(copy) + 1, calls[a].arg, a))
    \/ \E a \in DOMAIN calls : D = {} /\ A = {a} /\ log = << >> /\ copy = << >> /\ calls[a].arg = "event"
    \/ \E d \in DOMAIN calls : D = {d} /\ A = {} /\ log = << >> /\ copy # << >>
    \/ \E d, a \in DOMAIN calls : /\ D = {d} /\ A = {a} /\ calls[a].arg = "init"
                                  /\ log = Append(<< >>, Rec(1, "init", a)) /\ copy # << >>
    \/ \E d, a \in DOMAIN calls : D = {d} /\ A = {a} /\ log = << >> /\ Admits(copy, calls[a].arg)
    \/ \E d, e, a \in DOMAIN calls : /\ d # e /\ D = {d, e} /\ A = {a} /\ calls[a].arg = "init"
                                     /\ log = << >> /\ copy # << >>

\* A whole log has its init record unless it is empty.
LEMMA WholeHasInit ==
    ASSUME NEW log, IsSeq(log), Whole(log)
    PROVE  HasInit(log) <=> log # << >>
<1> DEFINE S == {log[i] : i \in DOMAIN log}
<1>1. log \in Seq(S)
  BY DEF IsSeq
<1> HIDE DEF S
<1>2. log # << >> => 1 \in DOMAIN log
  BY <1>1
<1>3. log = << >> => DOMAIN log = {}
  BY IsSeqEmpty
<1> QED
  BY <1>2, <1>3 DEF HasInit, Whole

\* What is appended to a whole log and leaves it whole was admitted.
LEMMA WholeAdmitted ==
    ASSUME NEW log, IsSeq(log), Whole(log), NEW x, Whole(Append(log, x))
    PROVE  Admits(log, x.kind)
<1> DEFINE n == Len(log)
           a == Append(log, x)
<1>1. n \in Nat /\ DOMAIN log = 1 .. n /\ n + 1 \in DOMAIN a /\ a[n + 1] = x
  BY IsSeqAppend
<1>2. Whole(a)
  OBVIOUS
<1> HIDE DEF n, a
<1>3. (x.kind = "init") = (n + 1 = 1)
  BY <1>1, <1>2 DEF Whole
<1>4. HasInit(log) <=> n # 0
  <2>1. HasInit(log) => n # 0
    BY <1>1 DEF HasInit
  <2>2. n # 0 => 1 \in DOMAIN log
    BY <1>1
  <2> QED
    BY <2>1, <2>2 DEF HasInit, Whole
<1> QED
  BY <1>1, <1>3, <1>4 DEF Admits

LEMMA TracksInsert ==
    ASSUME NEW calls, NEW log, NEW copy, NEW D, Tracks(calls, log, copy, D, {}),
           NEW c \in DOMAIN calls, Admits(log, calls[c].arg), NEW n, n = Len(log) + 1
    PROVE  Tracks(calls, Append(log, Rec(n, calls[c].arg, c)), copy, D, {c})
<1>1. CASE D = {} /\ log = copy
  BY <1>1 DEF Tracks
<1>2. CASE \E d \in DOMAIN calls : D = {d} /\ log = << >> /\ copy # << >>
  <2>1. calls[c].arg = "init" /\ n = 1
    BY <1>2, IsSeqEmpty DEF Admits, HasInit
  <2> QED
    BY <1>2, <2>1 DEF Tracks
<1> QED
  BY <1>1, <1>2 DEF Tracks

LEMMA TracksDelete ==
    ASSUME NEW calls, NEW log, NEW copy, NEW D, NEW A, Tracks(calls, log, copy, D, A),
           NEW c \in DOMAIN calls, c \notin D, log # << >>, Whole(log), IsSeq(copy), Whole(copy)
    PROVE  Tracks(calls, << >>, copy, D \cup {c}, A)
<1>1. CASE D = {} /\ A = {} /\ log = copy
  BY <1>1 DEF Tracks
<1>2. ASSUME NEW a \in DOMAIN calls, D = {}, A = {a}, log = Append(copy, Rec(Len(copy) + 1, calls[a].arg, a))
      PROVE  Tracks(calls, << >>, copy, D \cup {c}, A)
  <2> DEFINE x == Rec(Len(copy) + 1, calls[a].arg, a)
  <2>1. x.kind = calls[a].arg
    BY DEF Rec
  <2>2. Whole(Append(copy, x))
    BY <1>2
  <2> HIDE DEF x
  <2>3. Admits(copy, x.kind)
    BY <2>2, WholeAdmitted
  <2>4. Admits(copy, calls[a].arg) /\ D \cup {c} = {c}
    BY <1>2, <2>1, <2>3
  <2> QED
    BY <1>2, <2>4 DEF Tracks
<1>3. ASSUME NEW d \in DOMAIN calls, NEW a \in DOMAIN calls, D = {d}, A = {a}, calls[a].arg = "init", copy # << >>
      PROVE  Tracks(calls, << >>, copy, D \cup {c}, A)
  <2>1. d # c /\ D \cup {c} = {d, c}
    BY <1>3
  <2> QED
    BY <1>3, <2>1 DEF Tracks
<1> QED
  BY <1>1, <1>2, <1>3, ZenonT(30) DEF Tracks

LEMMA TracksMirror ==
    ASSUME NEW calls, NEW log, NEW copy, NEW D, NEW A, Tracks(calls, log, copy, D, A), NEW c \in A,
           Admits(copy, calls[c].arg), IsSeq(copy), Whole(copy), NEW n, n = Len(copy) + 1
    PROVE  Tracks(calls, log, Append(copy, Rec(n, calls[c].arg, c)), D, A \ {c})
<1>0. HasInit(copy) <=> copy # << >>
  BY WholeHasInit
<1>1. ASSUME D = {}, A = {c}, log = Append(copy, Rec(Len(copy) + 1, calls[c].arg, c))
      PROVE  Tracks(calls, log, Append(copy, Rec(n, calls[c].arg, c)), D, A \ {c})
  BY <1>1 DEF Tracks
<1>2. ASSUME NEW d \in DOMAIN calls, D = {d}, A = {c}, log = << >>
      PROVE  Tracks(calls, log, Append(copy, Rec(n, calls[c].arg, c)), D, A \ {c})
  <2> DEFINE x == Rec(n, calls[c].arg, c)
  <2> HIDE DEF x
  <2>1. DOMAIN Append(copy, x) # {}
    BY IsSeqAppend
  <2>2. Append(copy, x) # << >>
    BY <2>1, IsSeqEmpty
  <2> QED
    BY <1>2, <2>2 DEF Tracks, x
<1> QED
  BY <1>0, <1>1, <1>2, Zenon DEF Tracks, Admits

LEMMA TracksUnmirror ==
    ASSUME NEW calls, NEW log, NEW copy, NEW D, NEW A, Tracks(calls, log, copy, D, A), NEW c \in D,
           copy # << >>, IsSeq(copy), Whole(copy), \A a \in A : calls[a].arg \in {"init", "event"}
    PROVE  Tracks(calls, log, << >>, D \ {c}, A)
<1>0. HasInit(copy)
  BY WholeHasInit
<1>1. CASE D = {c} /\ A = {} /\ log = << >>
  BY <1>1 DEF Tracks
<1>2. ASSUME NEW a \in DOMAIN calls, D = {c}, A = {a}, calls[a].arg = "init", log = Append(<< >>, Rec(1, "init", a))
      PROVE  Tracks(calls, log, << >>, D \ {c}, A)
  <2>1. Len(<< >>) + 1 = 1 /\ D \ {c} = {}
    BY <1>2, IsSeqEmpty
  <2> QED
    BY <1>2, <2>1 DEF Tracks
<1>3. ASSUME NEW a \in DOMAIN calls, D = {c}, A = {a}, log = << >>, Admits(copy, calls[a].arg)
      PROVE  Tracks(calls, log, << >>, D \ {c}, A)
  <2>1. calls[a].arg = "event" /\ D \ {c} = {}
    BY <1>0, <1>3 DEF Admits
  <2> QED
    BY <1>3, <2>1 DEF Tracks
<1>4. ASSUME NEW e \in DOMAIN calls, NEW a \in DOMAIN calls, e # c, D = {c, e}, A = {a}, calls[a].arg = "init", log = << >>
      PROVE  Tracks(calls, log, << >>, D \ {c}, A)
  <2>1. Admits(<< >>, "init") /\ D \ {c} = {e}
    BY <1>4, IsSeqEmpty DEF Admits, HasInit
  <2> QED
    BY <1>4, <2>1 DEF Tracks
<1>5. \A d, e : D = {d, e} => (d = c /\ D = {c, e}) \/ (e = c /\ D = {c, d})
  OBVIOUS
<1> QED
  BY <1>1, <1>2, <1>3, <1>4, <1>5, ZenonT(30) DEF Tracks

IsFcn(f) == f = [x \in DOMAIN f |-> f[x]]

LEMMA IsFcnExcept ==
    ASSUME NEW f, NEW k, NEW v
    PROVE  IsFcn([f EXCEPT ![k] = v])
  BY DEF IsFcn

\* The mirror is a log per runner, each whole, and its events are the primary's or adrift.
CopyInv ==
    /\ DOMAIN mirror = {"records", "events", "cursors"} /\ DOMAIN mirror.records = Runner
    /\ IsFcn(mirror.records) /\ IsFcn(db.records)
    /\ \A r \in Runner : IsSeq(mirror.records[r]) /\ Whole(mirror.records[r])
    /\ \A e \in mirror.events \ db.events : \E c \in adrift : Call(c).kind = "event" /\ Call(c).arg = e

\* The mirror's files as a step leaves them
Copies(records, events) ==
    /\ DOMAIN mirror' = {"records", "events", "cursors"}
    /\ mirror'.records = records /\ mirror'.events = events

\* The steps of the mirror
Mirrors(c) == MirrorRecord(c) \/ UnmirrorRecords(c) \/ MirrorEvent(c) \/ MirrorCursor(c)

LEMMA MirrorIdle ==
    ASSUME NEW c \in Caller, TypeInv, Acts(c), ~Mirrors(c)
    PROVE  mirror' = mirror
<1>1. CASE AppendStart(c) \/ LockState(c) \/ TakeConn(c) \/ BeginImmediate(c) \/ BeginLocked(c) \/ BeginFails(c)
  BY <1>1 DEF AppendStart, LockState, TakeConn, BeginImmediate, BeginLocked, BeginFails
<1>2. CASE ReadState(c) \/ InsertFails(c) \/ TxCanceled(c) \/ TxLeaks(c) \/ LoadRecords(c) \/ ExecFails(c)
  BY <1>2, Zenon DEF ReadState, InsertFails, TxCanceled, TxLeaks, LoadRecords, ExecFails
<1>3. CASE CloseStart(c) \/ CloseEnds(c) \/ CloseAgain(c) \/ Cancel(c)
  BY <1>3 DEF CloseStart, CloseEnds, CloseAgain, Cancel
<1>4. CASE Statement(c, "own")
  BY <1>4, StatementsKeepRecords, Zenon DEF TypeInv
<1>5. CASE InsertRecord(c)
  BY <1>5 DEF InsertRecord
<1>6. CASE DeleteInSqlite(c) \/ DeleteInPostgres(c)
  BY <1>6, DeleteFrame
<1>7. CASE StepAdrift(c)
  BY <1>7, AdriftFrame
<1> QED
  BY <1>1, <1>2, <1>3, <1>4, <1>5, <1>6, <1>7, Kinds DEF Aside, Mirrors, Inserts, Conflicts

\* The mirror appends a record, or its caller is told.
LEMMA MirrorRecordFrame ==
    ASSUME NEW c \in Caller, TypeInv, CopyInv, MirrorRecord(c)
    PROVE  LET k == Key(c)
               copy == mirror.records[k] IN
           /\ Is(c, "append", "mirror") /\ k \in Runner /\ UNCHANGED <<scenario, db, adrift>>
           /\ \/ mirror' = mirror /\ Returns(c, "error")
              \/ /\ Admits(copy, Call(c).arg) /\ Returns(c, "ok")
                 /\ Copies([mirror.records EXCEPT ![k] = Append(copy, Rec(Len(copy) + 1, Call(c).arg, c))], mirror.events)
<1> DEFINE k == Key(c)
           copy == mirror.records[k]
<1>1. Is(c, "append", "mirror") /\ k \in Runner /\ UNCHANGED <<scenario, db, adrift>>
  BY CallsAreTyped DEF MirrorRecord, Is, ghosts
<1>2. LastSequence(copy) = Len(copy)
  BY <1>1, LastOfWhole DEF CopyInv
<1>3. \/ mirror' = mirror /\ Returns(c, "error")
      \/ /\ Admits(copy, Call(c).arg) /\ Returns(c, "ok")
         /\ Copies([mirror.records EXCEPT ![k] = Append(copy, Rec(LastSequence(copy) + 1, Call(c).arg, c))], mirror.events)
  BY DEF MirrorRecord, CopyInv, Copies, Rec
<1> QED
  BY <1>1, <1>2, <1>3

\* The mirror removes a log, or the caller is told.
LEMMA UnmirrorFrame ==
    ASSUME NEW c \in Caller, TypeInv, CopyInv, UnmirrorRecords(c)
    PROVE  /\ Is(c, "delete", "unmirror") /\ Key(c) \in Runner /\ UNCHANGED <<scenario, db, adrift>>
           /\ \/ mirror' = mirror /\ Returns(c, "error")
              \/ /\ Copies([mirror.records EXCEPT ![Key(c)] = << >>], mirror.events)
                 /\ mirror.records[Key(c)] = << >> /\ Returns(c, "error")
              \/ /\ Copies([mirror.records EXCEPT ![Key(c)] = << >>], mirror.events)
                 /\ mirror.records[Key(c)] # << >> /\ Returns(c, "ok")
  BY CallsAreTyped DEF UnmirrorRecords, CopyInv, Copies, Is, ghosts

\* Events and cursors leave the mirror's logs alone.
LEMMA MirrorOthersFrame ==
    ASSUME NEW c \in Caller, TypeInv, CopyInv, MirrorEvent(c) \/ MirrorCursor(c)
    PROVE  /\ Is(c, "event", "mirror") \/ Is(c, "cursor", "mirror")
           /\ UNCHANGED <<scenario, db, adrift>>
           /\ Copies(mirror.records, mirror.events)
              \/ (Is(c, "event", "mirror") /\ Copies(mirror.records, mirror.events \cup {Call(c).arg}))
           /\ \E r \in {"ok", "error"} : Returns(c, r)
<1>1. CASE MirrorEvent(c)
  BY <1>1 DEF MirrorEvent, CopyInv, Copies, ghosts
<1>2. CASE MirrorCursor(c)
  BY <1>2 DEF MirrorCursor, CopyInv, Copies, ghosts
<1> QED
  BY <1>1, <1>2

LEMMA CopyRecords ==
    ASSUME CopyInv, NEW k \in Runner, NEW log, IsSeq(log), Whole(log), UNCHANGED <<scenario, db, adrift>>,
           Copies([mirror.records EXCEPT ![k] = log], mirror.events)
    PROVE  CopyInv' /\ mirror'.records[k] = log /\ \A r \in Runner \ {k} : mirror'.records[r] = mirror.records[r]
<1>1. /\ DOMAIN mirror'.records = Runner /\ mirror'.records[k] = log
      /\ \A r \in Runner \ {k} : mirror'.records[r] = mirror.records[r]
  BY DEF CopyInv, Copies
<1>2. \A r \in Runner : IsSeq(mirror'.records[r]) /\ Whole(mirror'.records[r])
  BY <1>1 DEF CopyInv
<1>3. IsFcn([mirror.records EXCEPT ![k] = log])
  BY IsFcnExcept
<1>4. IsFcn(mirror'.records)
  BY <1>3 DEF Copies
<1> QED
  BY <1>1, <1>2, <1>4 DEF CopyInv, Copies, Call

\* The tables are functions.
LEMMA RecordsFcn ==
    ASSUME NEW c \in Caller, TypeInv, IsFcn(db.records), Acts(c)
    PROVE  IsFcn(db'.records)
<1>1. CASE Aside(c)
  BY <1>1, AsideFrame
<1>2. CASE Statement(c, "own")
  BY <1>2, StatementsKeepRecords DEF TypeInv
<1>3. CASE Inserts(c)
  <2>1. PICK v : db'.records = [db.records EXCEPT ![Key(c)] = v]
    BY <1>3, Zenon DEF Inserts, InsertRecord, Conflict, InsertRunnerRecord, NextRecord, Changed, TypeInv, Columns
  <2>2. IsFcn([db.records EXCEPT ![Key(c)] = v])
    BY IsFcnExcept
  <2> QED
    BY <2>1, <2>2
<1>4. CASE DeleteInSqlite(c) \/ DeleteInPostgres(c)
  <2>1. db' = db \/ db' = [db EXCEPT !.records[Key(c)] = << >>]
    BY <1>4 DEF DeleteInSqlite, DeleteInPostgres, DeleteRunnerRecords
  <2>2. db' = db \/ db'.records = [db.records EXCEPT ![Key(c)] = << >>]
    BY <2>1 DEF TypeInv, Columns
  <2>3. IsFcn([db.records EXCEPT ![Key(c)] = << >>])
    BY IsFcnExcept, Zenon
  <2>4. CASE db' = db
    BY <2>4
  <2>5. CASE db'.records = [db.records EXCEPT ![Key(c)] = << >>]
    BY <2>3, <2>5
  <2> QED
    BY <2>2, <2>4, <2>5
<1> QED
  BY <1>1, <1>2, <1>3, <1>4, Kinds

LEMMA CopyStep == TypeInv /\ StoredInv /\ CopyInv /\ [Next]_vars => CopyInv'
<1> SUFFICES ASSUME TypeInv, StoredInv, CopyInv, [Next]_vars PROVE CopyInv'
  OBVIOUS
<1>1. ASSUME scenario' = scenario, adrift \subseteq adrift', mirror' = mirror, IsFcn(db'.records), db.events \subseteq db'.events
      PROVE  CopyInv'
  <2>1. \A e \in mirror'.events \ db'.events : \E c \in adrift' : Call(c)'.kind = "event" /\ Call(c)'.arg = e
    BY <1>1 DEF CopyInv, Call
  <2> QED
    BY <1>1, <2>1 DEF CopyInv
<1>2. CASE UNCHANGED vars
  BY <1>1, <1>2 DEF vars, ghosts, CopyInv
<1>3. ASSUME NEW c \in Caller, Acts(c) PROVE CopyInv'
  <2>1. IsFcn(db'.records) /\ db.events \subseteq db'.events /\ scenario' = scenario /\ adrift \subseteq adrift'
    BY <1>3, RecordsFcn, RowsStay, ScenarioStays, AdriftStays DEF CopyInv, Grows
  <2>2. CASE ~Mirrors(c)
    BY <1>1, <1>3, <2>1, <2>2, MirrorIdle
  <2>3. CASE MirrorRecord(c)
    <3> DEFINE k == Key(c)
               copy == mirror.records[k]
               x == Rec(Len(copy) + 1, Call(c).arg, c)
    <3>1. /\ k \in Runner /\ UNCHANGED <<scenario, db, adrift>>
          /\ \/ mirror' = mirror
             \/ Admits(copy, Call(c).arg) /\ Copies([mirror.records EXCEPT ![k] = Append(copy, x)], mirror.events)
      BY <2>3, MirrorRecordFrame
    <3>2. IsSeq(copy) /\ Whole(copy) /\ x.kind = Call(c).arg /\ x.seq = Len(copy) + 1
      BY <3>1 DEF CopyInv, Rec
    <3> HIDE DEF k, copy, x
    <3>3. Admits(copy, x.kind) => IsSeq(Append(copy, x)) /\ Whole(Append(copy, x))
      BY <3>2, IsSeqAppend, WholeAppend
    <3> QED
      BY <1>1, <2>1, <3>1, <3>2, <3>3, CopyRecords, ZenonT(30)
  <2>4. CASE UnmirrorRecords(c)
    <3>1. IsSeq(<< >>) /\ Whole(<< >>)
      BY IsSeqEmpty DEF Whole
    <3> QED
      BY <1>1, <2>1, <2>4, <3>1, UnmirrorFrame, CopyRecords, ZenonT(30)
  <2>5. CASE MirrorEvent(c) \/ MirrorCursor(c)
    <3>1. Is(c, "event", "mirror") => c \in adrift \/ Call(c).arg \in db.events
      BY DEF StoredInv, Is, Stored
    <3>2. /\ DOMAIN mirror' = {"records", "events", "cursors"} /\ mirror'.records = mirror.records
          /\ mirror'.events = mirror.events \/ (Is(c, "event", "mirror") /\ mirror'.events = mirror.events \cup {Call(c).arg})
          /\ UNCHANGED <<scenario, db, adrift>>
      BY <2>5, MirrorOthersFrame DEF Copies
    <3>3. \A e \in mirror'.events \ db'.events : \E d \in adrift' : Call(d)'.kind = "event" /\ Call(d)'.arg = e
      BY <3>1, <3>2 DEF CopyInv, Call, Is
    <3> QED
      BY <3>2, <3>3 DEF CopyInv
  <2> QED
    BY <2>2, <2>3, <2>4, <2>5 DEF Mirrors
<1> QED
  BY <1>2, <1>3 DEF Next, Acts

\* An append has its stripe until it returns.
Striped(c) == c \in Calls /\ Call(c).kind = "append" /\ pc[c] \in {"mutex", "conn", "begin", "read", "insert", "mirror"}
StripeInv ==
    /\ DOMAIN stripe = {Stripe[r] : r \in Runner}
    /\ \A c \in Caller : Striped(c) => stripe[Stripe[Key(c)]] = c

\* What a step does to the stripes: nothing, or it gives one back, or takes a free one.
StripeMove(c) ==
    \/ UNCHANGED stripe
    \/ stripe' = Held(stripe, c)
    \/ /\ Is(c, "append", "start") /\ stripe[Stripe[Key(c)]] = None
       /\ stripe' = [stripe EXCEPT ![Stripe[Key(c)]] = c]

LEMMA StripeMoves ==
    ASSUME NEW c \in Caller, TypeInv, Acts(c)
    PROVE  StripeMove(c)
<1> USE DEF Release, StripeMove, locks
<1>1. CASE AppendStart(c) \/ LockState(c) \/ TakeConn(c) \/ BeginImmediate(c) \/ BeginLocked(c) \/ BeginFails(c)
  BY <1>1 DEF AppendStart, LockState, TakeConn, BeginImmediate, BeginLocked, BeginFails
<1>2. CASE ReadState(c) \/ InsertFails(c) \/ TxCanceled(c) \/ TxLeaks(c) \/ LoadRecords(c) \/ ExecFails(c)
  BY <1>2, Zenon DEF ReadState, InsertFails, TxCanceled, TxLeaks, LoadRecords, ExecFails
<1>3. CASE CloseStart(c) \/ CloseEnds(c) \/ CloseAgain(c) \/ Cancel(c)
  BY <1>3 DEF CloseStart, CloseEnds, CloseAgain, Cancel
<1>4. CASE Statement(c, "own")
  BY <1>4, StatementsKeepRecords, Zenon DEF TypeInv
<1>5. CASE InsertRecord(c)
  BY <1>5 DEF InsertRecord
<1>6. CASE DeleteInSqlite(c) \/ DeleteInPostgres(c)
  BY <1>6, DeleteFrame
<1>7. CASE MirrorRecord(c) \/ UnmirrorRecords(c) \/ MirrorEvent(c) \/ MirrorCursor(c)
  BY <1>7 DEF MirrorRecord, UnmirrorRecords, MirrorEvent, MirrorCursor
<1>8. CASE StepAdrift(c)
  BY <1>8, AdriftFrame
<1> QED
  BY <1>1, <1>2, <1>3, <1>4, <1>5, <1>6, <1>7, <1>8, Kinds, ZenonT(30) DEF Aside, Inserts, Conflicts

\* A caller has its stripe while it is between its two ends.
LEMMA StripeOwn ==
    ASSUME NEW c \in Caller, TypeInv, StripeInv, Acts(c), Striped(c)'
    PROVE  stripe'[Stripe[Key(c)]] = c
<1> USE DEF TypeInv, Is, Goes, Returns, Striped, Calls, Call, StripeInv, locks
<1>1. CASE AppendStart(c)
  BY <1>1, CallsAreTyped, ZenonT(30) DEF AppendStart
<1>2. CASE LockState(c) \/ TakeConn(c) \/ BeginImmediate(c) \/ BeginLocked(c)
  BY <1>2, Zenon DEF LockState, TakeConn, BeginImmediate, BeginLocked
<1>3. CASE ReadState(c)
  BY <1>3, Zenon DEF ReadState
<1>4. CASE BeginFails(c) \/ InsertFails(c) \/ TxCanceled(c) \/ TxLeaks(c) \/ LoadRecords(c) \/ ExecFails(c)
  BY <1>4, Zenon DEF BeginFails, InsertFails, TxCanceled, TxLeaks, LoadRecords, ExecFails
<1>5. CASE CloseStart(c) \/ CloseEnds(c) \/ CloseAgain(c)
  BY <1>5 DEF CloseStart, CloseEnds, CloseAgain
<1>6. CASE Cancel(c)
  BY <1>6, ZenonT(30) DEF Cancel
<1>7. CASE Statement(c, "own")
  BY <1>7, StatementsKeepRecords
<1>8. CASE InsertRecord(c)
  BY <1>8 DEF InsertRecord
<1>9. CASE DeleteInSqlite(c) \/ DeleteInPostgres(c)
  BY <1>9, DeleteFrame, Zenon DEF Keeps, Empties
<1>10. CASE MirrorRecord(c) \/ UnmirrorRecords(c) \/ MirrorEvent(c) \/ MirrorCursor(c)
  BY <1>10 DEF MirrorRecord, UnmirrorRecords, MirrorEvent, MirrorCursor
<1>11. CASE StepAdrift(c)
  BY <1>11, AdriftFrame
<1> QED
  BY <1>1, <1>2, <1>3, <1>4, <1>5, <1>6, <1>7, <1>8, <1>9, <1>10, <1>11, Kinds, ZenonT(30) DEF Aside, Inserts, Conflicts

LEMMA StripeStep == TypeInv /\ StripeInv /\ [Next]_vars => StripeInv'
<1> SUFFICES ASSUME TypeInv, StripeInv, [Next]_vars PROVE StripeInv'
  OBVIOUS
<1>1. CASE UNCHANGED vars
  BY <1>1, ZenonT(30) DEF vars, locks, StripeInv, Striped, Calls, Call, Key
<1>2. ASSUME NEW c \in Caller, Acts(c) PROVE StripeInv'
  <2>1. scenario' = scenario
    BY <1>2, ScenarioStays
  <2>2. StripeMove(c)
    BY <1>2, StripeMoves
  <2>3. DOMAIN stripe' = {Stripe[r] : r \in Runner}
    BY <2>2 DEF StripeMove, StripeInv, Held
  <2>4. ASSUME NEW d \in Caller, Striped(d)' PROVE stripe'[Stripe[Key(d)]] = d
    <3>1. CASE d = c
      BY <1>2, <2>4, <3>1, StripeOwn
    <3>2. CASE d # c
      <4>1. Striped(d)
        BY <1>2, <2>1, <2>4, <3>2, OthersStay DEF Striped, Calls, Call
      <4>2. stripe[Stripe[Key(d)]] = d /\ d # None /\ Key(d) \in Runner
        BY <4>1, CallsAreTyped, SqlStoreAssumption DEF StripeInv, Striped, None
      <4> QED
        BY <2>2, <3>2, <4>2 DEF StripeMove, Held, StripeInv
    <3> QED
      BY <3>1, <3>2
  <2> QED
    BY <2>1, <2>3, <2>4 DEF StripeInv, Key, Call
<1> QED
  BY <1>1, <1>2 DEF Next, Acts

\* An error is the end of a call.
DoneInv == \A c \in Caller : result[c] = "error" => pc[c] = "done"
NoError == \A c \in Calls : result[c] # "error"

\* A call goes on unless it has returned, and returns when it has a result.
LEMMA Moves ==
    ASSUME NEW c \in Caller, TypeInv, Step(c) \/ StepAdrift(c)
    PROVE  pc[c] # "done" /\ (result'[c] = result[c] \/ pc'[c] = "done")
<1> USE DEF TypeInv, Is, Goes, Returns
<1>1. CASE AppendStart(c) \/ LockState(c) \/ TakeConn(c) \/ BeginImmediate(c) \/ BeginLocked(c) \/ BeginFails(c)
  BY <1>1, Zenon DEF AppendStart, LockState, TakeConn, BeginImmediate, BeginLocked, BeginFails
<1>2. CASE ReadState(c) \/ InsertRecord(c) \/ InsertFails(c) \/ TxCanceled(c) \/ TxLeaks(c) \/ LoadRecords(c) \/ ExecFails(c)
  BY <1>2, Zenon DEF ReadState, InsertRecord, InsertFails, TxCanceled, TxLeaks, InTransaction, LoadRecords, ExecFails
<1>3. CASE CloseStart(c) \/ CloseEnds(c) \/ CloseAgain(c)
  BY <1>3 DEF CloseStart, CloseEnds, CloseAgain
<1>4. CASE Statement(c, "own")
  BY <1>4, StatementsKeepRecords, Zenon
<1>5. CASE DeleteInSqlite(c) \/ DeleteInPostgres(c)
  BY <1>5, DeleteFrame, Zenon DEF Keeps, Empties
<1>6. CASE MirrorRecord(c) \/ UnmirrorRecords(c) \/ MirrorEvent(c) \/ MirrorCursor(c)
  BY <1>6 DEF MirrorRecord, UnmirrorRecords, MirrorEvent, MirrorCursor
<1>7. CASE StepAdrift(c)
  BY <1>7, AdriftFrame, Zenon
<1> QED
  BY <1>1, <1>2, <1>3, <1>4, <1>5, <1>6, <1>7, Zenon DEF Step

LEMMA DoneStep == TypeInv /\ DoneInv /\ [Next]_vars => DoneInv' /\ (NoError' => NoError)
<1> SUFFICES ASSUME TypeInv, DoneInv, [Next]_vars PROVE DoneInv' /\ (NoError' => NoError)
  OBVIOUS
<1>1. CASE UNCHANGED vars
  BY <1>1 DEF vars, DoneInv, NoError, Calls
<1>2. ASSUME NEW c \in Caller, Acts(c) PROVE DoneInv' /\ (NoError' => NoError)
  <2>1. scenario' = scenario
    BY <1>2, ScenarioStays
  <2>2. Cancel(c) => pc' = pc /\ result' = result
    BY DEF Cancel
  <2>3. ASSUME NEW d \in Caller
        PROVE  /\ result'[d] = "error" => pc'[d] = "done"
               /\ result[d] = "error" => result'[d] = "error"
    <3>1. CASE d = c
      BY <1>2, <2>2, <3>1, Moves DEF DoneInv, Acts
    <3>2. CASE d # c
      BY <1>2, <3>2, OthersStay DEF DoneInv
    <3> QED
      BY <3>1, <3>2
  <2>4. DoneInv'
    BY <2>3 DEF DoneInv
  <2>5. NoError' => NoError
    BY <2>1, <2>3, CallsAreTyped DEF NoError, Calls
  <2> QED
    BY <2>4, <2>5
<1> QED
  BY <1>1, <1>2 DEF Next, Acts

\* No transaction leaks unless a caller is told of an error.
LeakInv == NoError => writer # "leaked" /\ adrift = {}

LEMMA LeakMoves ==
    ASSUME NEW c \in Caller, TypeInv, Acts(c), ~StepAdrift(c), ~TxLeaks(c)
    PROVE  writer' \in {writer, None, c} /\ adrift' = adrift
<1> USE DEF Release, LeavePrimary, locks, ghosts
<1>1. CASE AppendStart(c) \/ LockState(c) \/ TakeConn(c) \/ BeginImmediate(c) \/ BeginLocked(c) \/ BeginFails(c)
  BY <1>1, Zenon DEF AppendStart, LockState, TakeConn, BeginImmediate, BeginLocked, BeginFails
<1>2. CASE ReadState(c) \/ InsertFails(c) \/ TxCanceled(c) \/ LoadRecords(c) \/ ExecFails(c)
  BY <1>2, Zenon DEF ReadState, InsertFails, TxCanceled, LoadRecords, ExecFails
<1>3. CASE CloseStart(c) \/ CloseEnds(c) \/ CloseAgain(c) \/ Cancel(c)
  BY <1>3, Zenon DEF CloseStart, CloseEnds, CloseAgain, Cancel
<1>4. CASE Statement(c, "own")
  BY <1>4, StatementsKeepRecords, Zenon DEF TypeInv
<1>5. CASE InsertRecord(c)
  BY <1>5, Zenon DEF InsertRecord
<1>6. CASE DeleteInSqlite(c) \/ DeleteInPostgres(c)
  BY <1>6, DeleteFrame, Zenon
<1>7. CASE MirrorRecord(c) \/ UnmirrorRecords(c) \/ MirrorEvent(c) \/ MirrorCursor(c)
  BY <1>7, Zenon DEF MirrorRecord, UnmirrorRecords, MirrorEvent, MirrorCursor
<1> QED
  BY <1>1, <1>2, <1>3, <1>4, <1>5, <1>6, <1>7, Kinds, ZenonT(30) DEF Aside, Inserts, Conflicts

LEMMA LeakStep == TypeInv /\ DoneInv /\ LeakInv /\ [Next]_vars => LeakInv'
<1> SUFFICES ASSUME TypeInv, DoneInv, LeakInv, [Next]_vars, NoError' PROVE writer' # "leaked" /\ adrift' = {}
  BY DEF LeakInv
<1>1. writer # "leaked" /\ adrift = {}
  BY DoneStep DEF LeakInv
<1>2. CASE UNCHANGED vars
  BY <1>1, <1>2 DEF vars, locks, ghosts
<1>3. ASSUME NEW c \in Caller, Acts(c) PROVE writer' # "leaked" /\ adrift' = {}
  <2>1. ~StepAdrift(c)
    BY <1>1, AdriftFrame
  <2>2. ~TxLeaks(c)
    <3> SUFFICES ASSUME TxLeaks(c) PROVE FALSE
      OBVIOUS
    <3>1. c \in Calls' /\ result'[c] = "error"
      BY DEF TxLeaks, InTransaction, Is, Returns, TypeInv, Calls
    <3> QED
      BY <3>1 DEF NoError
  <2>3. c # "leaked" /\ None # "leaked"
    BY SqlStoreAssumption DEF None
  <2> QED
    BY <1>1, <1>3, <2>1, <2>2, <2>3, LeakMoves
<1> QED
  BY <1>2, <1>3 DEF Next, Acts

\* The calls the mirror waits for
Unmirroring(r) == {c \in Calls : Is(c, "delete", "unmirror") /\ Key(c) = r}
Mirroring(r)   == {c \in Calls : Is(c, "append", "mirror") /\ Key(c) = r}

\* The other calls wait as they did.
LEMMA OthersWait ==
    ASSUME NEW c \in Caller, TypeInv, Acts(c), NEW r
    PROVE  /\ Unmirroring(r)' \ {c} = Unmirroring(r) \ {c}
           /\ Mirroring(r)' \ {c} = Mirroring(r) \ {c}
<1>1. scenario' = scenario
  BY ScenarioStays
<1>2. \A d \in Calls \ {c} : pc'[d] = pc[d]
  BY OthersStay, CallsAreTyped
<1> QED
  BY <1>1, <1>2 DEF Unmirroring, Mirroring, Is, Calls, Call, Key

\* What is neither inserted, deleted nor mirrored waits as it did.
LEMMA OwnWait ==
    ASSUME NEW c \in Caller, TypeInv, Acts(c),
           ~(InsertRecord(c) \/ DeleteInSqlite(c) \/ DeleteInPostgres(c) \/ MirrorRecord(c) \/ UnmirrorRecords(c) \/ StepAdrift(c))
    PROVE  /\ Is(c, "append", "mirror")' <=> Is(c, "append", "mirror")
           /\ Is(c, "delete", "unmirror")' <=> Is(c, "delete", "unmirror")
<1>0. scenario' = scenario
  BY ScenarioStays
<1> USE <1>0 DEF TypeInv, Is, Goes, Returns, Calls, Call
<1>1. CASE AppendStart(c) \/ LockState(c) \/ TakeConn(c) \/ BeginImmediate(c) \/ BeginLocked(c) \/ BeginFails(c)
  BY <1>1, Zenon DEF AppendStart, LockState, TakeConn, BeginImmediate, BeginLocked, BeginFails
<1>2. CASE ReadState(c) \/ InsertFails(c) \/ LoadRecords(c) \/ ExecFails(c)
  BY <1>2, Zenon DEF ReadState, InsertFails, LoadRecords, ExecFails
<1>3. CASE CloseStart(c) \/ CloseEnds(c) \/ CloseAgain(c) \/ Cancel(c)
  BY <1>3 DEF CloseStart, CloseEnds, CloseAgain, Cancel
<1>4. CASE Statement(c, "own")
  BY <1>4, StatementsKeepRecords, Zenon
<1>5. CASE MirrorEvent(c) \/ MirrorCursor(c)
  BY <1>5 DEF MirrorEvent, MirrorCursor
<1>6. CASE TxCanceled(c) \/ TxLeaks(c)
  BY <1>6, Zenon DEF TxCanceled, TxLeaks, InTransaction
<1> QED
  BY <1>1, <1>2, <1>3, <1>4, <1>5, <1>6, Kinds, Zenon DEF Aside, Inserts, Conflicts

MirrorInv ==
    NoError => \A r \in Runner \ torn :
                   Tracks(scenario.calls, db.records[r], mirror.records[r], Unmirroring(r), Mirroring(r))

MirrorIInv == TypeInv /\ TxInv /\ LogInv /\ StoredInv /\ CopyInv /\ StripeInv /\ DoneInv /\ LeakInv /\ MirrorInv

\* The logs of runner r, and the calls that wait for them
Tracked(r) == Tracks(scenario.calls, db.records[r], mirror.records[r], Unmirroring(r), Mirroring(r))

\* The log of r and its copy are left alone
Same(r) ==
    /\ scenario' = scenario /\ db'.records[r] = db.records[r] /\ mirror'.records[r] = mirror.records[r]
    /\ Unmirroring(r)' = Unmirroring(r) /\ Mirroring(r)' = Mirroring(r)

LEMMA TrackedSame ==
    ASSUME NEW r, Same(r), Tracked(r)
    PROVE  Tracked(r)'
  BY DEF Same, Tracked

\* What a call that waits or not is to the two sets
LEMMA InSets ==
    ASSUME NEW c \in Calls, NEW r
    PROVE  /\ c \in Unmirroring(r) <=> Is(c, "delete", "unmirror") /\ Key(c) = r
           /\ c \in Mirroring(r) <=> Is(c, "append", "mirror") /\ Key(c) = r
  BY DEF Unmirroring, Mirroring

LEMMA TrackedQuiet ==
    ASSUME NEW c \in Caller, MirrorIInv, Acts(c), NEW r \in Runner, Tracked(r),
           ~(InsertRecord(c) \/ DeleteInSqlite(c) \/ DeleteInPostgres(c) \/ MirrorRecord(c) \/ UnmirrorRecords(c) \/ StepAdrift(c))
    PROVE  Tracked(r)'
<1> USE DEF MirrorIInv
<1>1. scenario' = scenario
  BY ScenarioStays
<1>2. db'.records = db.records
  BY Kinds, AsideFrame, StatementsKeepRecords, ZenonT(30) DEF TypeInv, Inserts
<1>3. mirror'.records = mirror.records
  <2>1. CASE MirrorEvent(c) \/ MirrorCursor(c)
    BY <2>1, MirrorOthersFrame, Zenon DEF Copies
  <2>2. CASE ~Mirrors(c)
    BY <2>2, MirrorIdle
  <2> QED
    BY <2>1, <2>2 DEF Mirrors
<1>4. Unmirroring(r)' = Unmirroring(r) /\ Mirroring(r)' = Mirroring(r)
  <2>1. \A d \in Calls : /\ Is(d, "append", "mirror")' <=> Is(d, "append", "mirror")
                         /\ Is(d, "delete", "unmirror")' <=> Is(d, "delete", "unmirror")
    <3>1. ASSUME NEW d \in Calls, d # c PROVE pc'[d] = pc[d]
      BY <3>1, OthersStay, CallsAreTyped
    <3>2. c \in Calls => /\ Is(c, "append", "mirror")' <=> Is(c, "append", "mirror")
                         /\ Is(c, "delete", "unmirror")' <=> Is(c, "delete", "unmirror")
      BY OwnWait, Zenon
    <3>3. \A d \in Calls \ {c} : /\ Is(d, "append", "mirror")' <=> Is(d, "append", "mirror")
                                 /\ Is(d, "delete", "unmirror")' <=> Is(d, "delete", "unmirror")
      BY <1>1, <3>1 DEF Is, Calls, Call
    <3> QED
      BY <3>2, <3>3, Zenon
  <2> QED
    BY <1>1, <2>1 DEF Unmirroring, Mirroring, Calls, Key, Call
<1> QED
  BY <1>1, <1>2, <1>3, <1>4, TrackedSame DEF Same

LEMMA TrackedInsert ==
    ASSUME NEW c \in Caller, MirrorIInv, Inserts(c), Acts(c), NEW r \in Runner \ torn, Tracked(r)
    PROVE  Tracked(r)'
<1> USE DEF MirrorIInv
<1> DEFINE calls == scenario.calls
           k == Key(c)
           log == db.records[k]
           copy == mirror.records[k]
           D == Unmirroring(r)
           A == Mirroring(r)
<1>1. /\ Is(c, "append", "insert") /\ k \in Runner /\ scenario' = scenario /\ mirror' = mirror /\ pc'[c] = "mirror"
      /\ db'.records[k] = Append(log, Rec(seen[c] + 1, Call(c).arg, c))
      /\ \A q \in Runner \ {k} : db'.records[q] = db.records[q]
  BY InsertFrame, Zenon DEF Goes, TypeInv, Rec
<1>2. c \in Calls /\ Calls' = Calls /\ Key(c)' = k
  BY <1>1, ZenonT(30) DEF Is, Calls, Key, Call
<1>3. /\ c \notin D /\ c \notin Unmirroring(r)' /\ c \notin A
      /\ c \in Mirroring(r)' <=> k = r
  BY <1>1, <1>2, ZenonT(30) DEF Unmirroring, Mirroring, Is, Calls, Call, Key
<1>4. D' = D /\ Mirroring(r)' = IF k = r THEN A \cup {c} ELSE A
  <2>1. D' \ {c} = D \ {c} /\ A' \ {c} = A \ {c}
    BY OthersWait
  <2> HIDE DEF D, A, k
  <2>2. D' = D
    BY <1>3, <2>1 DEF D
  <2>3. A' = IF k = r THEN A \cup {c} ELSE A
    BY <1>3, <2>1 DEF A
  <2> QED
    BY <2>2, <2>3 DEF A
<1>5. CASE k # r
  BY <1>1, <1>4, <1>5, TrackedSame, Zenon DEF Same
<1>6. CASE k = r
  <2>1. A = {}
    <3> SUFFICES ASSUME NEW a \in A PROVE FALSE
      OBVIOUS
    <3>1. a \in Caller /\ Striped(a) /\ Key(a) = k
      BY <1>6, CallsAreTyped DEF Mirroring, Is, Striped
    <3>2. Striped(c)
      BY <1>1 DEF Is, Striped
    <3>3. a = c
      BY <3>1, <3>2 DEF StripeInv
    <3> QED
      BY <1>3, <3>3
  <2>2. seen[c] = Len(log) /\ Admits(log, calls[c].arg)
    BY <1>1, <1>6 DEF LogInv, SeenInv, Call
  <2>3. Tracks(calls, log, copy, D, {})
    BY <1>6, <2>1, ZenonT(30) DEF Tracked
  <2>4. c \in DOMAIN calls /\ Call(c).arg = calls[c].arg
    BY <1>2 DEF Calls, Call
  <2> HIDE DEF calls, k, log, copy, D, A
  <2>5. Tracks(calls, Append(log, Rec(seen[c] + 1, calls[c].arg, c)), copy, D, {c})
    BY <2>2, <2>3, <2>4, TracksInsert, Zenon
  <2>6. Tracks(scenario'.calls, db'.records[r], mirror'.records[r], Unmirroring(r)', Mirroring(r)')
    BY <1>1, <1>4, <1>6, <2>1, <2>4, <2>5, Zenon DEF calls, copy, D
  <2> QED
    BY <2>6, Zenon DEF Tracked
<1> QED
  BY <1>5, <1>6

LEMMA TrackedDelete ==
    ASSUME NEW c \in Caller, MirrorIInv, DeleteInSqlite(c) \/ DeleteInPostgres(c), Acts(c), NEW r \in Runner \ torn, Tracked(r)
    PROVE  Tracked(r)'
<1> USE DEF MirrorIInv
<1> DEFINE calls == scenario.calls
           k == Key(c)
           log == db.records[k]
           copy == mirror.records[k]
           D == Unmirroring(r)
           A == Mirroring(r)
<1>1. /\ c \in Calls /\ Call(c).kind = "delete" /\ pc[c] # "unmirror"
      /\ k \in Runner /\ scenario' = scenario /\ mirror' = mirror /\ (Keeps(c) \/ Empties(c))
  BY DeleteFrame DEF Is
<1>2. c \notin D /\ c \notin A /\ A' = A
  <2>1. c \notin D /\ c \notin A /\ c \notin A'
    BY <1>1, Zenon DEF Unmirroring, Mirroring, Is, Calls, Call
  <2>2. A' \ {c} = A \ {c}
    BY OthersWait
  <2> HIDE DEF A
  <2>3. A' = A
    BY <2>1, <2>2
  <2> QED
    BY <2>1, <2>3
<1>3. D' = IF pc'[c] = "unmirror" /\ k = r THEN D \cup {c} ELSE D
  <2>1. c \in D' <=> pc'[c] = "unmirror" /\ k = r
    BY <1>1, Zenon DEF Unmirroring, Is, Calls, Call, Key
  <2> QED
    BY <1>2, <2>1, OthersWait
<1>4. CASE Keeps(c)
  <2>1. pc'[c] # "unmirror" /\ db' = db
    BY <1>4 DEF Keeps, Returns, TypeInv
  <2> QED
    BY <1>1, <1>2, <1>3, <2>1, TrackedSame, ZenonT(30) DEF Same
<1>5. CASE Empties(c) /\ k # r
  <2>1. db'.records[r] = db.records[r]
    BY <1>5, ZenonT(30) DEF Empties
  <2> QED
    BY <1>1, <1>2, <1>3, <1>5, <2>1, TrackedSame, Zenon DEF Same
<1>6. CASE Empties(c) /\ k = r
  <2>1. pc'[c] = "unmirror" /\ db'.records[k] = << >> /\ log # << >>
    BY <1>6, Zenon DEF Empties, Goes, TypeInv
  <2>2. Whole(log) /\ IsSeq(copy) /\ Whole(copy) /\ c \in DOMAIN calls
    BY <1>1, <1>6, ZenonT(30) DEF LogInv, OrderInv, CopyInv, Calls
  <2>3. Tracks(calls, log, copy, D, A)
    BY <1>6 DEF Tracked
  <2> HIDE DEF calls, k, log, copy, D, A
  <2>4. Tracks(calls, << >>, copy, D \cup {c}, A)
    BY <1>2, <2>1, <2>2, <2>3, TracksDelete, Zenon
  <2>5. Tracks(scenario'.calls, db'.records[r], mirror'.records[r], Unmirroring(r)', Mirroring(r)')
    BY <1>1, <1>2, <1>3, <1>6, <2>1, <2>4, Zenon DEF calls, copy, D, A
  <2> QED
    BY <2>5, Zenon DEF Tracked
<1> QED
  BY <1>1, <1>4, <1>5, <1>6

LEMMA TrackedMirror ==
    ASSUME NEW c \in Caller, MirrorIInv, MirrorRecord(c), Acts(c), NoError', NEW r \in Runner, Tracked(r)
    PROVE  Tracked(r)'
<1> USE DEF MirrorIInv
<1> DEFINE calls == scenario.calls
           k == Key(c)
           copy == mirror.records[k]
           D == Unmirroring(r)
           A == Mirroring(r)
           x == Rec(Len(copy) + 1, Call(c).arg, c)
<1>1. /\ Is(c, "append", "mirror") /\ k \in Runner /\ db' = db /\ scenario' = scenario
      /\ \/ Returns(c, "error")
         \/ /\ Admits(copy, Call(c).arg) /\ Returns(c, "ok")
            /\ Copies([mirror.records EXCEPT ![k] = Append(copy, x)], mirror.events)
  BY MirrorRecordFrame, Zenon
<1>2. c \in Calls /\ Calls' = Calls /\ pc'[c] = "done"
  BY <1>1, ZenonT(30) DEF Is, Calls, Returns, TypeInv
<1>3. result'[c] # "error"
  BY <1>2 DEF NoError
<1>4. /\ Admits(copy, Call(c).arg)
      /\ mirror'.records[k] = Append(copy, x) /\ \A q \in Runner \ {k} : mirror'.records[q] = mirror.records[q]
  BY <1>1, <1>3, Zenon DEF Returns, TypeInv, Copies, CopyInv
<1>5. c \notin D /\ c \notin D' /\ c \notin A' /\ (c \in A <=> k = r)
  BY <1>1, <1>2, Zenon DEF Unmirroring, Mirroring, Is, Calls, Call, Key
<1>6. D' = D
  BY <1>5, OthersWait
<1>7. A' = A \ {c}
  BY <1>5, OthersWait
<1>8. CASE k # r
  <2>1. A' = A
    BY <1>5, <1>7, <1>8
  <2> QED
    BY <1>1, <1>4, <1>6, <1>8, <2>1, TrackedSame, Zenon DEF Same
<1>9. CASE k = r
  <2>1. IsSeq(copy) /\ Whole(copy) /\ Call(c).arg = calls[c].arg
    BY <1>1, ZenonT(30) DEF CopyInv, Call
  <2>2. Tracks(calls, db.records[r], copy, D, A) /\ c \in A
    BY <1>5, <1>9 DEF Tracked
  <2>3. x = Rec(Len(copy) + 1, calls[c].arg, c)
    BY <2>1
  <2> HIDE DEF calls, k, copy, D, A, x
  <2>4. Tracks(calls, db.records[r], Append(copy, x), D, A \ {c})
    BY <1>4, <2>1, <2>2, <2>3, TracksMirror, ZenonT(30)
  <2>5. Tracks(scenario'.calls, db'.records[r], mirror'.records[r], Unmirroring(r)', Mirroring(r)')
    BY <1>1, <1>4, <1>6, <1>7, <1>9, <2>4, ZenonT(30) DEF calls, D, A
  <2> QED
    BY <2>5 DEF Tracked
<1> QED
  BY <1>8, <1>9

LEMMA TrackedUnmirror ==
    ASSUME NEW c \in Caller, MirrorIInv, UnmirrorRecords(c), Acts(c), NoError', NEW r \in Runner, Tracked(r)
    PROVE  Tracked(r)'
<1> USE DEF MirrorIInv
<1> DEFINE calls == scenario.calls
           k == Key(c)
           copy == mirror.records[k]
           D == Unmirroring(r)
           A == Mirroring(r)
<1>1. /\ Is(c, "delete", "unmirror") /\ k \in Runner /\ db' = db /\ scenario' = scenario
      /\ \/ Returns(c, "error")
         \/ /\ Copies([mirror.records EXCEPT ![k] = << >>], mirror.events)
            /\ copy # << >> /\ Returns(c, "ok")
  BY UnmirrorFrame
<1>2. c \in Calls /\ Calls' = Calls /\ pc'[c] = "done"
  BY <1>1 DEF Is, Calls, Returns, TypeInv
<1>3. result'[c] # "error"
  BY <1>2 DEF NoError
<1>4. copy # << >> /\ mirror'.records[k] = << >> /\ \A q \in Runner \ {k} : mirror'.records[q] = mirror.records[q]
  <2>1. DOMAIN result = Caller /\ DOMAIN mirror.records = Runner
    BY DEF TypeInv, CopyInv
  <2>2. ~Returns(c, "error")
    BY <1>3, <2>1 DEF Returns
  <2>3. copy # << >> /\ mirror'.records = [mirror.records EXCEPT ![k] = << >>]
    BY <1>1, <2>2, Zenon DEF Copies
  <2> HIDE DEF k, MirrorIInv
  <2> QED
    BY <1>1, <2>1, <2>3
<1>5. c \notin A /\ c \notin A' /\ c \notin D' /\ (c \in D <=> k = r)
  BY <1>1, <1>2, Zenon DEF Unmirroring, Mirroring, Is, Calls, Call, Key
<1>6. A' = A
  BY <1>5, OthersWait
<1>7. D' = D \ {c}
  BY <1>5, OthersWait
<1>8. CASE k # r
  <2>1. D' = D
    BY <1>5, <1>7, <1>8
  <2> QED
    BY <1>1, <1>4, <1>6, <1>8, <2>1, TrackedSame, Zenon DEF Same
<1>9. CASE k = r
  <2>1. IsSeq(copy) /\ Whole(copy) /\ \A a \in A : calls[a].arg \in {"init", "event"}
    BY <1>1, CallsAreTyped, Zenon DEF CopyInv, Call, Mirroring, Is
  <2>2. Tracks(calls, db.records[r], copy, D, A) /\ c \in D
    BY <1>5, <1>9, Zenon DEF Tracked
  <2> HIDE DEF calls, k, copy, D, A
  <2>3. Tracks(calls, db.records[r], << >>, D \ {c}, A)
    BY <1>4, <2>1, <2>2, TracksUnmirror, Zenon
  <2>4. Tracks(scenario'.calls, db'.records[r], mirror'.records[r], Unmirroring(r)', Mirroring(r)')
    BY <1>1, <1>4, <1>6, <1>7, <1>9, <2>3, Zenon DEF calls, D, A
  <2> QED
    BY <2>4, Zenon DEF Tracked
<1> QED
  BY <1>8, <1>9

\* A deleted log stays torn.
LEMMA TornStays ==
    ASSUME NEW c \in Caller, TypeInv, Acts(c)
    PROVE  torn \subseteq torn'
<1>1. CASE Aside(c)
  BY <1>1, AsideFrame, Zenon
<1>2. CASE Statement(c, "own")
  BY <1>2, StatementsKeepRecords, Zenon DEF TypeInv, ghosts
<1>3. CASE Inserts(c)
  BY <1>3, InsertFrame, Zenon DEF ghosts
<1>4. CASE DeleteInSqlite(c) \/ DeleteInPostgres(c)
  BY <1>4, DeleteFrame, ZenonT(30) DEF Keeps, Empties
<1> QED
  BY <1>1, <1>2, <1>3, <1>4, Kinds, Zenon

LEMMA MirrorStep == MirrorIInv /\ [Next]_vars => MirrorInv'
<1> SUFFICES ASSUME MirrorIInv, [Next]_vars, NoError', NEW r \in Runner, r \notin torn' PROVE Tracked(r)'
  BY Zenon DEF MirrorInv, Tracked
<1>1. NoError
  BY DoneStep DEF MirrorIInv
<1>2. ASSUME r \notin torn PROVE Tracked(r)
  BY <1>1, <1>2 DEF MirrorIInv, MirrorInv, Tracked
<1>3. CASE UNCHANGED vars
  <2>1. UNCHANGED <<scenario, db, mirror, pc, torn>>
    BY <1>3, Zenon DEF vars, ghosts
  <2>2. Unmirroring(r)' = Unmirroring(r) /\ Mirroring(r)' = Mirroring(r)
    BY <2>1, Zenon DEF Unmirroring, Mirroring, Is, Calls, Call, Key
  <2> QED
    BY <1>2, <2>1, <2>2, TrackedSame, Zenon DEF Same
<1>4. ASSUME NEW c \in Caller, Acts(c) PROVE Tracked(r)'
  <2>1. r \in Runner \ torn /\ Tracked(r)
    BY <1>2, <1>4, TornStays DEF MirrorIInv
  <2>2. ~StepAdrift(c)
    BY <1>1, AdriftFrame DEF MirrorIInv, LeakInv
  <2>3. ~Conflicts(c)
    <3> SUFFICES ASSUME Conflicts(c) PROVE FALSE
      OBVIOUS
    <3>1. c \in Calls' /\ result'[c] = "error"
      BY ConflictFrame DEF Is, Returns, MirrorIInv, TypeInv, Calls
    <3> QED
      BY <3>1 DEF NoError
  <2>4. CASE InsertRecord(c)
    BY <1>4, <2>1, <2>3, <2>4, TrackedInsert DEF Inserts, Conflicts
  <2>5. CASE DeleteInSqlite(c) \/ DeleteInPostgres(c)
    BY <1>4, <2>1, <2>5, TrackedDelete
  <2>6. CASE MirrorRecord(c)
    BY <1>4, <2>1, <2>6, TrackedMirror
  <2>7. CASE UnmirrorRecords(c)
    BY <1>4, <2>1, <2>7, TrackedUnmirror
  <2>8. CASE ~(InsertRecord(c) \/ DeleteInSqlite(c) \/ DeleteInPostgres(c) \/ MirrorRecord(c) \/ UnmirrorRecords(c) \/ StepAdrift(c))
    BY <1>4, <2>1, <2>8, TrackedQuiet
  <2> QED
    BY <2>2, <2>4, <2>5, <2>6, <2>7, <2>8
<1> QED
  BY <1>3, <1>4 DEF Next, Acts

LEMMA MirrorInit == Init => MirrorIInv
<1> SUFFICES ASSUME Init PROVE MirrorIInv
  OBVIOUS
<1>1. TypeInv /\ TxInv /\ LogInv
  BY InitHolds
<1>2. \A c \in Caller : pc[c] = "start" /\ result[c] = ""
  BY ZenonT(30) DEF Init
<1>3. StoredInv /\ DoneInv
  BY <1>1, <1>2, CallsAreTyped, ZenonT(30) DEF StoredInv, DoneInv
<1>4. StripeInv
  BY <1>2, ZenonT(30) DEF Init, StripeInv, Striped
<1>5. /\ DOMAIN mirror = {"records", "events", "cursors"} /\ mirror.records = scenario.log /\ db.records = scenario.log
      /\ mirror.events = {}
  BY ZenonT(30) DEF Init
<1>6. scenario.log \in [Runner -> Seq(Record)] /\ \A r \in Runner : Whole(scenario.log[r])
  BY SqlStoreAssumption, ZenonT(30) DEF Init
<1>7. IsFcn(scenario.log)
  BY <1>6 DEF IsFcn
<1>8. CopyInv
  BY <1>1, <1>5, <1>6, <1>7, Zenon DEF CopyInv, TypeInv
<1>9. \A r \in Runner : Unmirroring(r) = {} /\ Mirroring(r) = {}
  BY <1>1, <1>2, CallsAreTyped, ZenonT(30) DEF Unmirroring, Mirroring, Is
<1>10. MirrorInv
  BY <1>5, <1>9, Zenon DEF MirrorInv, Tracks
<1>11. LeakInv
  BY Zenon DEF Init, LeakInv, None
<1> QED
  BY <1>1, <1>3, <1>4, <1>8, <1>10, <1>11 DEF MirrorIInv

\* Once every call has returned the mirror has the logs of the primary, unless a
\* caller was told of an error, whatever order the calls reach the two stores in
\* (compositeRunnerStore), and in Postgres unless the log was deleted under an
\* append; it never has an event the primary lacks but those inserted on the
\* connection that an append left in its canceled transaction.
THEOREM MirrorKeepsUp == Spec => []MirrorFollows
<1>1. Init => MirrorIInv
  BY MirrorInit
<1>2. MirrorIInv /\ [Next]_vars => MirrorIInv'
  BY TypeStep, TxStep, LogStep, StoredStep, CopyStep, StripeStep, DoneStep, LeakStep, MirrorStep DEF MirrorIInv
<1>3. MirrorIInv => MirrorFollows
  <2> SUFFICES ASSUME MirrorIInv, \A c \in Calls : pc[c] = "done" /\ result[c] # "error",
                      NEW r \in Runner, Sqlite \/ r \notin torn
               PROVE  mirror.records[r] = db.records[r]
    BY Zenon DEF MirrorFollows, MirrorIInv, CopyInv
  <2>1. Unmirroring(r) = {} /\ Mirroring(r) = {}
    BY DEF Unmirroring, Mirroring, Is
  <2>2. r \notin torn
    BY DEF MirrorIInv, LogInv, TornInv
  <2>3. Tracks(scenario.calls, db.records[r], mirror.records[r], {}, {})
    BY <2>1, <2>2 DEF MirrorIInv, MirrorInv, NoError
  <2> QED
    BY <2>3 DEF Tracks
<1> QED
  BY <1>1, <1>2, <1>3, PTL DEF Spec
=============================================================================
