----------------------------- MODULE RunnerStore -----------------------------
(* JSONRunnerStore (src/runner/store.go, codec.go): one JSON-lines file per    *)
(* runner, written by several processes.  A process holds the runner's mutex   *)
(* for the whole of Append and Delete, so it has one call in flight; between   *)
(* processes only flock orders the appends.  A file is a sequence of lines; a  *)
(* write that was cut short leaves a last line without its newline.            *)
EXTENDS Integers, Sequences, FiniteSets, SequencesExt, FiniteSetsExt

CONSTANTS
  Process,     \* processes that share the store's directory
  Kind,        \* record kinds, "init" among them
  Bytes,       \* encoded length of a record of each kind, newline excluded
  ScanLimit,   \* longest line bufio.Scanner accepts (8 MiB in the code)
  Worlds       \* what may happen to the store

\* A world is [live, deletes, truncates, tears, crashes, calls, files]: the
\* processes that append, those of them that also delete or (see SessionStore)
\* truncate, whether a write may reach the file only in part, whether a process
\* may die and start again, and two bounds, on the calls and on the files created
\* (one more after every Delete or Truncate).

ASSUME KindAssumption == "init" \in Kind
ASSUME BytesAssumption == Bytes \in [Kind -> Nat \ {0, 1}]
ASSUME WorldAssumption ==
  /\ ScanLimit \in Nat
  /\ \A w \in Worlds : /\ w.live \subseteq Process /\ w.deletes \cup w.truncates \subseteq w.live
                       /\ {w.tears, w.crashes} \subseteq BOOLEAN
                       /\ {w.calls, w.files} \subseteq Nat

VARIABLES
  world,
  disk,        \* lines of every file ever created
  dir,         \* the file the runner's path names, 0 when there is none
  lock,        \* per file, the processes that hold its flock
  cache,       \* per process, the runnerLogState fields
  op,          \* per process, the Append call in flight
  calls,       \* Append calls made
  acked,       \* records whose Append returned a sequence number, since Delete
  glued        \* ghost: since then, an append ran into an unended line

vars == <<world, disk, dir, lock, cache, op, calls, acked, glued>>

NoRecord == [seq |-> 0, kind |-> "init", id |-> 0]
File == 1 .. world.files
NoCall == [pc |-> "idle", kind |-> "init", fd |-> 0, rec |-> NoRecord]
NoCache == [cached |-> FALSE, lastSeq |-> 0, hasInit |-> FALSE, size |-> 0]

\* The file that is created next, if there may be one.
InUse == {f \in File : disk[f] # << >>} \cup {dir} \cup {op[p].fd : p \in Process}
Fresh == {f \in File \ InUse : \A g \in File \ InUse : f <= g}

-----------------------------------------------------------------------------
(* Lines.  A line decodes to a record or does not (NoRecord); `bytes` counts   *)
(* its newline when it has one.                                                *)

Torn(bytes) == [rec |-> NoRecord, ended |-> FALSE, bytes |-> bytes]
Whole(r) == [rec |-> r, ended |-> TRUE, bytes |-> Bytes[r.kind] + 1]
Unended(r) == [rec |-> r, ended |-> FALSE, bytes |-> Bytes[r.kind]]

\* O_APPEND: bytes go to the end of the file, onto an unended last line if
\* there is one.  What that line then holds is two records run together.
Glues(lines) == lines # << >> /\ ~Last(lines).ended
Put(lines, line) ==
  IF ~Glues(lines)
    THEN Append(lines, line)
    ELSE Append(Front(lines), [rec |-> NoRecord, ended |-> line.ended,
                               bytes |-> Last(lines).bytes + line.bytes])

Size(lines) == FoldLeft(LAMBDA n, line : n + line.bytes, 0, lines)

-----------------------------------------------------------------------------
(* decodeRunnerRecords: a line that does not decode is an error unless it is   *)
(* the last one; a line longer than the scanner's buffer is always an error.   *)

\* Mutant: a torn last line is an error too.
DecodesStrictly(lines) ==
  \A i \in DOMAIN lines : lines[i].rec # NoRecord /\ lines[i].bytes <= ScanLimit

Decodes(lines) ==
  /\ \A i \in 1 .. Len(lines) - 1 : lines[i].rec # NoRecord
  /\ \A i \in 1 .. Len(lines) : lines[i].bytes <= ScanLimit

Decoded(lines) ==
  LET records == [i \in 1 .. Len(lines) |-> lines[i].rec]
  IN  SelectSeq(records, LAMBDA r : r # NoRecord)

\* Load: the records of the file the path names; a missing file has none.
Lines(f) == IF f = 0 THEN << >> ELSE disk[f]
Loads == Decodes(Lines(dir))
Load == Decoded(Lines(dir))

\* scanLastRunnerSeq.
LastSeq(records) == Max({0} \cup {records[i].seq : i \in DOMAIN records})
HasInit(records) == \E i \in DOMAIN records : records[i].kind = "init"

-----------------------------------------------------------------------------
Init ==
  /\ world \in Worlds
  /\ disk = [f \in File |-> << >>]
  /\ dir = 0
  /\ lock = [f \in File |-> {}]
  /\ cache = [p \in Process |-> NoCache]
  /\ op = [p \in Process |-> NoCall]
  /\ calls = 0
  /\ acked = {}
  /\ glued = FALSE

Return(p) == op' = [op EXCEPT ![p] = NoCall]
Unlock(p) == lock' = [f \in File |-> lock[f] \ {p}]
Forget(p) == cache' = [cache EXCEPT ![p].cached = FALSE]

\* Append takes the runner's mutex and opens the path, creating the file.
Open(p, k) ==
  /\ op[p].pc = "idle"
  /\ calls < world.calls
  /\ \E f \in IF dir # 0 THEN {dir} ELSE Fresh :
       /\ dir' = f
       /\ op' = [op EXCEPT ![p] = [NoCall EXCEPT !.pc = "open", !.kind = k, !.fd = f]]
  /\ calls' = calls + 1
  /\ UNCHANGED <<disk, lock, cache, acked, glued>>

Flock(p) ==
  /\ op[p].pc = "open"
  /\ lock[op[p].fd] = {}
  /\ lock' = [lock EXCEPT ![op[p].fd] = {p}]
  /\ op' = [op EXCEPT ![p].pc = "locked"]
  /\ UNCHANGED <<disk, dir, cache, calls, acked, glued>>

\* Mutant: the cache is trusted whatever other processes wrote.
UsesCacheAlways(p) == cache[p].cached

\* The cached state counts when the opened file still has the cached size;
\* otherwise the file the path names now is scanned.
UsesCache(p) == cache[p].cached /\ Size(disk[op[p].fd]) = cache[p].size
Seen(p) ==
  IF UsesCache(p) THEN [lastSeq |-> cache[p].lastSeq, hasInit |-> cache[p].hasInit]
                  ELSE [lastSeq |-> LastSeq(Load), hasInit |-> HasInit(Load)]

\* A log that does not decode, a second init record or a record before the
\* init record: the call returns an error and writes nothing.
Refuse(p) ==
  /\ op[p].pc = "locked"
  /\ \/ ~UsesCache(p) /\ ~Loads
     \/ (op[p].kind = "init") = Seen(p).hasInit
  /\ Return(p)
  /\ Unlock(p)
  /\ UNCHANGED <<disk, dir, cache, calls, acked, glued>>

Number(p) ==
  /\ op[p].pc = "locked"
  /\ UsesCache(p) \/ Loads
  /\ (op[p].kind = "init") # Seen(p).hasInit
  /\ op' = [op EXCEPT ![p].pc = "numbered",
                      ![p].rec = [seq |-> Seen(p).lastSeq + 1, kind |-> op[p].kind, id |-> calls]]
  /\ UNCHANGED <<disk, dir, lock, cache, calls, acked, glued>>

Written(p, lines) ==
  /\ disk' = [disk EXCEPT ![op[p].fd] = lines]
  /\ op' = [op EXCEPT ![p].pc = "written"]
  /\ UNCHANGED <<dir, lock, cache, calls, acked>>

Write(p) ==
  /\ op[p].pc = "numbered"
  /\ Written(p, Put(disk[op[p].fd], Whole(op[p].rec)))
  /\ glued' = (glued \/ Glues(disk[op[p].fd]))

\* The write stops inside the record, or just before its newline, and either
\* reports it (a full disk) or never returns.
WriteTorn(p) ==
  /\ world.tears
  /\ op[p].pc = "numbered"
  /\ \E line \in {Torn(1), Unended(op[p].rec)} :
       disk' = [disk EXCEPT ![op[p].fd] = Put(@, line)]
  /\ Forget(p)
  /\ Return(p)
  /\ Unlock(p)
  /\ UNCHANGED <<dir, calls, acked, glued>>

\* Sync fails: the record is in the file and the caller gets an error.
SyncFails(p) ==
  /\ op[p].pc = "written"
  /\ Forget(p)
  /\ Return(p)
  /\ Unlock(p)
  /\ UNCHANGED <<disk, dir, calls, acked, glued>>

\* The record is durable; the cache follows the file, unless its size cannot
\* be read.  hasInit: the record is the init record or the log had one.
Refresh(p) ==
  cache' = [cache EXCEPT ![p] = [cached |-> TRUE, lastSeq |-> op[p].rec.seq,
                                 hasInit |-> TRUE, size |-> Size(disk[op[p].fd])]]

Synced(p) ==
  /\ op[p].pc = "written"
  /\ Refresh(p) \/ Forget(p)
  /\ acked' = acked \cup {op[p].rec}
  /\ Return(p)
  /\ Unlock(p)
  /\ UNCHANGED <<disk, dir, calls, glued>>

AppendCall(p) ==
  \/ \E k \in Kind : Open(p, k)
  \/ Flock(p)
  \/ Refuse(p)
  \/ Number(p)
  \/ Write(p)
  \/ WriteTorn(p)
  \/ SyncFails(p)
  \/ Synced(p)

\* Delete unlinks the path; a process that has the file open keeps it.
Delete(p) ==
  /\ p \in world.deletes
  /\ op[p].pc = "idle"
  /\ cache[p].cached \/ dir # 0
  /\ Forget(p)
  /\ dir' = 0
  /\ acked' = IF dir = 0 THEN acked ELSE {}
  /\ glued' = (dir = 0 /\ glued)
  /\ UNCHANGED <<disk, lock, op, calls>>

\* The kernel drops a dead process's lock; its cache dies with it.
Crash(p) ==
  /\ world.crashes
  /\ op[p].pc # "idle" \/ cache[p].cached
  /\ Return(p)
  /\ cache' = [cache EXCEPT ![p] = NoCache]
  /\ Unlock(p)
  /\ UNCHANGED <<disk, dir, calls, acked, glued>>

Next ==
  /\ \E p \in world.live : AppendCall(p) \/ Delete(p) \/ Crash(p)
  /\ UNCHANGED world

Spec == Init /\ [][Next]_vars

-----------------------------------------------------------------------------
(* Properties *)

\* Load returns every record whose Append returned a sequence number, as it was
\* acknowledged (RunnerStore.Load: every fully written record).
AckedIsLoaded == Loads /\ acked \subseteq Range(Load)

\* Load returns the records in sequence order, numbered from 1 without gaps,
\* and the first one, and no other, is the init record.
GapFree ==
  Loads => \A i \in DOMAIN Load : Load[i].seq = i /\ (Load[i].kind = "init" <=> i = 1)

\* Whenever an Append would trust its cache, scanning the file instead would
\* tell it the same.
CacheIsFresh ==
  \A p \in Process :
    cache[p].cached /\ cache[p].size = Size(Lines(dir)) =>
      /\ cache[p].lastSeq = LastSeq(Load)
      /\ cache[p].hasInit = HasInit(Load)

\* A torn write by itself costs nothing: as long as no append has run into the
\* unended line it left, everything acknowledged is loaded, the numbering has no
\* gap and the caches are fresh.
TornTailIsHarmless == ~glued => AckedIsLoaded /\ GapFree /\ CacheIsFresh

\* Where writes reach the file whole, the store implements the log that
\* RunnerStore's documentation describes.
Documented ==
  IF world.tears THEN << >> ELSE [i \in DOMAIN Load |-> [seq |-> Load[i].seq, kind |-> Load[i].kind]]
Log == INSTANCE RunnerLog WITH log <- IF world.truncates = {} THEN Documented ELSE << >>
ImplementsLog == Log!Spec
=============================================================================
