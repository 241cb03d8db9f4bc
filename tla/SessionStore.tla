---------------------------- MODULE SessionStore -----------------------------
(* JSONStore (src/llm/session.go): the conversations' event logs.  Append,     *)
(* Load and Delete are those of JSONRunnerStore, line for line; Truncate       *)
(* copies what it keeps into a new file and renames that over the path.  A     *)
(* world's `truncates` are the processes that call it.                         *)
EXTENDS RunnerStore

decodeEvents(lines) == Decoded(lines)
AppendEvent(p) == AppendCall(p)
DeleteSession(p) == Delete(p)

\* Mutant: the event with the sequence number toSeq goes too.
KeepsBelow(r, toSeq) == IF toSeq <= 0 THEN r.kind = "init" ELSE r.seq < toSeq

Keeps(r, toSeq) == IF toSeq <= 0 THEN r.kind = "init" ELSE r.seq <= toSeq

\* Truncate takes the session's mutex and opens the path; a missing file is an
\* error.
TruncateOpen(p) ==
  /\ p \in world.truncates
  /\ op[p].pc = "idle"
  /\ calls < world.calls
  /\ dir # 0
  /\ \E toSeq \in 0 .. calls :
       op' = [op EXCEPT ![p] = [NoCall EXCEPT !.pc = "truncate", !.fd = dir, !.rec.seq = toSeq]]
  /\ calls' = calls + 1
  /\ UNCHANGED <<disk, dir, lock, cache, acked, glued>>

TruncateFlock(p) ==
  /\ op[p].pc = "truncate"
  /\ lock[op[p].fd] = {}
  /\ lock' = [lock EXCEPT ![op[p].fd] = {p}]
  /\ op' = [op EXCEPT ![p].pc = "truncating"]
  /\ UNCHANGED <<disk, dir, cache, calls, acked, glued>>

\* The opened file does not decode, which leaves the cache as it is, or the new
\* file cannot be written, closed or renamed, and is removed.
TruncateFails(p) ==
  /\ op[p].pc = "truncating"
  /\ IF Decodes(disk[op[p].fd]) THEN Forget(p) ELSE UNCHANGED cache
  /\ Return(p)
  /\ Unlock(p)
  /\ UNCHANGED <<disk, dir, calls, acked, glued>>

\* Nobody has a path to the new file before the rename.
Truncate(p) ==
  LET toSeq == op[p].rec.seq
      kept  == SelectSeq(decodeEvents(disk[op[p].fd]), LAMBDA r : Keeps(r, toSeq))
  IN  /\ op[p].pc = "truncating"
      /\ Decodes(disk[op[p].fd])
      /\ \E f \in Fresh :
           /\ disk' = [disk EXCEPT ![f] = [i \in DOMAIN kept |-> Whole(kept[i])]]
           /\ dir' = f
      /\ acked' = {r \in acked : r.seq <= Max({toSeq, 1})}
      /\ Forget(p)
      /\ Return(p)
      /\ Unlock(p)
      /\ UNCHANGED <<calls, glued>>

TruncateCall(p) == TruncateOpen(p) \/ TruncateFlock(p) \/ TruncateFails(p) \/ Truncate(p)

SessionNext ==
  /\ \E p \in world.live : AppendEvent(p) \/ DeleteSession(p) \/ Crash(p) \/ TruncateCall(p)
  /\ UNCHANGED world

\* Both stores: a world in which nobody truncates is one of JSONRunnerStore.
SessionSpec == Init /\ [][SessionNext]_vars

-----------------------------------------------------------------------------
(* Properties *)

\* Where writes reach the file whole, the session store implements the log that
\* SessionStore's documentation describes, whenever a process dies in a Truncate.
Session == INSTANCE SessionLog WITH log <- IF world.truncates = {} THEN << >> ELSE Documented
ImplementsSessionLog == Session!SessionSpec

\* Either store implements the log of its interface.
StoresImplementLogs == ImplementsLog /\ ImplementsSessionLog
=============================================================================
