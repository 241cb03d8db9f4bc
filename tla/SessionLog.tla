----------------------------- MODULE SessionLog ------------------------------
(* What a SessionStore promises for one session (src/llm/session.go): the log  *)
(* of RunnerLog, which Truncate also cuts back, never below its init event.    *)
EXTENDS RunnerLog

Truncate(toSeq) == log' = SubSeq(log, 1, IF toSeq <= 0 THEN 1 ELSE toSeq)

SessionNext == Next \/ (log # << >> /\ \E toSeq \in 0 .. Len(log) : Truncate(toSeq))

SessionSpec == Init /\ [][SessionNext]_log
=============================================================================
