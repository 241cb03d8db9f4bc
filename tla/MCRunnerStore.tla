---------------------------- MODULE MCRunnerStore ----------------------------
EXTENDS SessionStore

CONSTANTS p1, p2

\* An event record is as long as two status records, so that files of the same
\* size may hold different numbers of records.
MCKind == {"init", "status", "event"}
MCBytes == [k \in MCKind |-> IF k = "event" THEN 5 ELSE 2]

MCProcess == {p1, p2}

\* Two processes that may die share a log; one process whose writes may be cut
\* short also deletes its log; one truncates it, with whole writes and with torn
\* ones.
MCShared == [live |-> {p1, p2}, deletes |-> {}, truncates |-> {}, tears |-> FALSE, crashes |-> TRUE,
             calls |-> 4, files |-> 1]
MCTorn    == [MCShared EXCEPT !.live = {p1}, !.deletes = {p1}, !.tears = TRUE, !.calls = 5, !.files = 2]
MCSession == [MCShared EXCEPT !.live = {p1}, !.truncates = {p1}, !.calls = 5, !.files = 3]
MCTornSession == [MCSession EXCEPT !.tears = TRUE, !.crashes = FALSE]
MCWorlds == {MCShared, MCTorn, MCSession, MCTornSession}

\* One process, whose writes may be cut short
MCTearing == {[MCShared EXCEPT !.live = {p1}, !.tears = TRUE, !.crashes = FALSE]}

\* Two processes that truncate a session they share
MCTruncating == {[MCShared EXCEPT !.truncates = {p1, p2}, !.crashes = FALSE, !.files = 2]}
=============================================================================
