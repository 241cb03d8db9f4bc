------------------------------ MODULE MergeHub ------------------------------
(***************************************************************************)
(* Hub-mode merges into one downstream Stream (stream/merge.go, frame.go): *)
(* every Merge has a feeder goroutine that moves the events of its         *)
(* upstream into a queue of the downstream's hub; the hub's goroutine      *)
(* flushes the queues on a ticker, and feeders flush them too when their   *)
(* upstream has closed.  A hub that is idle cancels itself; the next Merge *)
(* makes a new one.                                                        *)
(*                                                                         *)
(* A step is a critical section under the hub's mu or the stream's         *)
(* mergeMu, or what follows it up to the next one: popping a tick,         *)
(* emitting it and canceling an idle hub are three steps.  An upstream     *)
(* offers its events one by one and closes after the last; when they       *)
(* arrive is when the feeder reads them.  The downstream is its closed     *)
(* flag and the bundles it accepted; Stream has the rest.                  *)
(***************************************************************************)
EXTENDS Integers, Sequences, FiniteSets, FiniteSetsExt

CONSTANTS
    Merge,     \* the Merge calls that may be made, each once
    Identity,  \* Identity[m]: layer and id of the events of m's upstream
    Keys,      \* Keys[m]: the join key of each event of m's upstream, "none" when
               \* its delta is no string
    Depth,     \* perUpstreamBufferDepth
    MaxHubs,   \* bound: hubs created
    MayStop,   \* the merges somebody may Stop, or whose context may be canceled
    MayClose,  \* the downstream may be closed
    MayOverflow  \* a subscriber of the downstream may fail an Emit with an overflow

ASSUME MergeAssumption == IsFiniteSet(Merge) /\ MayStop \subseteq Merge
ASSUME KeysAssumption == \A m \in Merge : Keys[m] \in Seq(STRING)
ASSUME BoundAssumption == Depth \in Nat \ {0} /\ MaxHubs \in Nat
ASSUME MayAssumption == {MayClose, MayOverflow} \subseteq BOOLEAN

Hub      == 1 .. MaxHubs
Upstream == {Identity[m] : m \in Merge}
Actor    == ({"hub"} \X Hub) \cup ({"merge"} \X Merge)

VARIABLES
    closed,    \* the downstream stream is closed
    closer,    \* where its Close stands
    out,       \* the events of each merge in the bundles the downstream accepted
    current,   \* the hub in mergeHubs, 0 when there is none
    canceled,  \* the hubs whose context is canceled
    pending,   \* pendingRegistrations of each hub
    queue,     \* fifosByIdentity of each hub
    live,      \* keys of subscriptions of each hub
    failed,    \* the hubs that hold an error
    ticker,    \* where the goroutine of each hub stands
    pc,        \* where the feeder of each merge stands
    hub,       \* the hub of each merge
    read,      \* how many events each feeder has read
    stopped,   \* the merges that were stopped
    errs,      \* the merges that hold an error of their own
    flight,    \* per goroutine, the tick it popped and whether the hub was idle then
    waits      \* the hub Close stops

downstream == <<closed, closer, waits, out>>
hubs       == <<current, canceled, pending, queue, live, failed, ticker>>
feeders    == <<pc, hub, read, stopped, errs>>
vars       == <<downstream, hubs, feeders, flight>>

NoTick == [items |-> {}, stop |-> FALSE]

Init ==
    /\ closed = FALSE /\ closer = "open" /\ waits = 0 /\ out = [m \in Merge |-> <<>>]
    /\ current = 0 /\ canceled = {} /\ failed = {}
    /\ pending = [h \in Hub |-> 0]
    /\ queue = [h \in Hub |-> <<>>]
    /\ live = [h \in Hub |-> {}]
    /\ ticker = [h \in Hub |-> "none"]
    /\ pc = [m \in Merge |-> "new"]
    /\ hub = [m \in Merge |-> 0]
    /\ read = [m \in Merge |-> 0]
    /\ stopped = {} /\ errs = {}
    /\ flight = [a \in Actor |-> NoTick]

Goto(m, l) == pc' = [pc EXCEPT ![m] = l]

\* Functions on a set of identities: the queues of one hub.
With(q, i, s) == [j \in DOMAIN q \cup {i} |-> IF j = i THEN s ELSE q[j]]
Without(q, I) == [j \in DOMAIN q \ I |-> q[j]]

\* idleLocked
Idle(p, l, q) == p = 0 /\ l = {} /\ DOMAIN q = {}

\* ReadDone: the feeder's context is canceled, by Stop or by the watcher of the hub.
ReadDone(m) == m \in stopped \/ hub[m] \in canceled

MyQueue(m) == queue[hub[m]]
Me(m)      == Identity[m]

-----------------------------------------------------------------------------
\* Merge, up to the start of the feeder

\* mergeHub: the hub in the map unless it is canceled, or a new one.
GetHub(m) ==
    /\ pc[m] = "new"
    /\ \/ /\ current # 0 /\ current \notin canceled
          /\ hub' = [hub EXCEPT ![m] = current]
          /\ UNCHANGED <<current, ticker>>
       \/ /\ current = 0 \/ current \in canceled
          /\ \E h \in Hub :
                /\ ticker[h] = "none" /\ (\A g \in 1 .. h - 1 : ticker[g] # "none")
                /\ current' = h
                /\ ticker' = [ticker EXCEPT ![h] = "loop"]
                /\ hub' = [hub EXCEPT ![m] = h]
    /\ Goto(m, "begin")
    /\ UNCHANGED <<downstream, canceled, pending, queue, live, failed, read, stopped, errs, flight>>

\* beginRegistration
Begin(m) ==
    /\ pc[m] = "begin"
    /\ pending' = [pending EXCEPT ![hub[m]] = @ + 1]
    /\ Goto(m, "first")
    /\ UNCHANGED <<downstream, current, canceled, queue, live, failed, ticker,
                   hub, read, stopped, errs, flight>>

-----------------------------------------------------------------------------
\* The feeder: runHubWithFirstEvent

\* The first Next: an event, the end of the upstream, or the end of the context.
First(m) ==
    /\ pc[m] = "first"
    /\ \/ /\ read[m] < Len(Keys[m])
          /\ read' = [read EXCEPT ![m] = @ + 1]
          /\ Goto(m, "register")
       \/ /\ read[m] = Len(Keys[m]) \/ ReadDone(m)
          /\ Goto(m, "unpend")
          /\ UNCHANGED read
    /\ UNCHANGED <<downstream, hubs, hub, stopped, errs, flight>>

\* After an idle check the feeder goes on at l, or cancels the hub at lc first.
Then(m, idle, lc, l) == Goto(m, IF idle THEN lc ELSE l)

\* Mutant: the registration stays pending.
UnpendNothing(m) ==
    /\ pc[m] = "unpend"
    /\ Then(m, Idle(pending[hub[m]], live[hub[m]], MyQueue(m)), "cancelExit", "exit")
    /\ UNCHANGED <<downstream, hubs, hub, read, stopped, errs, flight>>

\* cancelPendingRegistration
Unpend(m) ==
    /\ pc[m] = "unpend"
    /\ pending' = [pending EXCEPT ![hub[m]] = IF @ > 0 THEN @ - 1 ELSE @]
    /\ Then(m, Idle(pending'[hub[m]], live[hub[m]], MyQueue(m)), "cancelExit", "exit")
    /\ UNCHANGED <<downstream, current, canceled, queue, live, failed, ticker,
                   hub, read, stopped, errs, flight>>

\* Mutant: a second feeder of the same identity takes the queue over.
RegisterAgain(m) ==
    /\ pc[m] = "register"
    /\ pending' = [pending EXCEPT ![hub[m]] = IF @ > 0 THEN @ - 1 ELSE @]
    /\ \/ hub[m] \in canceled /\ Goto(m, "stopIfIdle") /\ UNCHANGED <<queue, live>>
       \/ /\ hub[m] \notin canceled
          /\ queue' = [queue EXCEPT ![hub[m]] = With(@, Me(m), <<>>)]
          /\ live' = [live EXCEPT ![hub[m]] = @ \cup {Me(m)}]
          /\ Goto(m, "enqueue")
    /\ UNCHANGED <<downstream, current, canceled, failed, ticker, hub, read, stopped, errs, flight>>

\* registerPendingUpstream; a canceled hub refuses with context.Canceled, which no
\* setErr records.
Register(m) ==
    /\ pc[m] = "register"
    /\ pending' = [pending EXCEPT ![hub[m]] = IF @ > 0 THEN @ - 1 ELSE @]
    /\ \/ hub[m] \in canceled /\ Goto(m, "stopIfIdle") /\ UNCHANGED <<queue, live, errs>>
       \/ /\ hub[m] \notin canceled /\ Me(m) \in DOMAIN MyQueue(m)
          /\ errs' = errs \cup {m}
          /\ Goto(m, "stopIfIdle")
          /\ UNCHANGED <<queue, live>>
       \/ /\ hub[m] \notin canceled /\ Me(m) \notin DOMAIN MyQueue(m)
          /\ queue' = [queue EXCEPT ![hub[m]] = With(@, Me(m), <<>>)]
          /\ live' = [live EXCEPT ![hub[m]] = @ \cup {Me(m)}]
          /\ Goto(m, "enqueue")
          /\ UNCHANGED errs
    /\ UNCHANGED <<downstream, current, canceled, failed, ticker, hub, read, stopped, flight>>

\* enqueue: an event that finds no queue, or a full one, ends the merge.
Enqueue(m) ==
    /\ pc[m] = "enqueue"
    /\ \/ /\ Me(m) \in DOMAIN MyQueue(m) /\ Len(MyQueue(m)[Me(m)]) < Depth
          /\ queue' = [queue EXCEPT ![hub[m]][Me(m)] = Append(@, <<m, read[m]>>)]
          /\ Goto(m, "check")
          /\ UNCHANGED errs
       \/ /\ Me(m) \in DOMAIN MyQueue(m) => Len(MyQueue(m)[Me(m)]) >= Depth
          /\ errs' = errs \cup {m}
          /\ Goto(m, "unregister")
          /\ UNCHANGED queue
    /\ UNCHANGED <<downstream, current, canceled, pending, live, failed, ticker,
                   hub, read, stopped, flight>>

\* The select at the top of the loop.
Check(m) ==
    /\ pc[m] = "check"
    /\ \/ ReadDone(m) /\ Goto(m, "unregister")
       \/ hub[m] \in canceled /\ Goto(m, "exit")
       \/ ~ReadDone(m) /\ Goto(m, "next")
    /\ UNCHANGED <<downstream, hubs, hub, read, stopped, errs, flight>>

NextEvent(m) ==
    /\ pc[m] = "next"
    /\ \/ /\ read[m] < Len(Keys[m])
          /\ read' = [read EXCEPT ![m] = @ + 1]
          /\ Goto(m, "enqueue")
       \/ read[m] = Len(Keys[m]) /\ Goto(m, "closeUpstream") /\ UNCHANGED read
       \/ ReadDone(m) /\ Goto(m, "unregister") /\ UNCHANGED read
    /\ UNCHANGED <<downstream, hubs, hub, stopped, errs, flight>>

\* unregisterUpstream
Unregister(m) ==
    /\ pc[m] = "unregister"
    /\ live' = [live EXCEPT ![hub[m]] = @ \ {Me(m)}]
    /\ queue' = [queue EXCEPT ![hub[m]] = Without(@, {Me(m)})]
    /\ Then(m, Idle(pending[hub[m]], live'[hub[m]], queue'[hub[m]]), "cancelExit", "exit")
    /\ UNCHANGED <<downstream, current, canceled, pending, failed, ticker,
                   hub, read, stopped, errs, flight>>

\* Mutant: the end of an upstream does not wait for its queue.
CloseUpstreamOnly(m) ==
    /\ pc[m] = "closeUpstream"
    /\ live' = [live EXCEPT ![hub[m]] = @ \ {Me(m)}]
    /\ queue' = [queue EXCEPT ![hub[m]] =
                    Without(@, {i \in DOMAIN @ : i = Me(m) /\ @[i] = <<>>})]
    /\ Then(m, Idle(pending[hub[m]], live'[hub[m]], queue'[hub[m]]), "cancelExit", "exit")
    /\ UNCHANGED <<downstream, current, canceled, pending, failed, ticker,
                   hub, read, stopped, errs, flight>>

\* drainClosedUpstream: closeUpstream, which keeps a queue that has events ...
CloseUpstream(m) ==
    /\ pc[m] = "closeUpstream"
    /\ live' = [live EXCEPT ![hub[m]] = @ \ {Me(m)}]
    /\ queue' = [queue EXCEPT ![hub[m]] =
                    Without(@, {i \in DOMAIN @ : i = Me(m) /\ @[i] = <<>>})]
    /\ Then(m, Idle(pending[hub[m]], live'[hub[m]], queue'[hub[m]]), "cancelDrain", "drain")
    /\ UNCHANGED <<downstream, current, canceled, pending, failed, ticker,
                   hub, read, stopped, errs, flight>>

\* ... then ticks of its own while the queue is there ...
Drain(m) ==
    /\ pc[m] = "drain"
    /\ Goto(m, IF Me(m) \in DOMAIN MyQueue(m) THEN "flush" ELSE "stopIfIdle")
    /\ UNCHANGED <<downstream, hubs, hub, read, stopped, errs, flight>>

\* ... and stopIfIdle, which a refused registration calls as well.
StopIfIdle(m) ==
    /\ pc[m] = "stopIfIdle"
    /\ Then(m, Idle(pending[hub[m]], live[hub[m]], MyQueue(m)), "cancelExit", "exit")
    /\ UNCHANGED <<downstream, hubs, hub, read, stopped, errs, flight>>

\* h.cancel(), after the lock under which the hub was found idle.
CancelHub(m) ==
    /\ pc[m] \in {"cancelExit", "cancelDrain", "cancelEnd"}
    /\ canceled' = canceled \cup {hub[m]}
    /\ Goto(m, CASE pc[m] = "cancelExit" -> "exit"
                 [] pc[m] = "cancelDrain" -> "drain"
                 [] OTHER -> "stopIfIdle")
    /\ UNCHANGED <<downstream, current, pending, queue, live, failed, ticker,
                   hub, read, stopped, errs, flight>>

\* The deferred end: the hub's error, then Done.
Exit(m) ==
    /\ pc[m] = "exit"
    /\ errs' = IF hub[m] \in failed THEN errs \cup {m} ELSE errs
    /\ Goto(m, "done")
    /\ UNCHANGED <<downstream, hubs, hub, read, stopped, flight>>

-----------------------------------------------------------------------------
\* flushTick

Key(e) == Keys[e[1]][e[2]]

\* canJoinEvents
Joins(a, b) == Key(a) # "none" /\ Key(a) = Key(b)

\* popJoinedHead: how many events at the head of q become one.
JoinLength(q) ==
    CHOOSE n \in 1 .. Len(q) : /\ \A i \in 2 .. n : Joins(q[1], q[i])
                             /\ n < Len(q) => ~Joins(q[1], q[n + 1])

\* Mutant: the last event that was joined stays in the queue.
RestKept(q) == IF q = <<>> THEN q
               ELSE SubSeq(q, IF JoinLength(q) = 1 THEN 2 ELSE JoinLength(q), Len(q))

Rest(q) == IF q = <<>> THEN q ELSE SubSeq(q, JoinLength(q) + 1, Len(q))

\* The items of the next tick, one for each queue that has events.
Items(h) == {SubSeq(queue[h][i], 1, JoinLength(queue[h][i])) :
                i \in {j \in DOMAIN queue[h] : queue[h][j] # <<>>}}

\* The queues after it: empty ones go unless their feeder is still at work.
Popped(h) == LET rest == [i \in DOMAIN queue[h] |-> Rest(queue[h][i])]
             IN Without(rest, {i \in DOMAIN rest : rest[i] = <<>> /\ i \notin live[h]})

\* The part under the lock, by actor a.
Pop(a, h) ==
    /\ queue' = [queue EXCEPT ![h] = Popped(h)]
    /\ flight' = [flight EXCEPT ![a] =
                     IF Items(h) = {} THEN NoTick
                     ELSE [items |-> Items(h), stop |-> Idle(pending[h], live[h], Popped(h))]]

\* emitFrame, which reports ok.  A closed downstream refuses the bundle; an open one
\* accepts it and may still fail to deliver it, because a subscriber overflows or
\* because the hub is canceled.  setErr does not record the latter.
EmitTick(a, h, ok) ==
    /\ flight' = [flight EXCEPT ![a] = NoTick]
    /\ out' = IF closed THEN out
              ELSE [m \in Merge |-> FoldSet(LAMBDA t, s : s \o t, out[m],
                                           {t \in flight[a].items : t[1][1] = m})]
    /\ \/ ok /\ ~closed /\ UNCHANGED failed
       \/ ~ok /\ (closed \/ MayOverflow) /\ failed' = failed \cup {h}
       \/ ~ok /\ ~closed /\ h \in canceled /\ UNCHANGED failed

\* A feeder flushes while it drains.
FeederPops(m) ==
    /\ pc[m] = "flush"
    /\ Pop(<<"merge", m>>, hub[m])
    /\ Goto(m, CASE Items(hub[m]) # {} -> "emit"
                 [] Items(hub[m]) = {} /\ DOMAIN MyQueue(m) # {}
                       /\ Idle(pending[hub[m]], live[hub[m]], Popped(hub[m])) -> "cancelEnd"
                 [] OTHER -> "stopIfIdle")
    /\ UNCHANGED <<downstream, current, canceled, pending, live, failed, ticker,
                   hub, read, stopped, errs>>

FeederEmits(m) ==
    /\ pc[m] = "emit"
    /\ \E ok \in BOOLEAN :
          /\ EmitTick(<<"merge", m>>, hub[m], ok)
          /\ LET stop == flight[<<"merge", m>>].stop
             IN IF ok THEN Then(m, stop, "cancelDrain", "drain")
                ELSE Then(m, stop, "cancelEnd", "stopIfIdle")
    /\ UNCHANGED <<closed, closer, waits, current, canceled, pending, queue, live, ticker,
                   hub, read, stopped, errs>>

-----------------------------------------------------------------------------
\* The hub's goroutine: run

Tick(h, l) == ticker' = [ticker EXCEPT ![h] = l]

\* A tick with nothing to flush changes nothing and is left out.
HubPops(h) ==
    /\ ticker[h] = "loop" /\ DOMAIN queue[h] # {}
    /\ Pop(<<"hub", h>>, h)
    /\ Tick(h, CASE Items(h) # {} -> "emit"
                [] Items(h) = {} /\ Idle(pending[h], live[h], Popped(h)) -> "cancel"
                [] OTHER -> "loop")
    /\ UNCHANGED <<downstream, current, canceled, pending, live, failed, feeders>>

HubEmits(h) ==
    /\ ticker[h] = "emit"
    /\ \E ok \in BOOLEAN : EmitTick(<<"hub", h>>, h, ok)
    /\ Tick(h, IF flight[<<"hub", h>>].stop THEN "cancel" ELSE "loop")
    /\ UNCHANGED <<closed, closer, waits, current, canceled, pending, queue, live, feeders>>

HubCancels(h) ==
    /\ ticker[h] = "cancel"
    /\ canceled' = canceled \cup {h}
    /\ Tick(h, "loop")
    /\ UNCHANGED <<downstream, current, pending, queue, live, failed, feeders, flight>>

\* Mutant: a canceled hub flushes what is left before it leaves.
HubExitsDrained(h) ==
    /\ ticker[h] = "loop" /\ h \in canceled /\ DOMAIN queue[h] = {}
    /\ Tick(h, "exited")
    /\ UNCHANGED <<downstream, current, canceled, pending, queue, live, failed, feeders, flight>>

HubExits(h) ==
    /\ ticker[h] = "loop" /\ h \in canceled
    /\ Tick(h, "exited")
    /\ UNCHANGED <<downstream, current, canceled, pending, queue, live, failed, feeders, flight>>

-----------------------------------------------------------------------------
\* Stop, and Close of the downstream

Stop(m) ==
    /\ m \in MayStop \ stopped /\ pc[m] \notin {"new", "begin", "done"}
    /\ stopped' = stopped \cup {m}
    /\ UNCHANGED <<downstream, hubs, pc, hub, read, errs, flight>>

Close ==
    /\ MayClose /\ ~closed
    /\ closed' = TRUE /\ closer' = "stopHubs"
    /\ UNCHANGED <<waits, out, hubs, feeders, flight>>

\* stopMergeHubs: the map is emptied, then its hub is stopped and waited for.
StopHubs ==
    /\ closer = "stopHubs"
    /\ waits' = current /\ current' = 0
    /\ closer' = IF current = 0 THEN "closed" ELSE "stop"
    /\ UNCHANGED <<closed, out, canceled, pending, queue, live, failed, ticker, feeders, flight>>

StopHub ==
    /\ closer = "stop"
    /\ failed' = failed \cup {waits}
    /\ canceled' = canceled \cup {waits}
    /\ closer' = "wait"
    /\ UNCHANGED <<closed, waits, out, current, pending, queue, live, ticker, feeders, flight>>

HubStopped ==
    /\ closer = "wait" /\ ticker[waits] = "exited"
    /\ closer' = "closed" /\ waits' = 0
    /\ UNCHANGED <<closed, out, hubs, feeders, flight>>

Closing == StopHubs \/ StopHub \/ HubStopped

-----------------------------------------------------------------------------
Feeder(m) == \/ Begin(m) \/ First(m) \/ Unpend(m) \/ Register(m) \/ Enqueue(m)
             \/ Check(m) \/ NextEvent(m) \/ Unregister(m) \/ CloseUpstream(m)
             \/ Drain(m) \/ FeederPops(m) \/ FeederEmits(m) \/ StopIfIdle(m)
             \/ CancelHub(m) \/ Exit(m)

Run(h) == HubPops(h) \/ HubEmits(h) \/ HubCancels(h) \/ HubExits(h)

Next == \/ \E m \in Merge : GetHub(m) \/ Feeder(m) \/ Stop(m)
        \/ \E h \in Hub : Run(h)
        \/ Close
        \/ Closing

Spec == Init /\ [][Next]_vars

\* Every goroutine goes on when it can, the ticker of a hub fires again and again,
\* and upstreams offer their events and close.  Nobody has to merge, stop or close.
Fairness ==
    /\ \A m \in Merge : WF_vars(Feeder(m))
    /\ \A h \in Hub : WF_vars(Run(h))
    /\ WF_vars(Closing)

FairSpec == Spec /\ Fairness

-----------------------------------------------------------------------------
\* Properties

\* The events of merge m in a set of joined items.
Carried(items, m) == {e[2] : e \in UNION {{t[i] : i \in DOMAIN t} : t \in items} \cap ({m} \X Nat)}
Sent(m)    == Carried({out[m]}, m)
InFlight(m) == UNION {Carried(flight[a].items, m) : a \in Actor}
Queued(m)  == UNION {Carried({queue[h][i] : i \in DOMAIN queue[h]}, m) : h \in Hub}

\* The feeders of hub h that beginRegistration has counted.
Registering(h) == {m \in Merge : hub[m] = h /\ pc[m] \in {"first", "unpend", "register"}}

\* Every variable holds a value of its type, and no queue exceeds its depth.
TypeOK ==
    /\ closed \in BOOLEAN /\ closer \in {"open", "stopHubs", "stop", "wait", "closed"}
    /\ {current, waits} \subseteq Hub \cup {0}
    /\ canceled \cup failed \subseteq Hub
    /\ pending \in [Hub -> Nat]
    /\ ticker \in [Hub -> {"none", "loop", "emit", "cancel", "exited"}]
    /\ \A h \in Hub : /\ live[h] \cup DOMAIN queue[h] \subseteq Upstream
                     /\ \A i \in DOMAIN queue[h] : Len(queue[h][i]) <= Depth
    /\ stopped \cup errs \subseteq Merge
    /\ \A m \in Merge : read[m] \in 0 .. Len(Keys[m])

\* pendingRegistrations is the number of feeders between beginRegistration and their
\* first event: it neither leaks, which would keep an idle hub and its ticker alive,
\* nor runs ahead, which would stop a hub that somebody is about to use.
PendingIsExact == \A h \in Hub : pending[h] = Cardinality(Registering(h))

\* An event is queued, in flight or sent, and never twice: the ticker and the
\* draining feeders flush the same queues concurrently.
EventsAreMovedOnce ==
    /\ \A m \in Merge : Queued(m) \cap InFlight(m) = {} /\ Queued(m) \cap Sent(m) = {}
                       /\ InFlight(m) \cap Sent(m) = {}
    /\ \A m \in Merge : Cardinality(Sent(m)) = Len(out[m])
    /\ \A m \in Merge : \A a, b \in Actor :
          a # b => Carried(flight[a].items, m) \cap Carried(flight[b].items, m) = {}

\* A queue holds one upstream's latest events, in order and without a hole, and
\* nothing older than them is popped later: flushing takes from the front only.
QueuesAreFIFO ==
    \A h \in Hub : \A i \in DOMAIN queue[h] :
        LET q == queue[h][i]
        IN /\ \A k \in 1 .. Len(q) - 1 : q[k + 1] = <<q[k][1], q[k][2] + 1>>
           /\ q # <<>> => \A n \in Sent(q[1][1]) \cup InFlight(q[1][1]) : n < q[1][2]

\* No feeder of hub h has begun to drain, so that only the ticker flushes.
OnlyTicks(h) == \A m \in Merge : hub[m] = h => pc[m] \in {"begin", "first", "register", "enqueue", "check", "next"}

\* As long as only the ticker of the hub flushes, the downstream has a first part of
\* a merge's events, in order.
TicksAreInOrder ==
    \A m \in Merge : hub[m] # 0 /\ OnlyTicks(hub[m]) => out[m] = [k \in 1 .. Cardinality(Sent(m)) |-> <<m, k>>]

\* Done of a merge means that its events have left the queues, unless the hub was
\* stopped or failed; all of them, unless it was stopped or has an error.
DoneMeansDrained ==
    \A m \in Merge : pc[m] = "done" /\ hub[m] \notin canceled \cup failed =>
        /\ Queued(m) = {}
        /\ m \notin stopped \cup errs => InFlight(m) \cup Sent(m) = 1 .. Len(Keys[m])

\* The events of a merge are flushed once, in order and before its Done.  They reach
\* the downstream in that order while the ticker alone flushes.  A flush of a draining
\* feeder may overtake one of the ticker, and either may still be about to emit
\* when the merge is done.
EventsPassInOrder == EventsAreMovedOnce /\ QueuesAreFIFO /\ TicksAreInOrder /\ DoneMeansDrained

\* Every merge ends once its upstream does, no hub goroutine outlives the merges
\* that use it, and Close of the downstream returns, which waits for a hub that may
\* be emitting into this very stream; however all of them race.
AllEnd ==
    <>[](/\ \A m \in Merge : pc[m] \in {"new", "done"}
         /\ \A h \in Hub : ticker[h] \in {"none", "exited"}
         /\ closer \in {"open", "closed"})

\* "events emitted on upstream are forwarded into s (the downstream parent) until
\* upstream closes, ctx is canceled, s closes, or the returned Merge is stopped": a
\* merge that ended without an error has forwarded every event.
NothingIsLost ==
    \A m \in Merge : pc[m] = "done" /\ m \notin stopped \cup errs /\ ~closed =>
        InFlight(m) \cup Sent(m) = 1 .. Len(Keys[m])
=============================================================================
