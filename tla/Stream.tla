------------------------------- MODULE Stream -------------------------------
(***************************************************************************)
(* One Stream with its subscriptions (stream/stream.go, subscription.go,   *)
(* filter.go, bundle.go): producers emit frames, which are numbered, kept  *)
(* in a bounded replay buffer and delivered to every subscriber they       *)
(* match; subscribers catch up from the buffer, read, and cancel; the      *)
(* stream is closed.                                                       *)
(*                                                                         *)
(* deliveryMu serialises Emit, Subscribe and the last part of Cancel and   *)
(* Close; mu is held within single steps only.  A delivery is one step per *)
(* logical event, so that readers, Cancel and Close act in between.  A     *)
(* producer that waits for deliveryMu has no state, so that all producers  *)
(* are one: the action Emit.                                               *)
(***************************************************************************)
EXTENDS Integers, Sequences, FiniteSets, SequencesExt

CONSTANTS
    Sub,          \* the subscriptions that may be made, each once
    Option,       \* Option[s]: the settings and the filter s subscribes with
    Frame,        \* the frames producers may emit
    BufferLimit,  \* bufferLimit, 0 when the replay buffer is disabled
    MaxEmits,     \* bound: frames emitted
    MayFail       \* a producer's context may be canceled during a delivery

\* A plain event has a kind (what filters look at) and nothing nested; a merge
\* bundle has the kind "bundle" and carries the kinds of its nested events.
ASSUME FrameAssumption ==
    \A f \in Frame : f.nested \in Seq(STRING) /\ (f.kind = "bundle" <=> f.nested # <<>>)
ASSUME OptionAssumption ==
    \A s \in Sub : /\ Option[s].raw \in BOOLEAN /\ Option[s].noReplay \in BOOLEAN
                   /\ Option[s].from \in Nat /\ Option[s].last \in Nat
                   /\ Option[s].buffer \in Nat
                   /\ Option[s].policy \in {"drop_newest", "error"}
ASSUME SubAssumption == IsFiniteSet(Sub) /\ "none" \notin Sub /\ "emit" \notin Sub
ASSUME BoundAssumption == {BufferLimit, MaxEmits} \subseteq Nat /\ MayFail \in BOOLEAN

VARIABLES
    log,          \* every frame ever accepted; its position is its sequence number
    buffer,       \* the sequence numbers in the replay buffer
    closed,       \* Stream.closed
    subscribers,  \* Stream.subscribers
    holder,       \* who holds deliveryMu: "none", "emit" or a subscription
    targets,      \* the matching subscriptions Emit has still to send to
    target,       \* the subscription a delivery is under way to, or "none"
    outbox,       \* the logical events still to be sent to it
    pc,           \* where the owner of each subscription stands
    cap,          \* capacity of its events channel
    chan,         \* its events channel
    done,         \* the subscriptions whose done channel is closed
    shut,         \* the subscriptions whose events channel is closed
    canceling,    \* the subscriptions whose Cancel waits for deliveryMu
    closing,      \* the subscriptions Close has collected
    closer,       \* where Close stands
    got,          \* history: what the owner read
    first,        \* history: the first sequence number delivered by its Subscribe
    missed        \* history: the subscriptions that missed a matching event

bus      == <<log, buffer, closed, subscribers>>
delivery == <<holder, targets, target, outbox>>
channels == <<cap, chan, done, shut>>
closure  == <<canceling, closing, closer>>
history  == <<got, first, missed>>
vars     == <<bus, delivery, pc, channels, closure, history>>

Init ==
    /\ log = <<>> /\ buffer = <<>> /\ closed = FALSE /\ subscribers = {}
    /\ holder = "none" /\ targets = {} /\ target = "none" /\ outbox = <<>>
    /\ pc = [s \in Sub |-> "new"]
    /\ cap = [s \in Sub |-> 0] /\ chan = [s \in Sub |-> <<>>]
    /\ done = {} /\ shut = {}
    /\ canceling = {} /\ closing = {} /\ closer = "open"
    /\ got = [s \in Sub |-> <<>>] /\ first = [s \in Sub |-> 0] /\ missed = {}

-----------------------------------------------------------------------------
\* What a subscription sees of a frame

\* Filter.Match
Match(s, kind) == kind \in Option[s].wants

\* The logical events <<sequence number, position>> that frame f with number n is
\* for s.  A frame that is not expanded has position 0.
Visible(s, n, f) ==
    IF Option[s].raw \/ f.kind # "bundle"
    THEN IF Match(s, f.kind) THEN <<<<n, 0>>>> ELSE <<>>
    ELSE SelectSeq([i \in 1 .. Len(f.nested) |-> <<n, i>>],
                   LAMBDA e : Match(s, f.nested[e[2]]))

\* Mutant: a bundle that does not match itself is not looked into.
MatchesCarrier(s, f) == Match(s, f.kind)

\* Whether Emit sends f to s at all: bundles always go to expanding subscribers.
Matches(s, f) == (~Option[s].raw /\ f.kind = "bundle") \/ Match(s, f.kind)

\* The logical events of the frames numbered in ns.
VisibleAll(s, ns) == FlattenSeq([i \in DOMAIN ns |-> Visible(s, ns[i], log[ns[i]])])

-----------------------------------------------------------------------------
\* Emit

\* appendBufferLocked
AppendBuffer(b, n) ==
    CASE BufferLimit = 0          -> b
      [] Len(b) = BufferLimit     -> Append(Tail(b), n)
      [] OTHER                    -> Append(b, n)

\* Emit up to the release of mu.  A closed stream refuses it.
Emit(f) ==
    /\ holder = "none" /\ ~closed
    /\ Len(log) < MaxEmits
    /\ log' = Append(log, f)
    /\ buffer' = AppendBuffer(buffer, Len(log) + 1)
    /\ holder' = "emit"
    /\ targets' = {s \in subscribers : Matches(s, f)}
    /\ UNCHANGED <<closed, subscribers, target, outbox, pc, channels, closure, history>>

\* The loop over matches, in the random order of a Go map.
NextTarget ==
    /\ holder = "emit" /\ target = "none"
    /\ \/ /\ targets = {}
          /\ holder' = "none"
          /\ UNCHANGED <<targets, target, outbox>>
       \/ \E s \in targets :
             /\ targets' = targets \ {s}
             /\ target' = s
             /\ outbox' = Visible(s, Len(log), Last(log))
             /\ UNCHANGED holder
    /\ UNCHANGED <<bus, pc, channels, closure, history>>

-----------------------------------------------------------------------------
\* Subscription.send and sendExpanded, for Emit and for the replay of Subscribe

\* A buffered channel is ready while it has room, an unbuffered one only while
\* its reader waits in Next (chan then holds what the reader was handed).
Room(s)    == Len(chan[s]) < cap[s]
Waiting(s) == cap[s] = 0 /\ pc[s] = "active" /\ chan[s] = <<>>

\* Mutant: the event is sent again.
DeliverAgain ==
    /\ outbox # <<>> /\ (Room(target) \/ Waiting(target))
    /\ chan' = [chan EXCEPT ![target] = Append(@, Head(outbox))]
    /\ UNCHANGED <<bus, delivery, pc, cap, done, shut, closure, history>>

\* The event goes into the channel.
Deliver ==
    /\ outbox # <<>> /\ (Room(target) \/ Waiting(target))
    /\ chan' = [chan EXCEPT ![target] = Append(@, Head(outbox))]
    /\ outbox' = Tail(outbox)
    /\ UNCHANGED <<bus, holder, targets, target, pc, cap, done, shut, closure, history>>

\* select found the subscription done: the rest of the frame is not sent, and a
\* replay goes on with its next event, which may find the channel ready.
SkipDone ==
    /\ outbox # <<>> /\ target \in done
    /\ outbox' = IF holder = "emit" THEN <<>> ELSE Tail(outbox)
    /\ missed' = missed \cup {target}
    /\ UNCHANGED <<bus, holder, targets, target, pc, channels, closure, got, first>>

\* No case of the select is ready.  (The reader of an unbuffered channel need not
\* be waiting.)
Full(s) == ~Room(s) /\ s \notin done

\* OverflowDropNewest
Drop ==
    /\ outbox # <<>> /\ Full(target)
    /\ Option[target].policy = "drop_newest"
    /\ outbox' = Tail(outbox)
    /\ missed' = missed \cup {target}
    /\ UNCHANGED <<bus, holder, targets, target, pc, channels, closure, got, first>>

\* OverflowError, or the producer's context: Emit returns at once, and the
\* subscriptions it has not come to miss the frame.
EmitFails ==
    /\ holder = "emit" /\ outbox # <<>>
    /\ \/ Full(target) /\ Option[target].policy = "error"
       \/ MayFail
    /\ missed' = missed \cup {target} \cup {s \in targets : Visible(s, Len(log), Last(log)) # <<>>}
    /\ holder' = "none" /\ targets' = {} /\ target' = "none" /\ outbox' = <<>>
    /\ UNCHANGED <<bus, pc, channels, closure, got, first>>

\* The frame is sent to this target.
Sent ==
    /\ holder = "emit" /\ target # "none" /\ outbox = <<>>
    /\ target' = "none"
    /\ UNCHANGED <<bus, holder, targets, outbox, pc, channels, closure, history>>

-----------------------------------------------------------------------------
\* Subscribe

\* defaultReplayStartLocked: the oldest buffered event.  (Without one, the buffer
\* is disabled or nothing was emitted.)
DefaultStart == IF buffer = <<>> THEN 0 ELSE Head(buffer)

\* replayStartLocked: 0 for no replay
ReplayStart(o) ==
    LET n == Len(log)
        lastFrom == IF n >= o.last THEN n - o.last + 1 ELSE 1
    IN CASE o.noReplay -> 0
         [] ~o.noReplay /\ o.from = 0 /\ o.last = 0 -> DefaultStart
         [] OTHER -> IF o.last > 0 /\ n > 0 /\ lastFrom > o.from THEN lastFrom ELSE o.from

\* The buffered frames that Subscribe replays.
Replayed(o) == IF ReplayStart(o) = 0 THEN <<>>
               ELSE SelectSeq(buffer, LAMBDA n : n >= ReplayStart(o))

\* Mutant: the channel of a raw subscriber is not sized for its replay.
CapacityPlain(s, replay) == Option[s].buffer

\* The channel of a raw subscriber holds its whole replay.
Capacity(s, replay) ==
    IF Option[s].raw /\ Option[s].buffer < Len(replay) THEN Len(replay) ELSE Option[s].buffer

SubscribeClosed(s) ==
    /\ pc[s] = "new" /\ holder = "none" /\ closed
    /\ pc' = [pc EXCEPT ![s] = "refused"]
    /\ UNCHANGED <<bus, delivery, channels, closure, history>>

\* Subscribe up to the release of mu.
Subscribe(s) ==
    /\ pc[s] = "new" /\ holder = "none" /\ ~closed
    /\ LET ns == Replayed(Option[s])
           replay == VisibleAll(s, ns)
       IN /\ cap' = [cap EXCEPT ![s] = Capacity(s, replay)]
          /\ outbox' = replay
          /\ first' = [first EXCEPT ![s] = IF ns = <<>> THEN Len(log) + 1 ELSE Head(ns)]
    /\ subscribers' = subscribers \cup {s}
    /\ holder' = s /\ target' = s
    /\ pc' = [pc EXCEPT ![s] = "replaying"]
    /\ UNCHANGED <<log, buffer, closed, targets, chan, done, shut, closure, got, missed>>

\* The replay is sent: Subscribe returns and releases deliveryMu.
SubscribeReturns(s) ==
    /\ pc[s] = "replaying" /\ holder = s /\ outbox = <<>>
    /\ pc' = [pc EXCEPT ![s] = "active"]
    /\ holder' = "none" /\ target' = "none"
    /\ UNCHANGED <<bus, targets, outbox, channels, closure, history>>

\* The replay overflows: sub.Cancel closes done and waits for deliveryMu, which
\* this very Subscribe holds.
SubscribeOverflows(s) ==
    /\ pc[s] = "replaying" /\ holder = s /\ outbox # <<>>
    /\ Full(s) /\ Option[s].policy = "error"
    /\ pc' = [pc EXCEPT ![s] = "overflowed"]
    /\ target' = "none" /\ outbox' = <<>>
    /\ done' = done \cup {s}
    /\ canceling' = canceling \cup {s}
    /\ missed' = missed \cup {s}
    /\ UNCHANGED <<bus, holder, targets, cap, chan, shut, closing, closer, got, first>>

-----------------------------------------------------------------------------
\* Next, Cancel, Close

\* Next: an event, or the end once the channel is closed and empty.
Next_(s) ==
    /\ pc[s] = "active"
    /\ \/ /\ chan[s] # <<>>
          /\ got' = [got EXCEPT ![s] = Append(@, Head(chan[s]))]
          /\ chan' = [chan EXCEPT ![s] = Tail(@)]
          /\ UNCHANGED pc
       \/ /\ chan[s] = <<>> /\ s \in shut
          /\ pc' = [pc EXCEPT ![s] = "ended"]
          /\ UNCHANGED <<got, chan>>
    /\ UNCHANGED <<bus, delivery, cap, done, shut, closure, first, missed>>

\* Cancel: closeDone, without a lock ...
Cancel(s) ==
    /\ pc[s] = "active" /\ s \notin canceling \cup shut
    /\ done' = done \cup {s}
    /\ canceling' = canceling \cup {s}
    /\ UNCHANGED <<bus, delivery, pc, cap, chan, shut, closing, closer, history>>

\* Mutant: the subscription is closed during a delivery.
DetachUnlocked(s) ==
    /\ s \in canceling
    /\ canceling' = canceling \ {s}
    /\ subscribers' = subscribers \ {s}
    /\ shut' = shut \cup {s}
    /\ UNCHANGED <<log, buffer, closed, delivery, pc, cap, chan, done, closing, closer, history>>

\* ... then the subscription leaves the stream, under deliveryMu.
Detach(s) ==
    /\ s \in canceling /\ holder = "none"
    /\ canceling' = canceling \ {s}
    /\ subscribers' = subscribers \ {s}
    /\ shut' = shut \cup {s}
    /\ UNCHANGED <<log, buffer, closed, delivery, pc, cap, chan, done, closing, closer, history>>

\* Close: from here on Emit and Subscribe are refused.
Close ==
    /\ closer = "open" /\ ~closed
    /\ closed' = TRUE
    /\ closing' = subscribers
    /\ closer' = "closeDone"
    /\ UNCHANGED <<log, buffer, subscribers, delivery, pc, channels, canceling, history>>

CloseDone ==
    /\ closer = "closeDone"
    /\ \/ \E s \in closing \ done : done' = done \cup {s} /\ UNCHANGED closer
       \/ closing \subseteq done /\ closer' = "shut" /\ UNCHANGED done
    /\ UNCHANGED <<bus, delivery, pc, cap, chan, shut, canceling, closing, history>>

\* Mutant: Close leaves the channels of its subscribers open.
CloseDetachesOnly ==
    /\ closer = "shut" /\ holder = "none"
    /\ subscribers' = subscribers \ closing
    /\ closer' = "closed"
    /\ UNCHANGED <<log, buffer, closed, delivery, pc, cap, chan, done, shut, canceling, closing, history>>

CloseEvents ==
    /\ closer = "shut" /\ holder = "none"
    /\ subscribers' = subscribers \ closing
    /\ shut' = shut \cup closing
    /\ closer' = "closed"
    /\ UNCHANGED <<log, buffer, closed, delivery, pc, cap, chan, done, canceling, closing, history>>

-----------------------------------------------------------------------------
Send      == Deliver \/ SkipDone \/ Drop \/ EmitFails \/ Sent \/ NextTarget
Attach(s) == Subscribe(s) \/ SubscribeClosed(s)
Return(s) == SubscribeReturns(s) \/ SubscribeOverflows(s)
Shut      == CloseDone \/ CloseEvents

Next ==
    \/ \E f \in Frame : Emit(f)
    \/ Send
    \/ \E s \in Sub : Attach(s) \/ Return(s) \/ Next_(s) \/ Cancel(s) \/ Detach(s)
    \/ Close
    \/ Shut

Spec == Init /\ [][Next]_vars

\* Whoever holds a lock goes on, whoever waits for deliveryMu gets it in the end
\* (sync.Mutex is starvation free), and owners read their channels.  Nobody has to
\* emit, subscribe, cancel or close.
Fairness ==
    /\ WF_vars(Send)
    /\ \A s \in Sub : WF_vars(Return(s)) /\ WF_vars(Next_(s)) /\ SF_vars(Detach(s))
    /\ WF_vars(CloseDone) /\ SF_vars(CloseEvents)

FairSpec == Spec /\ Fairness

-----------------------------------------------------------------------------
\* Properties

\* Every variable holds a value of its type, and no channel or buffer holds more
\* than its capacity.
TypeOK ==
    /\ log \in Seq(Frame) /\ closed \in BOOLEAN
    /\ \A i \in DOMAIN buffer : buffer[i] \in DOMAIN log
    /\ Len(buffer) <= BufferLimit
    /\ {subscribers, targets, done, shut, canceling, closing, missed} \subseteq SUBSET Sub
    /\ holder \in Sub \cup {"none", "emit"} /\ target \in Sub \cup {"none"}
    /\ pc \in [Sub -> {"new", "refused", "replaying", "overflowed", "active", "ended"}]
    /\ cap \in [Sub -> Nat]
    /\ \A s \in Sub : Len(chan[s]) <= cap[s] \/ (cap[s] = 0 /\ Len(chan[s]) = 1)
    /\ closer \in {"open", "closeDone", "shut", "closed"}

\* No delivery is under way, or owed, to a subscription whose events channel is
\* closed: a send would panic.  Cancel and Close run concurrently with deliveries
\* and only deliveryMu keeps them apart.
NoSendOnClosed ==
    /\ targets \cap shut = {}
    /\ target # "none" => target \notin shut

\* What the owner of s has read and will read.
Stream_(s) == got[s] \o chan[s] \o (IF target = s THEN outbox ELSE <<>>)

\* Every matching logical event from the start of its replay up to frame n.
Expected(s, n) == VisibleAll(s, [i \in 1 .. n - first[s] + 1 |-> first[s] + i - 1])

\* Between replay and live delivery there is neither a gap nor a duplicate: a
\* subscription that lost nothing to an overflow, a failed Emit or its own end
\* reads exactly the matching logical events since its replay started, in order.
NoGapNoDuplicate ==
    \A s \in subscribers \ missed :
        Stream_(s) = Expected(s, IF s \in targets THEN Len(log) - 1 ELSE Len(log))

\* Whatever was lost, what arrives is in order of emission and arrives once.
InOrder ==
    \A s \in Sub : \A i \in 1 .. Len(Stream_(s)) - 1 :
        LET a == Stream_(s)[i]
            b == Stream_(s)[i + 1]
        IN a[1] < b[1] \/ (a[1] = b[1] /\ a[2] < b[2])

\* "For raw subscribers, size the channel to hold all replay events so the
\* catch-up phase never drops frames": it does not overflow either.
RawCatchUpIsComplete ==
    \A s \in Sub : Option[s].raw =>
        /\ pc[s] # "overflowed"
        /\ pc[s] = "replaying" /\ s \notin done => s \notin missed

\* What a reader gets: everything, once and in order, unless something was lost on
\* the way; then the rest, in order; and a raw reader loses nothing in its replay.
ReadersSeeTheLog == NoGapNoDuplicate /\ InOrder /\ RawCatchUpIsComplete

\* A closed stream ends every reader, each after the events its channel holds; and
\* a canceled subscription is closed and leaves the stream, also when deliveries and
\* Close compete for the lock.  (Unless a Subscribe whose replay overflowed holds the
\* lock for good, see SubscribeEnds.)
ReadersEnd ==
    <>[]((\A s \in Sub : pc[s] # "overflowed") =>
            /\ closed => \A s \in Sub : pc[s] \in {"new", "refused", "ended"}
            /\ \A s \in done : s \in shut /\ s \notin subscribers)

\* Subscribe returns, with a subscription or with an error.
SubscribeEnds == \A s \in Sub : pc[s] = "replaying" ~> pc[s] \notin {"replaying", "overflowed"}
=============================================================================
