---------------------------- MODULE StreamProofs ----------------------------
(***************************************************************************)
(* Safety of deliveries, for any number of subscriptions, frames and       *)
(* buffer sizes: nothing is ever sent on a closed channel.                 *)
(***************************************************************************)
EXTENDS Stream, TLAPS

\* Why it holds.  Who holds deliveryMu is the only one with deliveries under way;
\* they go to attached subscriptions; channels are closed on leaving the stream,
\* and only a subscription that never attached can attach.
LockInv ==
    /\ pc \in [Sub -> {"new", "refused", "replaying", "overflowed", "active", "ended"}]
    /\ subscribers \subseteq Sub
    /\ holder # "emit" => targets = {}
    /\ holder = "none" => target = "none"
    /\ targets \subseteq subscribers
    /\ target # "none" => target \in subscribers
    /\ subscribers \cap shut = {}
    /\ \A s \in subscribers \cup shut \cup canceling \cup closing : s \in Sub /\ pc[s] # "new"

\* Emit and the deliveries it makes keep the lock discipline.
LEMMA EmitKeepsLock ==
    ASSUME LockInv, (\E f \in Frame : Emit(f)) \/ Send
    PROVE  LockInv'
<1>1. CASE \E f \in Frame : Emit(f)
  BY <1>1 DEF LockInv, Emit, channels, closure
<1>2. CASE NextTarget
  BY <1>2, SubAssumption DEF LockInv, NextTarget, bus, channels, closure
<1>3. CASE Deliver
  BY <1>3 DEF LockInv, Deliver, bus, closure
<1>4. CASE SkipDone
  BY <1>4 DEF LockInv, SkipDone, bus, channels, closure
<1>5. CASE Drop
  BY <1>5 DEF LockInv, Drop, bus, channels, closure
<1>6. CASE EmitFails
  BY <1>6 DEF LockInv, EmitFails, bus, channels, closure
<1>7. CASE Sent
  BY <1>7 DEF LockInv, Sent, bus, channels, closure
<1> QED
  BY <1>1, <1>2, <1>3, <1>4, <1>5, <1>6, <1>7 DEF Send

\* Subscribe, Next and Cancel keep it.
LEMMA OwnerKeepsLock ==
    ASSUME LockInv, NEW s \in Sub,
           Attach(s) \/ Return(s) \/ Next_(s) \/ Cancel(s) \/ Detach(s)
    PROVE  LockInv'
<1>1. CASE Subscribe(s)
  <2>1. s \notin shut /\ s \notin canceling /\ s \notin closing
    BY <1>1 DEF LockInv, Subscribe
  <2>2. holder' = s /\ target' = s /\ targets' = targets /\ subscribers' = subscribers \cup {s}
        /\ shut' = shut /\ canceling' = canceling /\ closing' = closing
        /\ pc' = [pc EXCEPT ![s] = "replaying"]
    BY <1>1 DEF Subscribe, closure
  <2>3. targets = {}
    BY <1>1 DEF LockInv, Subscribe
  <2> QED
    BY <2>1, <2>2, <2>3, SubAssumption DEF LockInv
<1>2. CASE SubscribeClosed(s)
  BY <1>2 DEF LockInv, SubscribeClosed, bus, delivery, channels, closure
<1>3. CASE SubscribeReturns(s)
  BY <1>3, SubAssumption DEF LockInv, SubscribeReturns, bus, channels, closure
<1>4. CASE SubscribeOverflows(s)
  BY <1>4, SubAssumption DEF LockInv, SubscribeOverflows, bus
<1>5. CASE Next_(s)
  BY <1>5 DEF LockInv, Next_, bus, delivery, closure
<1>6. CASE Cancel(s)
  BY <1>6 DEF LockInv, Cancel, bus, delivery
<1>7. CASE Detach(s)
  BY <1>7 DEF LockInv, Detach, delivery
<1> QED
  BY <1>1, <1>2, <1>3, <1>4, <1>5, <1>6, <1>7 DEF Attach, Return

\* Close keeps it.
LEMMA CloseKeepsLock ==
    ASSUME LockInv, Close \/ Shut
    PROVE  LockInv'
<1>1. CASE Close
  BY <1>1 DEF LockInv, Close, delivery, channels
<1>2. CASE CloseDone
  BY <1>2 DEF LockInv, CloseDone, bus, delivery
<1>3. CASE CloseEvents
  BY <1>3 DEF LockInv, CloseEvents, delivery
<1> QED
  BY <1>1, <1>2, <1>3 DEF Shut

\* However Cancel, Close and deliveries interleave, Emit and Subscribe never send on
\* a closed events channel.
THEOREM NeverSendsOnClosed == Spec => []NoSendOnClosed
<1>1. Init => LockInv
  BY DEF Init, LockInv
<1>2. LockInv /\ [Next]_vars => LockInv'
  <2> SUFFICES ASSUME LockInv, [Next]_vars PROVE LockInv'
    OBVIOUS
  <2>1. CASE UNCHANGED vars
    BY <2>1 DEF LockInv, vars, bus, delivery, channels, closure
  <2>2. CASE Next
    BY <2>2, EmitKeepsLock, OwnerKeepsLock, CloseKeepsLock DEF Next
  <2> QED
    BY <2>1, <2>2
<1>3. LockInv => NoSendOnClosed
  BY DEF LockInv, NoSendOnClosed
<1> QED
  BY <1>1, <1>2, <1>3, PTL DEF Spec
=============================================================================
