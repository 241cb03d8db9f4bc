---------------------------- MODULE RequestProofs ----------------------------
(***************************************************************************)
(* What a request started with is kept under it, and its event log is      *)
(* faithful: for every set of skills, planners and plans, every buffer,    *)
(* and any number of calls, faults and readers.                            *)
(***************************************************************************)
EXTENDS Request, TLAPS

-----------------------------------------------------------------------------
\* The registry

\* What UserSkillStays says of one step.
KeepsUserSkills ==
    \A n \in DOMAIN skills : skills[n].user =>
        \/ n \in DOMAIN skills' /\ skills'[n] = skills[n]
        \/ \E names \in Removals : n \in Range(names) /\ n \notin DOMAIN skills'

\* Where there is a user's skill it is the one that a name resolves to.
LEMMA UserSkillWins ==
    ASSUME NEW regs, NEW r \in regs, r.user, Resolvable(regs)
    PROVE  Resolve(regs) = r
<1>1. r \in UserSupplied(regs)
  BY DEF UserSupplied
<1>2. CASE Single(regs)
  BY <1>2 DEF Single, Resolve
<1>3. CASE ~Single(regs)
  <2>1. UserSupplied(regs) = {r}
    BY <1>1, <1>3 DEF Resolvable, Single
  <2> QED
    BY <2>1, <1>3 DEF Resolve
<1> QED
  BY <1>2, <1>3

\* AddSkills keeps the users' skills that are there when it takes the lock.
LEMMA AddKeepsUserSkills ==
    ASSUME NEW c \in Calls, AddSkillsCommit(c)
    PROVE  KeepsUserSkills
<1> DEFINE names == DOMAIN skills \cup {Batches[c][i].name : i \in DOMAIN Batches[c]}
<1>1. CASE \A n \in names : Resolvable(Tentative(c, n))
  <2>1. skills' = [n \in names |-> Resolve(Tentative(c, n))]
    BY <1>1 DEF AddSkillsCommit
  <2>2. ASSUME NEW n \in DOMAIN skills, skills[n].user
        PROVE  n \in DOMAIN skills' /\ skills'[n] = skills[n]
    <3>1. skills[n] \in Tentative(c, n)
      BY <2>2 DEF Tentative
    <3>2. Resolve(Tentative(c, n)) = skills[n]
      BY <1>1, <2>2, <3>1, UserSkillWins
    <3> QED
      BY <2>1, <2>2, <3>2
  <2> QED
    BY <2>2 DEF KeepsUserSkills
<1>2. CASE ~ \A n \in names : Resolvable(Tentative(c, n))
  <2>1. skills' = skills
    BY <1>2 DEF AddSkillsCommit
  <2> QED
    BY <2>1 DEF KeepsUserSkills
<1> QED
  BY <1>1, <1>2

\* RemoveSkills takes away what it was asked to.
LEMMA RemoveTakesNamed ==
    ASSUME NEW names \in Removals, RemoveSkills(names)
    PROVE  KeepsUserSkills
<1>1. CASE Range(names) \subseteq DOMAIN skills /\ IsInjective(names)
  <2>1. skills' = [n \in DOMAIN skills \ Range(names) |-> skills[n]]
    BY <1>1 DEF RemoveSkills, Restrict
  <2> QED
    BY <2>1 DEF KeepsUserSkills
<1>2. CASE ~(Range(names) \subseteq DOMAIN skills /\ IsInjective(names))
  BY <1>2 DEF RemoveSkills, KeepsUserSkills
<1> QED
  BY <1>1, <1>2

LeavesRegistry == UNCHANGED <<registry, startup>> /\ (engine = "new" => engine' = "new")

\* Everything but the registry's own calls and StartRequest leaves the registry
\* alone.
LEMMA RequestLeavesRegistry ==
    ASSUME [Next]_vars
    PROVE  (RegistryNext /\ UNCHANGED run) \/ StartRequest \/ LeavesRegistry
  BY DEF Next, Work, BindPlanner, PlanAnswer, Rejected, BuildRunner, SubmitRunner, FailRequest,
         RunnerStep, ReviewFails, RunnerCanceled, Tick, MergeOverflows, MergeCanceled, CancelRequest, DrainNext,
         DrainCanceled, DrainClose, AppendEvent, QueueEmpty, QueueWait, LoadView, SaveCursor,
         vars, run, registry, LeavesRegistry

\* The planner a request started with stays the orchestrator's, and a user's
\* skill stays under its name until it is removed, whatever calls of AddSkills
\* and SetOrchestratorSkill are under way when the request starts.
THEOREM RegistryIsKept == Spec => RegistryHolds
<1>1. Init => StartupHolds
  BY DEF Init, StartupHolds
<1>2. StartupHolds /\ [Next]_vars => StartupHolds'
  <2> SUFFICES ASSUME StartupHolds, [Next]_vars PROVE StartupHolds'
    OBVIOUS
  <2>1. CASE StartRequest
    BY <2>1 DEF StartRequest, StartupHolds
  <2>2. CASE RegistryNext /\ UNCHANGED run
    <3>1. locked' = locked /\ (locked => planner' = planner)
      BY <2>2 DEF RegistryNext, AddSkillsPrepare, AddSkillsCommit, RemoveSkills, AddMCPServers, CloseServers,
                  SetPlannerPrepare, SetPlannerCommit
    <3> QED
      BY <2>2, <3>1 DEF StartupHolds, run
  <2>3. CASE LeavesRegistry
    BY <2>3 DEF StartupHolds, registry, LeavesRegistry
  <2> QED
    BY <2>1, <2>2, <2>3, RequestLeavesRegistry
<1>3. [Next]_vars => [KeepsUserSkills]_skills
  <2> SUFFICES ASSUME [Next]_vars, skills' # skills PROVE KeepsUserSkills
    OBVIOUS
  <2>1. CASE StartRequest
    BY <2>1 DEF StartRequest
  <2>2. CASE RegistryNext
    BY <2>2, AddKeepsUserSkills, RemoveTakesNamed
    DEF RegistryNext, AddSkillsPrepare, AddMCPServers, CloseServers, SetPlannerPrepare, SetPlannerCommit
  <2>3. CASE LeavesRegistry
    BY <2>3 DEF registry, LeavesRegistry
  <2> QED
    BY <2>1, <2>2, <2>3, RequestLeavesRegistry
<1>4. [][KeepsUserSkills]_skills => UserSkillStays
  BY DEF KeepsUserSkills, UserSkillStays
<1> QED
  BY <1>1, <1>2, <1>3, <1>4, PTL DEF Spec, RegistryHolds

-----------------------------------------------------------------------------
\* The event log

Frames == {frames[i] : i \in DOMAIN frames}

\* Frames on their way are frames that were emitted.
WayInv ==
    /\ frames \in Seq(Frames) /\ channel \in Seq(Frames) /\ log \in Seq(Frames)
    /\ queue \in [events : Seq(Frames), closed : BOOLEAN, wake : BOOLEAN]
    /\ \A i \in DOMAIN frames : frames[i].seq = i

\* The log, the queue and the subscription together hold frames in order.
OrderInv ==
    /\ \A i, j \in DOMAIN log : i < j => log[i].seq < log[j].seq
    /\ \A i, j \in DOMAIN queue.events : i < j => queue.events[i].seq < queue.events[j].seq
    /\ \A i, j \in DOMAIN channel : i < j => channel[i].seq < channel[j].seq
    /\ \A i \in DOMAIN log, j \in DOMAIN queue.events : log[i].seq < queue.events[j].seq
    /\ \A i \in DOMAIN log, j \in DOMAIN channel : log[i].seq < channel[j].seq
    /\ \A i \in DOMAIN queue.events, j \in DOMAIN channel : queue.events[i].seq < channel[j].seq

\* As long as nothing was lost they hold all of them, without a gap, up to the
\* moment the subscription is given up.
GapInv ==
    ~lossy =>
        /\ \A i \in DOMAIN log : log[i].seq = i
        /\ \A i \in DOMAIN queue.events : queue.events[i].seq = Len(log) + i
        /\ \A i \in DOMAIN channel : channel[i].seq = Len(log) + Len(queue.events) + i
        /\ drain # "end" => Len(log) + Len(queue.events) + Len(channel) = Len(frames)

\* The last frame on its way to the log, or in it, ended the request.
Ended ==
    IF queue.events # << >> THEN Terminal(queue.events[Len(queue.events)])
    ELSE log # << >> /\ Terminal(log[Len(log)])

\* What was queued last when no more is queued ended the request.
EndInv ==
    /\ drain = "off" <=> engine = "new"
    /\ engine = "new" => merged = {}
    /\ queue.closed => drain = "end"
    /\ persist = "end" /\ ~ctxDone => queue.closed /\ queue.events = << >>
    /\ drain \in {"close", "end"} /\ ~ctxDone /\ ~lossy => Ended

FaithInv == WayInv /\ OrderInv /\ GapInv /\ EndInv

\* Nothing was emitted before the first call.
LEMMA FaithInit == Init => FaithInv
<1> SUFFICES ASSUME Init PROVE FaithInv
  OBVIOUS
<1>1. /\ engine = "new" /\ merged = {} /\ drain = "off" /\ persist = "off"
      /\ frames = << >> /\ channel = << >> /\ log = << >>
      /\ queue = [events |-> << >>, closed |-> FALSE, wake |-> FALSE]
      /\ lossy = FALSE
  BY Zenon DEF Init
<1>2. WayInv
  BY <1>1 DEF WayInv, Frames
<1>3. OrderInv /\ GapInv
  BY <1>1 DEF OrderInv, GapInv
<1>4. EndInv
  BY <1>1 DEF EndInv
<1> QED
  BY <1>2, <1>3, <1>4 DEF FaithInv

\* A frame's number is its place among the emitted ones.
LEMMA Numbers ==
    ASSUME WayInv
    PROVE  /\ Len(frames) \in Nat
           /\ \A x \in Frames : x.seq \in 1 .. Len(frames) /\ x = frames[x.seq]
           /\ \A s \in Seq(Frames) : Len(s) \in Nat /\ DOMAIN s = 1 .. Len(s) /\ \A i \in DOMAIN s : s[i] \in Frames
<1>1. frames \in Seq(Frames)
  BY DEF WayInv
<1>2. Len(frames) \in Nat /\ DOMAIN frames = 1 .. Len(frames)
  BY <1>1
<1>3. \A x \in Frames : x.seq \in 1 .. Len(frames) /\ x = frames[x.seq]
  BY <1>2 DEF WayInv, Frames
<1>4. \A s \in Seq(Frames) : Len(s) \in Nat /\ DOMAIN s = 1 .. Len(s) /\ \A i \in DOMAIN s : s[i] \in Frames
  OBVIOUS
<1> QED
  BY <1>2, <1>3, <1>4

\* Whether the request ended is told by the queue and the log.
LEMMA EndedByQueue == queue'.events = queue.events /\ log' = log => Ended' = Ended
  BY DEF Ended, Terminal

\* Emitting a frame keeps the log faithful: the frame has a number above all that
\* are on their way, and it joins them, or the log is lossy, or the subscription
\* was given up.
LEMMA EmitKeeps ==
    ASSUME FaithInv, NEW events, Emit(events), drain # "off", engine' # "new", UNCHANGED <<logging, ctxDone>>
    PROVE  FaithInv'
<1> DEFINE f == [seq |-> Len(frames) + 1, events |-> events]
<1> USE DEF FaithInv
<1>0. UNCHANGED <<drain, queue, persist, log, torn, ctxDone>>
  BY DEF logging
<1>1. frames' = Append(frames, f) /\ f.seq = Len(frames) + 1
  BY DEF Emit
<1>2. /\ Len(frames) \in Nat /\ frames \in Seq(Frames)
      /\ \A x \in Frames : x.seq \in 1 .. Len(frames)
  BY Numbers DEF WayInv
<1>3. /\ DOMAIN frames' = 1 .. Len(frames) + 1 /\ Len(frames') = Len(frames) + 1
      /\ \A i \in 1 .. Len(frames) : frames'[i] = frames[i]
      /\ frames'[Len(frames) + 1] = f
  BY <1>1, <1>2
<1>4. Frames' = Frames \cup {f}
  <2>1. DOMAIN frames = 1 .. Len(frames)
    BY <1>2
  <2>2. \A i : i \in DOMAIN frames' <=> i \in DOMAIN frames \/ i = Len(frames) + 1
    BY <1>2, <1>3, <2>1
  <2> QED
    BY <1>3, <2>1, <2>2 DEF Frames
<1>5. \A s \in Seq(Frames) : s \in Seq(Frames') /\ Append(s, f) \in Seq(Frames')
  BY <1>4
<1>6. frames' \in Seq(Frames') /\ \A i \in DOMAIN frames' : frames'[i].seq = i
  BY <1>1, <1>2, <1>3, <1>5 DEF WayInv
<1>7. \/ channel' = channel /\ (lossy' \/ drain = "end")  /\ (lossy' = lossy \/ lossy')
      \/ channel' = Append(channel, f) /\ lossy' = lossy /\ drain # "end"
  BY DEF Emit
<1>8. CASE channel' = channel /\ (lossy' \/ drain = "end") /\ (lossy' = lossy \/ lossy')
  <2>1. WayInv'
    BY <1>0, <1>5, <1>6, <1>8 DEF WayInv
  <2>2. OrderInv' /\ GapInv'
    BY <1>0, <1>8 DEF OrderInv, GapInv
  <2>3. EndInv'
    BY <1>0, <1>8, EndedByQueue DEF EndInv
  <2> QED
    BY <2>1, <2>2, <2>3
<1>9. CASE channel' = Append(channel, f) /\ lossy' = lossy /\ drain # "end"
  <2>1. channel \in Seq(Frames) /\ log \in Seq(Frames) /\ queue.events \in Seq(Frames)
    BY DEF WayInv
  <2>2. WayInv'
    BY <1>0, <1>5, <1>6, <1>9, <2>1 DEF WayInv
  <2>3. /\ Len(channel) \in Nat /\ DOMAIN channel = 1 .. Len(channel)
        /\ Len(channel') = Len(channel) + 1 /\ DOMAIN channel' = 1 .. Len(channel) + 1
        /\ \A i \in 1 .. Len(channel) : channel'[i] = channel[i]
        /\ channel'[Len(channel) + 1] = f
    BY <1>9, <2>1
  <2>4. /\ \A i \in DOMAIN channel : channel[i].seq \in 1 .. Len(frames)
        /\ \A i \in DOMAIN log : log[i].seq \in 1 .. Len(frames)
        /\ \A i \in DOMAIN queue.events : queue.events[i].seq \in 1 .. Len(frames)
    BY <1>2, <2>1
  <2>5. \A i \in DOMAIN channel' : \/ i \in DOMAIN channel /\ channel'[i] = channel[i]
                                   \/ i = Len(channel) + 1 /\ channel'[i].seq = Len(frames) + 1
    <3>1. \A i \in DOMAIN channel' : i \in 1 .. Len(channel) \/ i = Len(channel) + 1
      BY <2>3
    <3> QED
      BY <1>1, <2>3, <3>1
  <2>6. OrderInv'
    <3>1. \A i, j \in DOMAIN channel' : i < j => channel'[i].seq < channel'[j].seq
      <4> SUFFICES ASSUME NEW i \in DOMAIN channel', NEW j \in DOMAIN channel', i < j
                   PROVE  channel'[i].seq < channel'[j].seq
        OBVIOUS
      <4>1. i \in DOMAIN channel /\ channel'[i] = channel[i]
        BY <2>3, <2>5
      <4>2. channel[i].seq < Len(frames) + 1
        BY <1>2, <2>4, <4>1
      <4>3. \A k \in DOMAIN channel : i < k => channel[i].seq < channel[k].seq
        BY <4>1 DEF OrderInv
      <4> QED
        BY <2>5, <4>1, <4>2, <4>3
    <3>2. \A i \in DOMAIN log, j \in DOMAIN channel' : log[i].seq < channel'[j].seq
      BY <1>2, <2>4, <2>5 DEF OrderInv
    <3>3. \A i \in DOMAIN queue.events, j \in DOMAIN channel' : queue.events[i].seq < channel'[j].seq
      BY <1>2, <2>4, <2>5 DEF OrderInv
    <3> QED
      BY <1>0, <3>1, <3>2, <3>3 DEF OrderInv
  <2>7. GapInv'
    <3>1. Len(log) \in Nat /\ Len(queue.events) \in Nat
      BY <2>1
    <3>2. SUFFICES ASSUME ~lossy PROVE /\ \A i \in DOMAIN channel' : channel'[i].seq = Len(log) + Len(queue.events) + i
                                       /\ Len(log) + Len(queue.events) + Len(channel') = Len(frames')
      BY <1>0, <1>9 DEF GapInv
    <3>3. Len(log) + Len(queue.events) + Len(channel) = Len(frames)
      BY <1>9, <3>2 DEF GapInv
    <3>4. Len(channel) \in Nat /\ Len(frames) \in Nat
      BY <1>2, <2>3
    <3>5. Len(log) + Len(queue.events) + (Len(channel) + 1) = Len(frames) + 1
      <4> DEFINE a == Len(log)  b == Len(queue.events)  c == Len(channel)  d == Len(frames)
      <4>1. a \in Nat /\ b \in Nat /\ c \in Nat /\ d \in Nat /\ a + b + c = d
        BY <3>1, <3>3, <3>4
      <4> HIDE DEF a, b, c, d
      <4>2. a + b + (c + 1) = d + 1
        BY <4>1
      <4> QED
        BY <4>2 DEF a, b, c, d
    <3>6. \A i \in DOMAIN channel : channel[i].seq = Len(log) + Len(queue.events) + i
      BY <3>2 DEF GapInv
    <3>7. ASSUME NEW i \in DOMAIN channel' PROVE channel'[i].seq = Len(log) + Len(queue.events) + i
      <4>1. CASE i \in DOMAIN channel /\ channel'[i] = channel[i]
        BY <4>1, <3>6
      <4>2. CASE i = Len(channel) + 1 /\ channel'[i].seq = Len(frames) + 1
        BY <4>2, <3>5
      <4> QED
        BY <2>5, <4>1, <4>2
    <3> QED
      BY <1>3, <2>3, <3>7, <3>5
  <2>8. EndInv'
    BY <1>0, <1>9, EndedByQueue DEF EndInv
  <2> QED
    BY <2>2, <2>6, <2>7, <2>8
<1> QED
  BY <1>7, <1>8, <1>9

\* A step that touches neither the stream nor the log keeps it faithful.
LEMMA QuietKeeps ==
    ASSUME FaithInv, UNCHANGED <<stream, logging>>, ctxDone => ctxDone',
           engine' = "new" <=> engine = "new", engine = "new" => merged' = {}
    PROVE  FaithInv'
  BY EndedByQueue DEF FaithInv, WayInv, OrderInv, GapInv, EndInv, Frames, stream, logging

\* The head of one sequence moved to the end of another.
LEMMA Moved ==
    ASSUME NEW F, NEW s \in Seq(F), NEW t \in Seq(F), t # << >>
    PROVE  /\ Append(s, Head(t)) \in Seq(F) /\ Tail(t) \in Seq(F)
           /\ Len(s) \in Nat /\ Len(t) \in Nat \ {0} /\ DOMAIN s = 1 .. Len(s) /\ DOMAIN t = 1 .. Len(t)
           /\ Len(Append(s, Head(t))) = Len(s) + 1 /\ Len(Tail(t)) = Len(t) - 1
           /\ \A i \in DOMAIN Append(s, Head(t)) :
                 \/ i \in DOMAIN s /\ Append(s, Head(t))[i] = s[i]
                 \/ i = Len(s) + 1 /\ Append(s, Head(t))[i] = t[1]
           /\ Append(s, Head(t))[Len(s) + 1] = t[1] /\ Append(s, Head(t)) # << >>
           /\ \A i \in DOMAIN Tail(t) : i \in Nat /\ i + 1 \in DOMAIN t /\ Tail(t)[i] = t[i + 1]
           /\ 1 \in DOMAIN t /\ Head(t) = t[1]
  OBVIOUS

\* A sequence with an empty tail has one element.
LEMMA LastOne == ASSUME NEW F, NEW t \in Seq(F), t # << >>, Tail(t) = << >> PROVE Len(t) = 1
<1> DEFINE n == Len(t)
<1>1. n \in Nat \ {0} /\ DOMAIN Tail(t) = 1 .. n - 1
  <2>1. Tail(t) \in Seq(F) /\ Len(t) \in Nat \ {0} /\ Len(Tail(t)) = Len(t) - 1
    BY Moved
  <2>2. DOMAIN Tail(t) = 1 .. Len(Tail(t))
    BY <2>1
  <2> QED
    BY <2>1, <2>2
<1>2. 1 \notin DOMAIN Tail(t)
  <2> DEFINE e == Tail(t)
  <2>1. e = << >>
    OBVIOUS
  <2> HIDE DEF e
  <2>2. DOMAIN e = {}
    BY <2>1
  <2> QED
    BY <2>2 DEF e
<1> HIDE DEF n
<1>3. n = 1
  BY <1>1, <1>2
<1> QED
  BY <1>3 DEF n

\* Two sequences of frames, one behind the other, are in order.
Sorted(s, t) ==
    /\ \A i, j \in DOMAIN s : i < j => s[i].seq < s[j].seq
    /\ \A i, j \in DOMAIN t : i < j => t[i].seq < t[j].seq
    /\ \A i \in DOMAIN s, j \in DOMAIN t : s[i].seq < t[j].seq

\* u has nothing that is in neither s nor t.
Drawn(u, s, t) ==
    \A i \in DOMAIN u : (\E k \in DOMAIN s : u[i] = s[k]) \/ (\E k \in DOMAIN t : u[i] = t[k])

\* The order of two sequences survives a move from the second to the first.
LEMMA MoveKeepsOrder ==
    ASSUME NEW F, NEW s \in Seq(F), NEW t \in Seq(F), t # << >>, \A x \in F : x.seq \in Nat, Sorted(s, t)
    PROVE  /\ Sorted(Append(s, Head(t)), Tail(t))
           /\ Drawn(Append(s, Head(t)), s, t) /\ Drawn(Tail(t), t, t)
<1> USE DEF Sorted
<1> DEFINE a == Append(s, Head(t))
           b == Tail(t)
<1>1. /\ Len(s) \in Nat /\ DOMAIN s = 1 .. Len(s)
      /\ \A i \in DOMAIN a : \/ i \in DOMAIN s /\ a[i] = s[i]
                             \/ i = Len(s) + 1 /\ a[i] = t[1]
      /\ \A i \in DOMAIN b : i \in Nat /\ i + 1 \in DOMAIN t /\ b[i] = t[i + 1]
      /\ 1 \in DOMAIN t
  BY Moved
<1>2. \A i \in DOMAIN b : 1 < i + 1
  <2>1. \A i \in DOMAIN b : i \in 1 .. Len(b)
    BY Moved
  <2> QED
    BY <2>1
<1> HIDE DEF a, b
<1>3. ASSUME NEW i \in DOMAIN a, NEW j \in DOMAIN a, i < j PROVE a[i].seq < a[j].seq
  <2>1. CASE i \in DOMAIN s /\ a[i] = s[i]
    BY <1>1, <1>3, <2>1
  <2>2. CASE i = Len(s) + 1
    <3>1. j \in 1 .. Len(s) \/ j = Len(s) + 1
      BY <1>1
    <3> QED
      BY <1>1, <1>3, <2>2, <3>1
  <2> QED
    BY <1>1, <2>1, <2>2
<1>4. ASSUME NEW i \in DOMAIN b, NEW j \in DOMAIN b, i < j PROVE b[i].seq < b[j].seq
  <2>1. i \in Nat /\ j \in Nat /\ i + 1 \in DOMAIN t /\ j + 1 \in DOMAIN t /\ b[i] = t[i + 1] /\ b[j] = t[j + 1]
    BY <1>1
  <2>2. i + 1 < j + 1
    BY <1>4, <2>1
  <2> QED
    BY <2>1, <2>2
<1>5. \A i \in DOMAIN a, j \in DOMAIN b : a[i].seq < b[j].seq
  BY <1>1, <1>2
<1>6. Drawn(a, s, t)
  BY <1>1 DEF Drawn
<1>7. Drawn(b, t, t)
  BY <1>1 DEF Drawn
<1> QED
  BY <1>3, <1>4, <1>5, <1>6, <1>7 DEF a, b

\* The drain goroutine moves the next frame from the subscription to the queue.
LEMMA DrainKeeps == FaithInv /\ DrainNext => FaithInv'
<1> SUFFICES ASSUME FaithInv, DrainNext PROVE FaithInv'
  OBVIOUS
<1>1. WayInv /\ OrderInv /\ GapInv /\ EndInv
  BY DEF FaithInv
<1>2. /\ drain = "next" /\ channel # << >> /\ channel' = Tail(channel)
      /\ queue' = [queue EXCEPT !.events = Append(@, Head(channel)), !.wake = TRUE]
      /\ drain' = IF Terminal(Head(channel)) THEN "close" ELSE "next"
      /\ UNCHANGED <<frames, lossy, persist, log, ctxDone, engine, merged>>
  BY DEF DrainNext, Enqueue, run, merging
<1>3. /\ channel \in Seq(Frames) /\ log \in Seq(Frames) /\ queue.events \in Seq(Frames)
      /\ queue'.events = Append(queue.events, Head(channel)) /\ queue'.closed = queue.closed
      /\ Frames' = Frames
  BY <1>1, <1>2 DEF WayInv, Frames
<1>4. WayInv'
  <2>1. Append(queue.events, Head(channel)) \in Seq(Frames) /\ Tail(channel) \in Seq(Frames)
    BY <1>2, <1>3, Moved
  <2> QED
    BY <1>1, <1>2, <1>3, <2>1 DEF WayInv
<1>5. OrderInv'
  <2>1. \A x \in Frames : x.seq \in Nat
    BY <1>1, Numbers
  <2>2. Sorted(queue.events, channel)
    BY <1>1 DEF OrderInv, Sorted
  <2>3. /\ Sorted(queue'.events, channel')
        /\ Drawn(queue'.events, queue.events, channel) /\ Drawn(channel', channel, channel)
    BY <1>2, <1>3, <2>1, <2>2, MoveKeepsOrder
  <2>4. /\ \A i \in DOMAIN log, j \in DOMAIN queue'.events : log[i].seq < queue'.events[j].seq
        /\ \A i \in DOMAIN log, j \in DOMAIN channel' : log[i].seq < channel'[j].seq
    BY <1>1, <2>3 DEF OrderInv, Drawn
  <2> QED
    BY <1>1, <1>2, <2>3, <2>4 DEF OrderInv, Sorted
<1>6. GapInv'
  <2> SUFFICES ASSUME ~lossy
               PROVE  /\ \A i \in DOMAIN queue'.events : queue'.events[i].seq = Len(log) + i
                      /\ \A i \in DOMAIN channel' : channel'[i].seq = Len(log) + Len(queue'.events) + i
                      /\ Len(log) + Len(queue'.events) + Len(channel') = Len(frames)
    BY <1>1, <1>2 DEF GapInv
  <2> DEFINE l == Len(log)  q == Len(queue.events)  c == Len(channel)
  <2>1. /\ l \in Nat /\ q \in Nat /\ c \in Nat \ {0} /\ Len(queue'.events) = q + 1 /\ Len(channel') = c - 1
        /\ \A i \in DOMAIN queue'.events : \/ i \in DOMAIN queue.events /\ queue'.events[i] = queue.events[i]
                                           \/ i = q + 1 /\ queue'.events[i] = channel[1]
        /\ \A i \in DOMAIN channel' : i \in Nat /\ i + 1 \in DOMAIN channel /\ channel'[i] = channel[i + 1]
        /\ 1 \in DOMAIN channel
    BY <1>2, <1>3, Moved
  <2>2. /\ \A i \in DOMAIN queue.events : queue.events[i].seq = l + i
        /\ \A i \in DOMAIN channel : channel[i].seq = l + q + i
        /\ l + q + c = Len(frames)
    BY <1>1, <1>2 DEF GapInv
  <2> HIDE DEF l, q, c
  <2>3. ASSUME NEW i \in DOMAIN queue'.events PROVE queue'.events[i].seq = l + i
    BY <2>1, <2>2
  <2>4. ASSUME NEW i \in DOMAIN channel' PROVE channel'[i].seq = l + (q + 1) + i
    BY <2>1, <2>2
  <2>5. l + (q + 1) + (c - 1) = Len(frames)
    BY <2>1, <2>2
  <2> QED
    BY <2>1, <2>3, <2>4, <2>5 DEF l, q, c
<1>7. EndInv'
  <2>1. /\ queue'.events # << >> /\ queue'.events[Len(queue'.events)] = channel[1] /\ Head(channel) = channel[1]
    <3>0. channel # << >>
      BY <1>2
    <3>1. Len(queue'.events) = Len(queue.events) + 1 /\ queue'.events[Len(queue.events) + 1] = channel[1]
      BY <1>3, <3>0, Moved
    <3>2. queue'.events # << >> /\ Head(channel) = channel[1]
      BY <1>3, <3>0, Moved
    <3> DEFINE n == Len(queue'.events)  m == Len(queue.events)
    <3>3. n = m + 1 /\ queue'.events[m + 1] = channel[1]
      BY <3>1
    <3> HIDE DEF n, m
    <3>4. queue'.events[n] = channel[1]
      BY <3>3
    <3> QED
      BY <3>2, <3>4 DEF n
  <2>2. drain' = "close" => Terminal(channel[1])
    BY <1>2, <2>1
  <2>3. ~queue.closed
    BY <1>1, <1>2 DEF EndInv
  <2>4. /\ drain' = "off" <=> engine' = "new"
        /\ engine' = "new" => merged' = {}
        /\ ~queue'.closed
        /\ ~(persist' = "end" /\ ~ctxDone')
    BY <1>1, <1>2, <1>3, <2>3 DEF EndInv
  <2>5. drain' \in {"close", "end"} => Terminal(queue'.events[Len(queue'.events)])
    BY <1>2, <2>1, <2>2
  <2>6. drain' \in {"close", "end"} => Ended'
    BY <2>1, <2>5 DEF Ended, Terminal
  <2> QED
    BY <2>4, <2>6 DEF EndInv
<1> QED
  BY <1>4, <1>5, <1>6, <1>7 DEF FaithInv

\* The other goroutine moves the next frame from the queue to the log, or loses it.
LEMMA AppendKeeps == FaithInv /\ AppendEvent => FaithInv'
<1> SUFFICES ASSUME FaithInv, AppendEvent PROVE FaithInv'
  OBVIOUS
<1>1. WayInv /\ OrderInv /\ GapInv /\ EndInv
  BY DEF FaithInv
<1> DEFINE ev == queue.events
<1>2. /\ persist = "next" /\ ev # << >>
      /\ queue' = [queue EXCEPT !.events = Tail(@)]
      /\ \/ log' = Append(log, Head(ev)) /\ lossy' = lossy
         \/ log' = log /\ lossy'
      /\ UNCHANGED <<frames, channel, drain, persist, ctxDone, engine, merged>>
  BY DEF AppendEvent, run, merging
<1>3. /\ channel \in Seq(Frames) /\ log \in Seq(Frames) /\ ev \in Seq(Frames)
      /\ queue'.events = Tail(ev) /\ queue'.closed = queue.closed
      /\ Frames' = Frames
  BY <1>1, <1>2 DEF WayInv, Frames
<1>4. WayInv'
  <2>1. Append(log, Head(ev)) \in Seq(Frames) /\ Tail(ev) \in Seq(Frames)
    BY <1>2, <1>3, Moved
  <2> QED
    BY <1>1, <1>2, <1>3, <2>1 DEF WayInv
<1>5. OrderInv'
  <2>1. \A x \in Frames : x.seq \in Nat
    BY <1>1, Numbers
  <2>2. Sorted(log, ev)
    BY <1>1 DEF OrderInv, Sorted
  <2>3. /\ Sorted(Append(log, Head(ev)), Tail(ev))
        /\ Drawn(Append(log, Head(ev)), log, ev) /\ Drawn(Tail(ev), ev, ev)
    BY <1>2, <1>3, <2>1, <2>2, MoveKeepsOrder
  <2>4. /\ \A i \in DOMAIN Tail(ev), j \in DOMAIN channel : Tail(ev)[i].seq < channel[j].seq
        /\ \A i \in DOMAIN log, j \in DOMAIN Tail(ev) : log[i].seq < Tail(ev)[j].seq
        /\ \A i \in DOMAIN Append(log, Head(ev)), j \in DOMAIN channel :
              Append(log, Head(ev))[i].seq < channel[j].seq
    BY <1>1, <2>3 DEF OrderInv, Drawn
  <2>5. CASE log' = Append(log, Head(ev))
    BY <1>1, <1>2, <1>3, <2>3, <2>4, <2>5 DEF OrderInv, Sorted
  <2>6. CASE log' = log
    BY <1>1, <1>2, <1>3, <2>3, <2>4, <2>6 DEF OrderInv, Sorted
  <2> QED
    BY <1>2, <2>5, <2>6
<1>6. GapInv'
  <2> SUFFICES ASSUME ~lossy, lossy' = lossy, log' = Append(log, Head(ev))
               PROVE  /\ \A i \in DOMAIN log' : log'[i].seq = i
                      /\ \A i \in DOMAIN queue'.events : queue'.events[i].seq = Len(log') + i
                      /\ \A i \in DOMAIN channel : channel[i].seq = Len(log') + Len(queue'.events) + i
                      /\ drain # "end" => Len(log') + Len(queue'.events) + Len(channel) = Len(frames)
    BY <1>1, <1>2 DEF GapInv
  <2> DEFINE l == Len(log)  q == Len(ev)
  <2>1. /\ l \in Nat /\ q \in Nat \ {0} /\ Len(log') = l + 1 /\ Len(queue'.events) = q - 1
        /\ \A i \in DOMAIN log' : \/ i \in DOMAIN log /\ log'[i] = log[i]
                                  \/ i = l + 1 /\ log'[i] = ev[1]
        /\ \A i \in DOMAIN queue'.events : i \in Nat /\ i + 1 \in DOMAIN ev /\ queue'.events[i] = ev[i + 1]
        /\ 1 \in DOMAIN ev
    BY <1>2, <1>3, Moved
  <2>2. /\ \A i \in DOMAIN log : log[i].seq = i
        /\ \A i \in DOMAIN ev : ev[i].seq = l + i
        /\ \A i \in DOMAIN channel : channel[i].seq = l + q + i
        /\ drain # "end" => l + q + Len(channel) = Len(frames)
    BY <1>1, <1>2 DEF GapInv
  <2> HIDE DEF l, q, ev
  <2>3. ASSUME NEW i \in DOMAIN log' PROVE log'[i].seq = i
    BY <2>1, <2>2
  <2>4. ASSUME NEW i \in DOMAIN queue'.events PROVE queue'.events[i].seq = l + 1 + i
    <3>1. l \in Nat /\ i \in Nat
      BY <2>1
    <3>2. queue'.events[i].seq = l + (i + 1)
      BY <2>1, <2>2
    <3>3. l + (i + 1) = l + 1 + i
      BY <3>1
    <3> QED
      BY <3>2, <3>3
  <2>5. l + 1 + (q - 1) = l + q
    BY <2>1
  <2> QED
    BY <2>1, <2>2, <2>3, <2>4, <2>5
<1>7. EndInv'
  <2>1. CASE lossy'
    BY <1>1, <1>2, <1>3, <2>1 DEF EndInv
  <2>2. CASE log' = Append(log, Head(ev)) /\ lossy' = lossy
    <3>1. /\ log' # << >> /\ log'[Len(log')] = ev[1]
          /\ Tail(ev) = << >> => ev[Len(ev)] = ev[1]
          /\ Tail(ev) # << >> => Tail(ev)[Len(Tail(ev))] = ev[Len(ev)]
      <4>1. /\ Len(log') = Len(log) + 1 /\ log'[Len(log) + 1] = ev[1] /\ log' # << >>
        BY <1>2, <1>3, <2>2, Moved
      <4>2. Tail(ev) = << >> => Len(ev) = 1
        BY <1>2, <1>3, LastOne
      <4>3. Tail(ev) # << >> => Tail(ev)[Len(Tail(ev))] = ev[Len(ev)]
        BY <1>2, <1>3
      <4> QED
        BY <4>1, <4>2, <4>3
    <3>2. Ended => Ended'
      BY <1>2, <1>3, <3>1 DEF Ended, Terminal
    <3> QED
      BY <1>1, <1>2, <1>3, <2>2, <3>2 DEF EndInv
  <2> QED
    BY <1>2, <2>1, <2>2
<1> QED
  BY <1>4, <1>5, <1>6, <1>7 DEF FaithInv

\* The other steps of the two goroutines, and the request's start and cancellation
LEMMA GoroutinesKeep ==
    ASSUME FaithInv, StartRequest \/ CancelRequest \/ DrainCanceled \/ DrainClose \/ QueueEmpty \/ QueueWait
    PROVE  FaithInv'
<1> USE DEF FaithInv
<1>1. CASE StartRequest
  BY <1>1 DEF StartRequest, stream, merging, WayInv, OrderInv, GapInv, EndInv, Frames
<1>2. CASE CancelRequest
  <2>1. /\ UNCHANGED <<frames, channel, lossy, drain, queue, persist, log, engine, merged>>
        /\ ctxDone'
    BY <1>2, Zenon DEF CancelRequest, run, stream, merging, logging
  <2> QED
    BY <2>1 DEF WayInv, OrderInv, GapInv, EndInv, Ended, Frames
<1>3. CASE DrainCanceled
  BY <1>3 DEF DrainCanceled, run, stream, merging, WayInv, OrderInv, GapInv, EndInv, Frames
<1>4. CASE DrainClose
  <2>1. /\ drain = "close" /\ drain' = "end" /\ channel' = << >>
        /\ queue' = [queue EXCEPT !.closed = TRUE, !.wake = TRUE]
        /\ UNCHANGED <<frames, lossy, persist, log, ctxDone, engine, merged>>
    BY <1>4 DEF DrainClose, run, merging
  <2>2. /\ queue' \in [events : Seq(Frames), closed : BOOLEAN, wake : BOOLEAN]
        /\ queue'.events = queue.events /\ queue'.closed /\ Frames' = Frames
        /\ channel' \in Seq(Frames) /\ DOMAIN channel' = {}
    <3>1. queue' \in [events : Seq(Frames), closed : BOOLEAN, wake : BOOLEAN]
      BY <2>1 DEF WayInv
    <3>2. queue'.events = queue.events /\ queue'.closed
      BY <2>1 DEF WayInv
    <3>3. Frames' = Frames
      BY <2>1 DEF Frames
    <3>4. channel' \in Seq(Frames) /\ DOMAIN channel' = {}
      BY <2>1
    <3> QED
      BY <3>1, <3>2, <3>3, <3>4
  <2>3. WayInv' /\ OrderInv'
    BY <2>1, <2>2 DEF WayInv, OrderInv
  <2>4. GapInv'
    BY <2>1, <2>2 DEF GapInv
  <2>5. EndInv'
    BY <2>1, <2>2, EndedByQueue DEF EndInv
  <2> QED
    BY <2>3, <2>4, <2>5
<1>5. CASE QueueEmpty
  BY <1>5, EndedByQueue DEF QueueEmpty, run, stream, merging, WayInv, OrderInv, GapInv, EndInv, Frames
<1>6. CASE QueueWait
  <2>1. /\ UNCHANGED <<frames, channel, lossy, drain, log, ctxDone, engine, merged>>
        /\ \/ persist' = "next" /\ queue' = [queue EXCEPT !.wake = FALSE]
           \/ ctxDone /\ queue' = queue
    BY <1>6 DEF QueueWait, run, stream, merging
  <2>2. /\ queue' \in [events : Seq(Frames), closed : BOOLEAN, wake : BOOLEAN]
        /\ queue'.events = queue.events /\ queue'.closed = queue.closed /\ Frames' = Frames
    BY <2>1 DEF WayInv, Frames
  <2>3. WayInv' /\ OrderInv' /\ GapInv'
    BY <2>1, <2>2 DEF WayInv, OrderInv, GapInv
  <2>4. EndInv'
    BY <2>1, <2>2, EndedByQueue DEF EndInv
  <2> QED
    BY <2>3, <2>4
<1> QED
  BY <1>1, <1>2, <1>3, <1>4, <1>5, <1>6

\* A step of the request either emits one frame or leaves the stream alone.
LEMMA WorkKeeps == FaithInv /\ Work => FaithInv'
<1> SUFFICES ASSUME FaithInv, Work PROVE FaithInv'
  OBVIOUS
<1>1. (drain = "off" <=> engine = "new") /\ (engine = "new" => merged = {})
  BY DEF FaithInv, EndInv
<1>2. CASE StartRequest
  BY <1>2, GoroutinesKeep
<1>3. CASE BindPlanner \/ PlanAnswer \/ Rejected \/ BuildRunner \/ FailRequest \/ Tick
  <2>1. /\ engine # "new" /\ engine' # "new" /\ drain # "off"
        /\ UNCHANGED <<logging, ctxDone>>
        /\ UNCHANGED stream \/ \E events : Emit(events)
    BY <1>1, <1>3 DEF BindPlanner, PlanAnswer, Rejected, BuildRunner, FailRequest, Tick, run
  <2>2. CASE UNCHANGED stream
    BY <2>1, <2>2, QuietKeeps
  <2>3. CASE \E events : Emit(events)
    BY <2>1, <2>3, EmitKeeps
  <2> QED
    BY <2>1, <2>2, <2>3
<1>4. CASE SubmitRunner \/ RunnerStep \/ ReviewFails \/ RunnerCanceled \/ MergeCanceled
  <2>1. /\ UNCHANGED <<stream, logging, ctxDone>>
        /\ engine' = "new" <=> engine = "new"
        /\ engine = "new" => merged' = {}
    BY <1>1, <1>4 DEF SubmitRunner, RunnerStep, ReviewFails, RunnerCanceled, MergeCanceled, run
  <2> QED
    BY <2>1, QuietKeeps
<1>5. ASSUME NEW w, MergeOverflows(w) PROVE FaithInv'
  <2>1. /\ UNCHANGED <<stream, logging, ctxDone>>
        /\ engine' = engine
        /\ engine = "new" => merged' = {}
    BY <1>1, <1>5 DEF MergeOverflows, run
  <2> QED
    BY <2>1, QuietKeeps
<1> QED
  BY <1>2, <1>3, <1>4, <1>5, Zenon DEF Work

\* The log is faithful, whatever is emitted, dropped, canceled or failing, in
\* every order of the emitters, the drain and the persisting goroutine.
THEOREM LogStaysFaithful == Spec => []LogIsFaithful
<1>1. Init => FaithInv
  BY FaithInit
<1>2. FaithInv /\ [Next]_vars => FaithInv'
  <2> SUFFICES ASSUME FaithInv, [Next]_vars PROVE FaithInv'
    OBVIOUS
  <2>1. engine = "new" => merged = {}
    BY DEF FaithInv, EndInv
  <2>2. CASE Work
    BY <2>2, WorkKeeps
  <2>3. CASE CancelRequest \/ DrainCanceled \/ DrainClose \/ QueueEmpty \/ QueueWait
    BY <2>3, GoroutinesKeep
  <2>4. CASE DrainNext
    BY <2>4, DrainKeeps
  <2>5. CASE AppendEvent
    BY <2>5, AppendKeeps
  <2>6. CASE UNCHANGED <<run, merging, stream, logging, ctxDone>>
    BY <2>1, <2>6, QuietKeeps DEF run, merging
  <2>7. CASE \E r \in Reader : LoadView(r) \/ SaveCursor(r)
    <3>1. UNCHANGED <<stream, logging, ctxDone, engine, merged>>
      BY <2>7 DEF LoadView, SaveCursor, run, merging
    <3> QED
      BY <2>1, <3>1, QuietKeeps
  <2>8. CASE UNCHANGED vars
    BY <2>6, <2>8 DEF vars
  <2> QED
    BY <2>2, <2>3, <2>4, <2>5, <2>6, <2>7, <2>8 DEF Next
<1>3. FaithInv => LogIsFaithful
  <2> SUFFICES ASSUME FaithInv PROVE LogIsFaithful
    OBVIOUS
  <2>1. WayInv /\ OrderInv /\ GapInv /\ EndInv
    BY DEF FaithInv
  <2>2. \A i \in DOMAIN log : log[i] = frames[log[i].seq]
    BY <2>1, Numbers DEF WayInv
  <2>3. (~lossy /\ ~ctxDone /\ persist = "end") => log # << >> /\ Terminal(Last(log))
    BY <2>1 DEF EndInv, Ended, Last
  <2> QED
    BY <2>1, <2>2, <2>3 DEF OrderInv, GapInv, LogIsFaithful
<1> QED
  BY <1>1, <1>2, <1>3, PTL DEF Spec
=============================================================================
