-------------------------- MODULE RunSchedulerProofs --------------------------
(***************************************************************************)
(* Proofs about the scheduler of one Session's plan (RunScheduler).        *)
(***************************************************************************)
EXTENDS RunScheduler, FiniteSetTheorems, SequenceTheorems, WellFoundedInduction, TLAPS

Forces == {"force", "revive", "queuedforce"}

\* A task's attempt is a record of its own, still under way, and a runner that
\* is up is that of a task's attempt.
AttemptsRight ==
    /\ \A t \in Task : HasLive(t) => attempt[live[t]].task = t /\ attempt[live[t]].at # "over"
    /\ \A a \in Attempt :
        /\ attempt[a].at \in Starting => attempt[a].runner = "none"
        /\ attempt[a].runner = "up" <=> attempt[a].at = "up"
        /\ attempt[a].at = "up" => Current(a)
        /\ attempt[a].at # "over" => attempt[a].task # None

\* A task whose Mark complete is landing is not at work, and not complete before it has landed.
LandsAlone == \A t \in completing : ~HasLive(t) /\ status[t] # "completed"

\* The slots are held by finitely many tasks.
SlotsRight == IsFiniteSet(LiveTasks) /\ SlotsHold

\* A hold is a task's wait on the reset, and the resume of each, once the reset has come, is of this run.
LimitsRight ==
    /\ HeldRun => resumes # {}
    /\ \A t \in resumes : HeldRun /\ status[t] = "limited" /\ (armed \/ Await("resume", t, stops) \in waits)

\* What waits is of a task. A Mark complete lands alone; a task an explicit start waits for
\* is not complete and has nothing past its spawn: no verdict comes before the start goes on.
WaitRight(w) ==
    /\ w.do \notin {"letgo", "verdict"} => w.task \in Task
    /\ w.do = "completed" => w.task \in completing
    /\ w.do \in Forces =>
        /\ status[w.task] # "completed" /\ w.task \notin completing
        /\ HasLive(w.task) => attempt[live[w.task]].at \in Starting \cup {"up"}

OneLands(W) == \A v, w \in W : v.do = "completed" /\ w.do = "completed" => v = w

WaitsRight == OneLands(waits) /\ \A w \in waits : WaitRight(w)

WaitRecord == [do : Awaited, task : Task \cup {None}, gen : Nat]
TickRecord == [gen : Nat, left : Seq(Task), on : Task \cup {None}, after : {"tick", "verdict"}]

RestTypes ==
    /\ run \in RunStates /\ resumes \in SUBSET Task /\ armed \in BOOLEAN
    /\ onHold \in [Task -> {"no", "chosen", "unchosen"}]
    /\ queued \in Seq(Task) /\ completing \in SUBSET Task
    /\ planning \in BOOLEAN /\ stops \in Nat /\ inputs \in Nat /\ stopped \in BOOLEAN
    /\ ticks \in SUBSET TickRecord /\ waits \in SUBSET WaitRecord

WorkTypes == live \in [Task -> Attempt \cup {None}] /\ attempt \in [Attempt -> AttemptRecord]

WorkInv == WorkTypes /\ AttemptsRight /\ SessionInOneProcess /\ SlotsRight

TasksRight == status \in [Task -> Status] /\ StatusTellsTheTruth /\ LandsAlone

\* The inductive invariant.
SchedInv == RestTypes /\ WorkInv /\ TasksRight /\ LimitsRight /\ WaitsRight

-----------------------------------------------------------------------------
(* The operators the scheduler is built from. *)

(* A set of natural numbers that is not empty has a least element. *)
LEMMA LeastOf ==
    ASSUME NEW I \in SUBSET Nat, I # {}
    PROVE  \E i \in I : \A j \in I : ~(j < i)
<1>1. PICK i \in I : \A j \in I : <<j, i>> \notin OpToRel(<, Nat)
  BY WFMin, NatLessThanWellFounded, Zenon
<1>2. \A j \in I : j < i => <<j, i>> \in OpToRel(<, Nat)
  BY DEF OpToRel
<1> QED BY <1>1, <1>2, Zenon

(* Min picks a member of a set of positions: what startQueued comes to first is in its queue. *)
LEMMA MinIsIn ==
    ASSUME NEW I \in SUBSET Nat, I # {}
    PROVE  Min(I) \in I
<1>1. PICK i \in I : \A j \in I : ~(j < i)
  BY LeastOf
<1>2. \A j \in I : i <= j
  BY <1>1
<1> QED BY <1>2 DEF Min

(* The n-th position that is kept is there, for every n up to how many are kept. *)
LEMMA NthKept ==
    ASSUME NEW kept \in SUBSET Nat, IsFiniteSet(kept), NEW n \in 1..Cardinality(kept)
    PROVE  \E i \in kept : Cardinality({j \in kept : j <= i}) = n
<1> DEFINE UpTo(i) == {j \in kept : j <= i}
           Lacking == {m \in 1..Cardinality(kept) : \A i \in kept : Cardinality(UpTo(i)) # m}
<1>0. Cardinality(kept) \in Nat
  BY FS_CardinalityType
<1>1. SUFFICES ASSUME n \in Lacking PROVE FALSE
  OBVIOUS
<1>2. PICK m \in Lacking : \A l \in Lacking : ~(l < m)
  <2>1. Lacking \in SUBSET Nat /\ Lacking # {}
    BY <1>0, <1>1
  <2> HIDE DEF Lacking
  <2> QED BY <2>1, LeastOf
<1>3. m \in 1..Cardinality(kept) /\ (\A i \in kept : Cardinality(UpTo(i)) # m)
      /\ \A l \in 1..Cardinality(kept) : l < m => \E i \in kept : Cardinality(UpTo(i)) = l
  BY <1>2
<1>4. CASE m = 1
  <2>1. kept # {}
    BY <1>0, <1>3, FS_EmptySet
  <2>2. PICK i \in kept : \A j \in kept : ~(j < i)
    BY <2>1, LeastOf
  <2>3. \A j \in kept : j \in Nat /\ (j <= i <=> j = i)
    BY <2>2
  <2>4. UpTo(i) = {i}
    BY <2>3
  <2>5. Cardinality({i}) = 1
    BY FS_Singleton
  <2> QED BY <1>3, <1>4, <2>4, <2>5
<1>5. CASE m # 1
  <2>1. m - 1 \in 1..Cardinality(kept) /\ m - 1 < m
    BY <1>0, <1>3, <1>5
  <2>2. PICK i \in kept : Cardinality(UpTo(i)) = m - 1
    <3> HIDE DEF UpTo
    <3> QED BY <1>3, <2>1
  <2> DEFINE above == {j \in kept : j > i}
  <2>3. ASSUME above = {} PROVE FALSE
    <3>1. \A j \in kept : j \in Nat /\ i \in Nat /\ ~(j > i)
      BY <2>3
    <3>2. \A j \in kept : j <= i
      BY <3>1
    <3>3. UpTo(i) = kept
      BY <3>2
    <3>4. Cardinality(kept) = m - 1
      BY <2>2, <3>3
    <3> QED BY <1>0, <1>3, <3>4
  <2>4. PICK k \in above : \A j \in above : ~(j < k)
    <3>1. above \in SUBSET Nat
      OBVIOUS
    <3> HIDE DEF above
    <3> QED BY <2>3, <3>1, LeastOf
  <2>5. k \in kept /\ k > i /\ ~(k <= i) /\ \A j \in kept : j > i => ~(j < k)
    <3>1. k \in Nat /\ i \in Nat
      OBVIOUS
    <3> QED BY <2>4, <3>1
  <2>6. \A j \in kept : j <= k <=> j <= i \/ j = k
    <3>1. \A j \in kept : j \in Nat /\ k \in Nat /\ i \in Nat
      OBVIOUS
    <3> QED BY <2>5, <3>1
  <2>7. UpTo(k) = UpTo(i) \cup {k} /\ k \notin UpTo(i)
    <3>1. \A j : j \in UpTo(k) <=> j \in kept /\ (j <= i \/ j = k)
      BY <2>6
    <3>2. \A j : j \in UpTo(i) <=> j \in kept /\ j <= i
      OBVIOUS
    <3> HIDE DEF UpTo
    <3> QED BY <2>5, <3>1, <3>2
  <2>8. IsFiniteSet(UpTo(i))
    BY FS_Subset
  <2>9. Cardinality(UpTo(k)) = m
    <3> HIDE DEF UpTo
    <3>1. Cardinality(UpTo(i) \cup {k}) = Cardinality(UpTo(i)) + 1
      BY <2>7, <2>8, FS_AddElement
    <3>2. m \in Nat
      BY <1>0, <1>3
    <3> QED BY <2>2, <2>7, <3>1, <3>2
  <2> QED BY <1>3, <2>5, <2>9
<1> QED BY <1>4, <1>5

(* A queue without some of its tasks is a queue. *)
LEMMA DroppedIsQueue ==
    ASSUME NEW q \in Seq(Task), NEW gone
    PROVE  Dropped(q, gone) \in Seq(Task)
<1> DEFINE kept == {i \in DOMAIN q : q[i] \notin gone}
           Nth(n) == CHOOSE i \in kept : Cardinality({j \in kept : j <= i}) = n
<1>1. kept \in SUBSET Nat /\ IsFiniteSet(kept)
  <2>1. IsFiniteSet(1..Len(q)) /\ kept \subseteq 1..Len(q)
    BY FS_Interval
  <2> QED BY <2>1, FS_Subset
<1>2. Cardinality(kept) \in Nat
  BY <1>1, FS_CardinalityType
<1>3. \A n \in 1..Cardinality(kept) : Nth(n) \in kept
  <2> HIDE DEF kept
  <2>1. TAKE n \in 1..Cardinality(kept)
  <2>2. \E i \in kept : Cardinality({j \in kept : j <= i}) = n
    BY <1>1, NthKept
  <2> QED BY <2>2
<1>4. \A i \in kept : q[i] \in Task
  OBVIOUS
<1>5. Dropped(q, gone) = [n \in 1..Cardinality(kept) |-> q[Nth(n)]]
  BY DEF Dropped
<1> HIDE DEF kept, Nth
<1> QED BY <1>2, <1>3, <1>4, <1>5

(* What a run may turn into: it is held only by a hold, and let go only by its release, a start or a stop. *)
LEMMA RunMoves ==
    ASSUME NEW r \in RunStates, NEW e \in RunEvent
    PROVE  /\ NextRunState(r, e) \in RunStates
           /\ e = "hold" => NextRunState(r, e).kind = "held"
           /\ e \in {"schedule", "stop", "release"} => NextRunState(r, e).kind # "held"
           /\ e \in {"continue", "join", "end finished", "end failed", "reopen"} =>
                (NextRunState(r, e).kind = "held" <=> r.kind = "held")
<1>1. r.kind \in Kind /\ r.from \in HeldFrom \cup {"none"} /\ (r.kind = "held" <=> r.from # "none")
      /\ r = [kind |-> r.kind, from |-> r.from]
  BY DEF RunStates
<1>2. (\A k \in Kind \ {"held"} : Run(k) \in RunStates /\ Run(k).kind = k) /\ \A f \in HeldFrom : Held(f) \in RunStates /\ Held(f).kind = "held"
  BY DEF RunStates, Run, Held, Kind, HeldFrom
<1>3. CASE r.kind = "held"
  <2>1. NextRunState(r, e) = WhenHeld(r.from, e) /\ r.from \in HeldFrom
    BY <1>1, <1>3 DEF NextRunState
  <2>2. HeldFrom \subseteq Kind \ {"held"} /\ "scheduling" \in HeldFrom /\ "idle" \in Kind \ {"held"}
    BY DEF Kind, HeldFrom
  <2> QED BY <1>2, <1>3, <2>1, <2>2 DEF WhenHeld, RunEvent
<1>4. CASE r.kind # "held"
  <2>1. NextRunState(r, e) = WhenFree(r.kind, e) /\ r.kind \in Kind \ {"held"}
    BY <1>1, <1>4 DEF NextRunState
  <2>2. \A k \in Kind \ {"held"} : (IF k = "finished" THEN "idle" ELSE k) \in HeldFrom
    BY DEF Kind, HeldFrom
  <2>3. {"scheduling", "idle", "finished", "endedOnFailure"} \subseteq Kind \ {"held"}
    BY DEF Kind
  <2> QED BY <1>2, <1>4, <2>1, <2>2, <2>3 DEF WhenFree, RunEvent
<1> QED BY <1>3, <1>4
-----------------------------------------------------------------------------
(* What becomes of the attempts. *)

(* The record nothing uses is typed, and names no task. *)
LEMMA UnusedIs == Unused \in AttemptRecord /\ Unused.task = None /\ Unused.at = "over" /\ Unused.runner = "none"
BY DEF Unused, AttemptRecord

(* A step that leaves the attempts alone. *)
LEMMA WorkSame ==
    ASSUME WorkInv, UNCHANGED <<live, attempt>>
    PROVE  WorkInv'
<1>1. WorkTypes' /\ AttemptsRight' /\ SessionInOneProcess'
  BY DEF WorkInv, WorkTypes, AttemptsRight, SessionInOneProcess, HasLive, Current
<1>2. LiveTasks' = LiveTasks
  BY DEF LiveTasks, HasLive
<1> QED BY <1>1, <1>2 DEF WorkInv, SlotsRight, SlotsHold

(* Fewer tasks at work hold fewer slots. *)
LEMMA FewerSlots ==
    ASSUME SlotsRight, LiveTasks' \subseteq LiveTasks
    PROVE  SlotsRight'
<1>1. IsFiniteSet(LiveTasks') /\ Cardinality(LiveTasks') <= Cardinality(LiveTasks)
  BY FS_Subset DEF SlotsRight
<1>2. Cardinality(LiveTasks') \in Nat /\ Cardinality(LiveTasks) \in Nat
  BY <1>1, FS_CardinalityType DEF SlotsRight
<1> QED BY <1>1, <1>2, MaxParallelAssumption DEF SlotsRight, SlotsHold

(* Attempts.start: a record nothing uses becomes the task's attempt, with a slot that was free. *)
LEMMA WorkStarts ==
    ASSUME WorkInv, NEW t \in Task, ~HasLive(t), ~SlotsFull, Free # {},
           NEW gen \in Nat, NEW kind \in {"fresh", "continue"}, StartAttempt(t, gen, kind)
    PROVE  /\ WorkInv'
           /\ \E a \in Attempt : /\ live' = [live EXCEPT ![t] = a]
                                 /\ attempt'[a].at \in Starting /\ attempt'[a].kind = kind
                                 /\ \A u \in Task : live[u] # a
                                 /\ \A b \in Attempt : b # a => attempt'[b] = attempt[b]
<1> DEFINE a == CHOOSE b \in Free : TRUE
           r == [task |-> t, at |-> IF kind = "continue" THEN "winding" ELSE "opening", gen |-> gen,
                 kind |-> kind, runner |-> "none"]
<1>0. a \in Attempt /\ attempt[a] = Unused /\ a # None
  BY NoneAssumption DEF Free
<1>1. live' = [live EXCEPT ![t] = a] /\ attempt' = [attempt EXCEPT ![a] = r]
  BY DEF StartAttempt
<1>2. /\ r \in AttemptRecord /\ r.task = t /\ r.at \in {"winding", "opening"} /\ r.runner = "none" /\ r.kind = kind
      /\ (r.at = "opening" => r.kind = "fresh")
  BY DEF AttemptRecord, Starting
<1> HIDE DEF a, r
<1>3. \A u \in Task : live[u] # a
  BY <1>0, UnusedIs, NoneAssumption DEF WorkInv, AttemptsRight, HasLive
<1>4. WorkTypes'
  BY <1>0, <1>1, <1>2 DEF WorkInv, WorkTypes
<1>5. /\ \A u \in Task : live'[u] = IF u = t THEN a ELSE live[u]
      /\ \A b \in Attempt : attempt'[b] = IF b = a THEN r ELSE attempt[b]
  BY <1>0, <1>1 DEF WorkInv, WorkTypes
<1>6. AttemptsRight'
  <2>1. \A u \in Task : HasLive(u)' => attempt'[live'[u]].task = u /\ attempt'[live'[u]].at # "over"
    BY <1>0, <1>2, <1>3, <1>5 DEF WorkInv, WorkTypes, AttemptsRight, HasLive
  <2>2. ASSUME NEW b \in Attempt
        PROVE  /\ attempt'[b].at \in Starting => attempt'[b].runner = "none"
               /\ attempt'[b].runner = "up" <=> attempt'[b].at = "up"
               /\ attempt'[b].at = "up" => Current(b)'
               /\ attempt'[b].at # "over" => attempt'[b].task # None
    <3>1. CASE b = a
      BY <1>2, <1>5, <3>1, NoneAssumption
    <3>2. CASE b # a
      <4>1. attempt[b].at = "up" => attempt[b].task \in Task /\ live[attempt[b].task] = b /\ attempt[b].task # t
        BY <1>0, NoneAssumption DEF WorkInv, WorkTypes, AttemptsRight, Current, AttemptRecord, HasLive
      <4> QED BY <1>5, <3>2, <4>1, NoneAssumption DEF WorkInv, AttemptsRight, Current
    <3> QED BY <3>1, <3>2
  <2> QED BY <2>1, <2>2 DEF AttemptsRight
<1>7. SessionInOneProcess'
  <2> SUFFICES ASSUME NEW b \in Attempt, NEW c \in Attempt, Current(b)', attempt'[b].kind = "continue",
                      attempt'[b].at \in {"opening", "spawning", "up"}, b # c, attempt'[b].task = attempt'[c].task
               PROVE  attempt'[c].runner = "none"
    BY DEF SessionInOneProcess
  <2>1. b # a
    BY <1>2, <1>5
  <2>2. attempt[b].task # t /\ Current(b) /\ attempt'[b] = attempt[b]
    BY <1>0, <1>5, <2>1, NoneAssumption DEF WorkInv, WorkTypes, AttemptsRight, Current, AttemptRecord
  <2>3. c # a
    BY <1>2, <1>5, <2>2
  <2> QED BY <1>5, <2>2, <2>3 DEF WorkInv, SessionInOneProcess
<1>8. SlotsRight'
  <2>1. LiveTasks' = LiveTasks \cup {t}
    BY <1>0, <1>5 DEF LiveTasks, HasLive
  <2>2. IsFiniteSet(LiveTasks') /\ Cardinality(LiveTasks') = Cardinality(LiveTasks) + 1
    BY <2>1, FS_AddElement DEF LiveTasks, WorkInv, SlotsRight
  <2>3. Cardinality(LiveTasks) \in Nat /\ MaxParallel \in Nat
    BY FS_CardinalityType, MaxParallelAssumption DEF WorkInv, SlotsRight
  <2> QED BY <2>2, <2>3 DEF SlotsRight, SlotsHold, SlotsFull
<1>9. attempt'[a].at \in Starting /\ attempt'[a].kind = kind
  BY <1>0, <1>2, <1>5 DEF Starting
<1>10. \A b \in Attempt : b # a => attempt'[b] = attempt[b]
  BY <1>5
<1>11. WorkInv'
  BY <1>4, <1>6, <1>7, <1>8 DEF WorkInv
<1> QED BY <1>0, <1>1, <1>3, <1>9, <1>10, <1>11

(* A step of one attempt that leaves its task its attempt, or forgets one that is no task's. *)
LEMMA WorkMoves ==
    ASSUME WorkInv, NEW a \in Attempt, NEW r \in AttemptRecord,
           live' = live, attempt' = [attempt EXCEPT ![a] = r],
           r.task = attempt[a].task \/ r = Unused,
           Current(a) => r.task = attempt[a].task /\ r.at # "over",
           r.at \in Starting => r.runner = "none",
           r.runner = "up" <=> r.at = "up",
           r.at = "up" => Current(a),
           r.at # "over" => r.task # None,
           r.runner # "none" => Current(a) \/ attempt[a].runner # "none",
           Current(a) /\ r.kind = "continue" /\ r.at \in {"opening", "spawning", "up"} =>
               \A b \in Attempt : b # a /\ attempt[b].task = attempt[a].task => attempt[b].runner = "none"
    PROVE  WorkInv'
<1>1. WorkTypes'
  BY DEF WorkInv, WorkTypes
<1>2. \A b \in Attempt : attempt'[b] = IF b = a THEN r ELSE attempt[b]
  BY DEF WorkInv, WorkTypes
<1>3. \A u \in Task : live[u] = a => attempt[a].task = u /\ Current(a)
  BY NoneAssumption DEF WorkInv, AttemptsRight, Current, HasLive
<1>4. AttemptsRight'
  <2>1. \A u \in Task : HasLive(u)' => attempt'[live'[u]].task = u /\ attempt'[live'[u]].at # "over"
    BY <1>2, <1>3 DEF WorkInv, WorkTypes, AttemptsRight, HasLive
  <2>2. ASSUME NEW b \in Attempt
        PROVE  /\ attempt'[b].at \in Starting => attempt'[b].runner = "none"
               /\ attempt'[b].runner = "up" <=> attempt'[b].at = "up"
               /\ attempt'[b].at = "up" => Current(b)'
               /\ attempt'[b].at # "over" => attempt'[b].task # None
    BY <1>2 DEF WorkInv, AttemptsRight, Current
  <2> QED BY <2>1, <2>2 DEF AttemptsRight
<1>5. SessionInOneProcess'
  <2> SUFFICES ASSUME NEW b \in Attempt, NEW c \in Attempt, Current(b)', attempt'[b].kind = "continue",
                      attempt'[b].at \in {"opening", "spawning", "up"}, b # c, attempt'[b].task = attempt'[c].task
               PROVE  attempt'[c].runner = "none"
    BY DEF SessionInOneProcess
  <2>0. attempt'[b].task # None /\ live[attempt'[b].task] = b
    BY DEF Current
  <2>1. CASE b = a
    <3>1. r.task # None /\ r.task = attempt[a].task /\ Current(a)
      BY <1>2, <2>0, <2>1, UnusedIs DEF Current
    <3> QED BY <1>2, <2>1, <3>1
  <2>2. CASE b # a /\ c = a
    <3>1. r.task = attempt[a].task /\ Current(b) /\ ~Current(a)
      BY <1>2, <2>0, <2>2, UnusedIs DEF Current
    <3>2. attempt[a].runner = "none"
      BY <1>2, <2>2, <3>1 DEF WorkInv, SessionInOneProcess
    <3>3. r.runner = "none"
      BY <3>1, <3>2
    <3> QED BY <1>2, <2>2, <3>3
  <2>3. CASE b # a /\ c # a
    BY <1>2, <2>0, <2>3 DEF WorkInv, SessionInOneProcess, Current
  <2> QED BY <2>1, <2>2, <2>3
<1>6. LiveTasks' = LiveTasks
  BY DEF LiveTasks, HasLive
<1> QED BY <1>1, <1>4, <1>5, <1>6, FewerSlots DEF WorkInv

(* A task's attempt is ended: the record goes from its task, and a runner of it is no longer up. *)
LEMMA WorkOver ==
    ASSUME WorkInv, NEW t \in Task, HasLive(t), NEW r \in AttemptRecord,
           live' = [live EXCEPT ![t] = None], attempt' = [attempt EXCEPT ![live[t]] = r],
           r.task = t \/ r = Unused,
           r.at \in Starting => r.runner = "none",
           r.runner # "up", r.at # "up", r.at # "over" => r.task # None
    PROVE  WorkInv'
<1> DEFINE a == live[t]
<1>0. a \in Attempt /\ attempt[a].task = t
  BY DEF WorkInv, WorkTypes, AttemptsRight, HasLive
<1>1. WorkTypes'
  BY <1>0 DEF WorkInv, WorkTypes
<1>2. /\ \A b \in Attempt : attempt'[b] = IF b = a THEN r ELSE attempt[b]
      /\ \A u \in Task : live'[u] = IF u = t THEN None ELSE live[u]
  BY DEF WorkInv, WorkTypes
<1> HIDE DEF a
<1>3. \A u \in Task : u # t => live[u] # a
  BY <1>0, NoneAssumption DEF WorkInv, AttemptsRight, HasLive
<1>4. AttemptsRight'
  <2>1. \A u \in Task : HasLive(u)' => attempt'[live'[u]].task = u /\ attempt'[live'[u]].at # "over"
    BY <1>2, <1>3 DEF WorkInv, WorkTypes, AttemptsRight, HasLive
  <2>2. ASSUME NEW b \in Attempt
        PROVE  /\ attempt'[b].at \in Starting => attempt'[b].runner = "none"
               /\ attempt'[b].runner = "up" <=> attempt'[b].at = "up"
               /\ attempt'[b].at = "up" => Current(b)'
               /\ attempt'[b].at # "over" => attempt'[b].task # None
    <3>1. CASE b = a
      BY <1>2, <3>1
    <3>2. CASE b # a
      <4>1. attempt[b].at = "up" => attempt[b].task \in Task /\ attempt[b].task # t
        BY <3>2 DEF a, WorkInv, WorkTypes, AttemptsRight, Current, AttemptRecord
      <4> QED BY <1>2, <3>2, <4>1 DEF WorkInv, AttemptsRight, Current
    <3> QED BY <3>1, <3>2
  <2> QED BY <2>1, <2>2 DEF AttemptsRight
<1>5. SessionInOneProcess'
  <2> SUFFICES ASSUME NEW b \in Attempt, NEW c \in Attempt, Current(b)', attempt'[b].kind = "continue",
                      attempt'[b].at \in {"opening", "spawning", "up"}, b # c, attempt'[b].task = attempt'[c].task
               PROVE  attempt'[c].runner = "none"
    BY DEF SessionInOneProcess
  <2>1. attempt'[b].task \in Task /\ live'[attempt'[b].task] = b /\ b # None
    BY <1>1, NoneAssumption DEF Current, WorkTypes, AttemptRecord
  <2>2. attempt'[b].task # t /\ b # a
    BY <1>2, <1>3, <2>1
  <2>3. attempt'[b] = attempt[b] /\ Current(b)
    BY <1>2, <2>1, <2>2 DEF Current
  <2>4. c # a
    BY <1>2, <2>1, <2>2, UnusedIs, NoneAssumption
  <2> QED BY <1>2, <2>3, <2>4 DEF WorkInv, SessionInOneProcess
<1>6. LiveTasks' \subseteq LiveTasks
  BY <1>2 DEF LiveTasks, HasLive
<1> QED BY <1>1, <1>4, <1>5, <1>6, FewerSlots DEF WorkInv
-----------------------------------------------------------------------------
(* What steps are made of. *)

\* What a step leaves waiting: W, and the starts a pass over the queue made.
Leaves(W) ==
    \E S \in SUBSET Task :
        /\ waits' = W \cup {Await("queuedforce", t, stops') : t \in S}
        /\ \A t \in S : ~HasLive(t)' /\ status'[t] \notin Done /\ t \notin completing'

(* A step that makes no pass leaves what it says. *)
LEMMA LeavesThem ==
    ASSUME NEW W, waits' = W
    PROVE  Leaves(W)
<1>1. {} \in SUBSET Task /\ waits' = W \cup {Await("queuedforce", t, stops') : t \in {}}
  OBVIOUS
<1> QED BY <1>1 DEF Leaves

(* A pass over the queue leaves a queue, a loop to go on with, and at most the one start it makes. *)
LEMMA PassMakes ==
    ASSUME NEW left \in Seq(Task), NEW q \in Seq(Task), NEW W \in SUBSET WaitRecord, NEW gen \in Nat,
           NEW after \in {"tick", "verdict"}, NEW others \in SUBSET TickRecord, stops' \in Nat,
           QueuePass(left, q, W, gen, after, others)
    PROVE  /\ queued' \in Seq(Task) /\ ticks' \in SUBSET TickRecord /\ waits' \in SUBSET WaitRecord
           /\ Leaves(W)
<1> DEFINE drops  == {t \in Task : Withdrawn(t)'}
           keeps  == {t \in Task : Unstartable(t)'} \cup {t \in ToSet(q) : ForcedBehind(t)' # {}}
           leaves == {t \in Task : LeftToScheduler(t)'}
           starts == {i \in DOMAIN left : left[i] \notin drops \cup keeps \cup leaves}
           first  == IF starts = {} THEN Len(left) + 1 ELSE Min(starts)
           gone   == {left[i] : i \in {j \in DOMAIN left : j = first \/ (j < first /\ left[j] \in drops \cup (leaves \ keeps))}}
           start  == IF starts = {} THEN {} ELSE {left[first]}
<1>1. /\ queued' = Dropped(q, gone)
      /\ ticks' = others \cup
             {[gen |-> gen, left |-> SubSeq(left, first + 1, Len(left)),
               on |-> IF start = {} THEN None ELSE left[first], after |-> after]}
      /\ waits' = W \cup {Await("queuedforce", t, stops') : t \in start}
  BY DEF QueuePass
<1>2. starts \in SUBSET Nat /\ starts \subseteq DOMAIN left
  OBVIOUS
<1>3. starts # {} => first \in starts
  <2> HIDE DEF starts
  <2> QED BY <1>2, MinIsIn
<1>4. first \in Nat /\ (starts # {} => first \in DOMAIN left /\ left[first] \in Task)
  BY <1>2, <1>3
<1>5. \A t \in start : t \in Task /\ ~Withdrawn(t)' /\ ~Unstartable(t)'
  BY <1>3, <1>4
<1>6. \A t \in start : t \in Task /\ ~HasLive(t)' /\ status'[t] \notin Done /\ t \notin completing'
  BY <1>5 DEF Withdrawn, Unstartable
<1>7. SubSeq(left, first + 1, Len(left)) \in Seq(Task)
  <2> HIDE DEF first
  <2>1. first + 1 \in Int /\ Len(left) \in Int /\ \A i \in (first + 1)..Len(left) : left[i] \in Task
    BY <1>4
  <2> QED BY <2>1, SubSeqProperties
<1>8. (start = {} => starts = {}) /\ (IF start = {} THEN None ELSE left[first]) \in Task \cup {None}
  BY <1>4
<1>9. [gen |-> gen, left |-> SubSeq(left, first + 1, Len(left)),
       on |-> IF start = {} THEN None ELSE left[first], after |-> after] \in TickRecord
  <2> HIDE DEF first, start
  <2> QED BY <1>7, <1>8 DEF TickRecord
<1>10. \A t \in Task : Await("queuedforce", t, stops') \in WaitRecord
  BY DEF Await, WaitRecord, Awaited
<1> HIDE DEF gone, start, first
<1>11. queued' \in Seq(Task)
  BY <1>1, DroppedIsQueue
<1>12. start \in SUBSET Task /\ waits' \in SUBSET WaitRecord
  BY <1>1, <1>6, <1>10
<1>13. Leaves(W)
  BY <1>1, <1>6, <1>12 DEF Leaves
<1> QED BY <1>1, <1>9, <1>11, <1>12, <1>13

(* A tick besides takes back what reads as in progress with nothing at work. *)
LEMMA TickMakes ==
    ASSUME NEW s \in [Task -> Status], NEW q \in Seq(Task), NEW W \in SUBSET WaitRecord, RestTypes, stops' \in Nat,
           Tick(s, q, W)
    PROVE  /\ queued' \in Seq(Task) /\ ticks' \in SUBSET TickRecord /\ waits' \in SUBSET WaitRecord
           /\ Leaves(W)
           /\ status' \in [Task -> Status]
           /\ \A t \in Task : status'[t] = IF s[t] = "in_progress" /\ live'[t] = None /\ t \notin completing'
                                           THEN "pending" ELSE s[t]
<1>1. QueuePass(q, q, W, stops', "tick", ticks) /\ ticks \in SUBSET TickRecord
  BY DEF Tick, RestTypes
<1>2. /\ queued' \in Seq(Task) /\ ticks' \in SUBSET TickRecord /\ waits' \in SUBSET WaitRecord
      /\ Leaves(W)
  BY <1>1, PassMakes
<1>3. status' = [t \in Task |-> IF s[t] = "in_progress" /\ live'[t] = None /\ t \notin completing' THEN "pending" ELSE s[t]]
  BY DEF Tick, Recovered
<1> QED BY <1>2, <1>3 DEF Status

(* What is left waiting is right when what is kept of it is. *)
LEMMA WaitsAfter ==
    ASSUME NEW W, Leaves(W), OneLands(W), \A w \in W : WaitRight(w)'
    PROVE  WaitsRight'
<1>1. PICK S \in SUBSET Task :
        /\ waits' = W \cup {Await("queuedforce", t, stops') : t \in S}
        /\ \A t \in S : ~HasLive(t)' /\ status'[t] \notin Done /\ t \notin completing'
  BY DEF Leaves
<1>2. \A t \in S : LET w == Await("queuedforce", t, stops') IN w.do = "queuedforce" /\ w.task = t
  BY DEF Await
<1>3. \A w \in waits' \ W : w.do = "queuedforce" /\ w.task \in S
  BY <1>1, <1>2
<1>4. \A w \in waits' \ W : WaitRight(w)'
  BY <1>1, <1>3 DEF WaitRight, Forces, Done
<1>5. OneLands(waits')
  BY <1>3 DEF OneLands
<1> QED BY <1>4, <1>5 DEF WaitsRight

\* A start of t waits for its run to open, and goes on whatever became of the run's own start of t.
Forced(t) == \E w \in waits : w.do \in Forces /\ w.task = t

\* No landing begins, no task forced is completed, and no attempt of one goes past its runner's being up.
Mild ==
    /\ completing' = completing
    /\ \A t \in Task : Forced(t) =>
        /\ status'[t] = "completed" => status[t] = "completed"
        /\ HasLive(t)' => \/ attempt'[live'[t]].at \in Starting \cup {"up"}
                          \/ HasLive(t) /\ attempt'[live'[t]].at = attempt[live[t]].at

(* After such a step every wait is as right as it was. *)
LEMMA MildWaits ==
    ASSUME WaitsRight, Mild
    PROVE  \A w \in waits : WaitRight(w)'
<1> SUFFICES ASSUME NEW w \in waits PROVE WaitRight(w)'
  OBVIOUS
<1>1. WaitRight(w)
  BY DEF WaitsRight
<1>2. w.do \in Forces => w.task \in Task /\ Forced(w.task)
  BY <1>1 DEF WaitRight, Forces, Forced
<1> QED BY <1>1, <1>2 DEF WaitRight, Mild, Forces

(* The same of the waits a mild step keeps and the plain ones it adds. *)
LEMMA MildLeaves ==
    ASSUME WaitsRight, Mild, NEW W,
           \A w \in W : w \in waits \/ (w.do \notin Forces \cup {"completed"} /\ (w.do \notin {"letgo", "verdict"} => w.task \in Task)),
           Leaves(W)
    PROVE  WaitsRight'
<1>1. \A w \in W : WaitRight(w)'
  BY MildWaits DEF WaitRight
<1>2. OneLands(W)
  BY DEF WaitsRight, OneLands
<1> QED BY <1>1, <1>2, WaitsAfter

(* LimitPauses.releaseHold: the hold goes with the last wait. *)
LEMMA HoldGoes ==
    ASSUME NEW r \in RunStates, NEW left
    PROVE  /\ RunHolding(r, left) \in RunStates
           /\ RunHolding(r, left).kind = "held" <=> r.kind = "held" /\ left # {}
BY RunMoves DEF RunHolding, RunEvent

(* LimitPauses.cancel: one wait less, and the hold with the last. *)
LEMMA CancelKeeps ==
    ASSUME RestTypes, LimitsRight, NEW t \in Task, CancelResume(t)
    PROVE  /\ run' \in RunStates /\ resumes' \in SUBSET Task /\ armed' \in BOOLEAN
           /\ resumes' = resumes \ {t}
           /\ HeldRun' <=> resumes' # {}
           /\ armed /\ resumes' # {} => armed'
<1>1. HeldRun <=> resumes # {}
  BY DEF LimitsRight
<1>2. CASE t \in resumes
  <2>1. resumes' = resumes \ {t} /\ armed' = (armed /\ resumes' # {}) /\ run' = RunHolding(run, resumes')
    BY <1>2 DEF CancelResume
  <2> QED BY <1>1, <1>2, <2>1, HoldGoes DEF RestTypes, HeldRun
<1>3. CASE t \notin resumes
  BY <1>1, <1>3 DEF CancelResume, runVars, RestTypes, HeldRun
<1> QED BY <1>2, <1>3

(* The waits on a reset are right when the resumes they have left are still there. *)
LEMMA LimitsStay ==
    ASSUME LimitsRight, resumes' \subseteq resumes, HeldRun' <=> resumes' # {},
           armed /\ resumes' # {} => armed', stops' = stops,
           NEW W, Leaves(W),
           \A t \in resumes' : status'[t] = "limited" /\ (Await("resume", t, stops) \in waits => Await("resume", t, stops) \in W)
    PROVE  LimitsRight'
<1>1. W \subseteq waits'
  BY DEF Leaves
<1> QED BY <1>1 DEF LimitsRight, HeldRun

(* What holds of a task's attempt, in any state of the run. *)
LEMMA CurrentIs ==
    ASSUME SchedInv, NEW a \in Attempt, Current(a)
    PROVE  LET t == attempt[a].task
           IN  /\ t \in Task /\ live[t] = a /\ HasLive(t) /\ attempt[a].at # "over"
               /\ status[t] \in {"in_progress", "asking"} /\ t \notin completing /\ t \notin resumes
<1>1. attempt[a].task \in Task /\ live[attempt[a].task] = a /\ HasLive(attempt[a].task)
  BY NoneAssumption DEF SchedInv, WorkInv, WorkTypes, AttemptRecord, Current, HasLive
<1> QED BY <1>1 DEF SchedInv, WorkInv, AttemptsRight, TasksRight, StatusTellsTheTruth, LandsAlone, LimitsRight
-----------------------------------------------------------------------------
(* The steps of one attempt. *)

\* A step leaves alone all that is not the attempts, the statuses, the run and what waits.
restVars == <<onHold, queued, completing, planning, stops, ticks, inputs, stopped>>

(* Statuses, where the step changes neither them nor which tasks are at work. *)
LEMMA TasksStay ==
    ASSUME SchedInv, UNCHANGED <<status, live, completing>>
    PROVE  TasksRight'
BY DEF SchedInv, TasksRight, StatusTellsTheTruth, LandsAlone, HasLive

(* A step of one attempt alone. *)
LEMMA AttemptAlone ==
    ASSUME SchedInv, WorkInv', UNCHANGED <<runVars, restVars, status, live, waits>>, Mild
    PROVE  SchedInv'
<1> USE DEF SchedInv
<1>1. RestTypes'
  BY DEF RestTypes, runVars, restVars
<1>2. TasksRight'
  BY TasksStay DEF restVars
<1>3. LimitsRight'
  BY DEF LimitsRight, runVars, restVars, HeldRun
<1>4. Leaves(waits)
  BY LeavesThem
<1>5. WaitsRight'
  BY <1>4, MildLeaves
<1> QED BY <1>1, <1>2, <1>3, <1>5

(* Abandoning a spawn whose attempt was ended takes nothing back: whatever ended it has set the status. *)
LEMMA AbandonKeeps ==
    ASSUME SchedInv, NEW a \in Attempt, ~Current(a), attempt[a].at # "over", live' = live, Abandon(a)
    PROVE  /\ WorkInv' /\ status' = status
           /\ \A b \in Attempt : b # a => attempt'[b] = attempt[b]
           /\ \A t \in Task : live[t] # a
<1> USE DEF SchedInv
<1>1. attempt' = [attempt EXCEPT ![a] = Unused]
  BY DEF Abandon
<1>2. attempt[a].task \in Task
  BY DEF WorkInv, WorkTypes, AttemptsRight, AttemptRecord
<1>3. status' = status
  BY <1>2 DEF Abandon, TasksRight, StatusTellsTheTruth
<1>4. WorkInv'
  BY <1>1, UnusedIs, WorkMoves DEF Starting
<1>5. \A t \in Task : live[t] # a
  BY NoneAssumption DEF Current, WorkInv, AttemptsRight, HasLive
<1> QED BY <1>1, <1>3, <1>4, <1>5 DEF WorkInv, WorkTypes

(* A continue that is let go on has its session to itself. *)
LEMMA WoundDownKeeps ==
    ASSUME SchedInv, NEW a \in Attempt, WoundDown(a)
    PROVE  SchedInv'
<1> DEFINE r == [attempt[a] EXCEPT !.at = "opening"]
<1> USE DEF SchedInv
<1>1. attempt[a] \in AttemptRecord /\ attempt[a].at = "winding" /\ attempt[a].runner = "none" /\ attempt[a].task # None
  BY DEF WoundDown, WorkInv, WorkTypes, AttemptsRight, Starting
<1>2. r \in AttemptRecord /\ r.task = attempt[a].task /\ r.kind = attempt[a].kind /\ r.at = "opening" /\ r.runner = "none"
  BY <1>1 DEF AttemptRecord, Starting
<1>3. attempt' = [attempt EXCEPT ![a] = r] /\ UNCHANGED <<runVars, restVars, status, live, waits>>
  BY DEF WoundDown, restVars
<1>4. ASSUME Current(a), NEW b \in Attempt, b # a, attempt[b].task = attempt[a].task
      PROVE  attempt[b].runner = "none"
  <2>1. attempt[b].runner # "stopping"
    BY <1>4 DEF WoundDown
  <2>2. attempt[b].runner # "up"
    BY <1>4 DEF WorkInv, AttemptsRight, Current
  <2> QED BY <2>1, <2>2 DEF WorkInv, WorkTypes, AttemptRecord
<1> HIDE DEF r
<1>5. WorkInv'
  BY <1>1, <1>2, <1>3, <1>4, WorkMoves
<1>6. Mild
  BY <1>2, <1>3 DEF Mild, restVars, WorkInv, WorkTypes, HasLive, Starting
<1> QED BY <1>3, <1>5, <1>6, AttemptAlone

(* The lease is open, or the runner is up: of an attempt that is its task's still, or nothing is left of it. *)
LEMMA SpawnGoesOnKeeps ==
    ASSUME SchedInv, NEW a \in Attempt, Opened(a) \/ Spawned(a)
    PROVE  SchedInv'
<1> USE DEF SchedInv
<1>1. attempt[a] \in AttemptRecord /\ attempt[a].at \in {"opening", "spawning"} /\ attempt[a].runner = "none" /\ attempt[a].task # None
  BY DEF Opened, Spawned, WorkInv, WorkTypes, AttemptsRight, Starting
<1>2. UNCHANGED <<runVars, restVars, live, waits>>
  BY DEF Opened, Spawned, restVars
<1>3. CASE ~Current(a)
  <2>1. Abandon(a) /\ live' = live
    BY <1>2, <1>3 DEF Opened, Spawned
  <2>2. /\ WorkInv' /\ status' = status
        /\ \A b \in Attempt : b # a => attempt'[b] = attempt[b]
        /\ \A t \in Task : live[t] # a
    BY <1>1, <1>3, <2>1, AbandonKeeps
  <2>3. Mild
    BY <1>2, <2>2 DEF Mild, restVars, WorkInv, WorkTypes, HasLive
  <2> QED BY <1>2, <2>2, <2>3, AttemptAlone
<1>4. CASE Current(a)
  <2>1. PICK at \in {"spawning", "up"}, runner \in {"none", "up"} :
            /\ (runner = "up" <=> at = "up")
            /\ attempt' = [attempt EXCEPT ![a] = [attempt[a] EXCEPT !.at = at, !.runner = runner]]
    <3>1. CASE Opened(a)
      <4>1. attempt' = [attempt EXCEPT ![a].at = "spawning"]
        BY <1>4, <3>1 DEF Opened
      <4>2. attempt' = [attempt EXCEPT ![a] = [attempt[a] EXCEPT !.at = "spawning", !.runner = "none"]]
        BY <1>1, <4>1 DEF WorkInv, WorkTypes, AttemptRecord
      <4> QED BY <4>2
    <3>2. CASE Spawned(a)
      <4>1. attempt' = [attempt EXCEPT ![a].at = "up", ![a].runner = "up"]
        BY <1>4, <3>2 DEF Spawned
      <4> QED BY <4>1
    <3> QED BY <3>1, <3>2
  <2> DEFINE r == [attempt[a] EXCEPT !.at = at, !.runner = runner]
  <2>2. r \in AttemptRecord /\ r.task = attempt[a].task /\ r.kind = attempt[a].kind /\ r.at = at /\ r.runner = runner
    BY <1>1 DEF AttemptRecord, Starting
  <2>3. attempt' = [attempt EXCEPT ![a] = r] /\ status' = status
    BY <1>4, <2>1 DEF Opened, Spawned
  <2>4. attempt[a].kind = "continue" => \A b \in Attempt : b # a /\ attempt[b].task = attempt[a].task => attempt[b].runner = "none"
    BY <1>1, <1>4 DEF WorkInv, SessionInOneProcess
  <2> HIDE DEF r
  <2>5. WorkInv'
    <3>1. /\ live' = live /\ r.task # None /\ r.at # "over"
          /\ r.at \in Starting => r.runner = "none"
          /\ r.runner = "up" <=> r.at = "up"
      BY <1>1, <1>2, <2>1, <2>2 DEF Starting
    <3>2. r.kind = "continue" => \A b \in Attempt : b # a /\ attempt[b].task = attempt[a].task => attempt[b].runner = "none"
      BY <2>2, <2>4
    <3> QED BY <1>4, <2>2, <2>3, <3>1, <3>2, WorkMoves
  <2>6. Mild
    BY <1>2, <2>2, <2>3 DEF Mild, restVars, WorkInv, WorkTypes, HasLive, Starting
  <2> QED BY <1>2, <2>3, <2>5, <2>6, AttemptAlone
<1> QED BY <1>3, <1>4

(* A runner that was let go has gone. *)
LEMMA RunnerGoneKeeps ==
    ASSUME SchedInv, NEW a \in Attempt, RunnerGone(a)
    PROVE  SchedInv'
<1> DEFINE r == IF attempt[a].at = "over" THEN Unused ELSE [attempt[a] EXCEPT !.runner = "none"]
<1> USE DEF SchedInv
<1>1. attempt[a] \in AttemptRecord /\ attempt[a].runner = "stopping" /\ attempt[a].at # "up"
      /\ (attempt[a].at # "over" => attempt[a].task # None)
      /\ (Current(a) => attempt[a].at # "over")
  BY CurrentIs DEF RunnerGone, WorkInv, WorkTypes, AttemptsRight
<1>2. /\ r \in AttemptRecord /\ r.at = attempt[a].at /\ r.runner = "none"
      /\ (attempt[a].at # "over" => r.task = attempt[a].task /\ r.kind = attempt[a].kind)
      /\ (attempt[a].at = "over" => r = Unused)
  BY <1>1, UnusedIs DEF AttemptRecord
<1>3. attempt' = [attempt EXCEPT ![a] = r] /\ UNCHANGED <<runVars, restVars, status, live, waits>>
  BY DEF RunnerGone, restVars
<1>4. Current(a) /\ attempt[a].kind = "continue" /\ attempt[a].at \in {"opening", "spawning", "up"}
        => \A b \in Attempt : b # a /\ attempt[b].task = attempt[a].task => attempt[b].runner = "none"
  BY <1>1 DEF WorkInv, SessionInOneProcess
<1> HIDE DEF r
<1>5. WorkInv'
  BY <1>1, <1>2, <1>3, <1>4, WorkMoves DEF Starting
<1>6. Mild
  BY <1>2, <1>3 DEF Mild, restVars, WorkInv, WorkTypes, HasLive, Starting
<1> QED BY <1>3, <1>5, <1>6, AttemptAlone

(* A verdict lets its runner go while no start is on its way in. *)
LEMMA VerdictKeeps ==
    ASSUME SchedInv, NEW a \in Attempt, Verdict(a)
    PROVE  SchedInv'
<1> DEFINE r == [attempt[a] EXCEPT !.at = "deciding", !.runner = "stopping"]
<1> USE DEF SchedInv
<1>1. attempt[a] \in AttemptRecord /\ Current(a) /\ attempt[a].task # None
  BY DEF Verdict, WorkInv, WorkTypes, Current
<1>2. r \in AttemptRecord /\ r.task = attempt[a].task /\ r.at = "deciding" /\ r.runner = "stopping"
  BY <1>1 DEF AttemptRecord
<1>3. attempt' = [attempt EXCEPT ![a] = r] /\ UNCHANGED <<runVars, restVars, status, live, waits>>
  BY DEF Verdict, restVars
<1> HIDE DEF r
<1>4. WorkInv'
  BY <1>1, <1>2, <1>3, WorkMoves DEF Starting
<1>5. Mild
  BY <1>3 DEF Mild, Verdict, Openings, Forced, Forces, restVars
<1> QED BY <1>3, <1>4, <1>5, AttemptAlone
(* Nothing that a start waits for is past its runner's being up. *)
LEMMA PastItsSpawn ==
    ASSUME SchedInv, NEW a \in Attempt, Current(a), attempt[a].at \in {"deciding", "landing"}
    PROVE  ~Forced(attempt[a].task)
<1>1. live[attempt[a].task] = a /\ HasLive(attempt[a].task)
  BY CurrentIs
<1> QED BY <1>1 DEF SchedInv, WaitsRight, WaitRight, Forced, Starting

(* What is left of an attempt that has nothing left to do. *)
LEMMA OverIs ==
    ASSUME SchedInv, NEW a \in Attempt, attempt[a].runner # "up"
    PROVE  LET r == Over(a)
           IN  /\ r \in AttemptRecord /\ (r.task = attempt[a].task \/ r = Unused) /\ r.at = "over" /\ r.runner # "up"
               /\ r.runner # "none" => attempt[a].runner # "none"
<1>1. attempt[a] \in AttemptRecord
  BY DEF SchedInv, WorkInv, WorkTypes
<1>2. CASE attempt[a].runner = "none"
  BY <1>2, UnusedIs DEF Over
<1>3. CASE attempt[a].runner # "none"
  <2>1. Over(a) = [attempt[a] EXCEPT !.at = "over"]
    BY <1>3 DEF Over
  <2> QED BY <1>1, <1>3, <2>1 DEF AttemptRecord
<1> QED BY <1>2, <1>3

(* An attempt is over and its task has the status that says so. *)
LEMMA AttemptOver ==
    ASSUME SchedInv, NEW a \in Attempt, Current(a), NEW x \in Status \ {"in_progress", "asking"}, NEW r \in AttemptRecord,
           r.task = attempt[a].task \/ r = Unused, r.at = "over", r.runner # "up",
           live' = [live EXCEPT ![attempt[a].task] = None], attempt' = [attempt EXCEPT ![a] = r],
           status' = [status EXCEPT ![attempt[a].task] = x], completing' = completing,
           x = "completed" => ~Forced(attempt[a].task)
    PROVE  WorkInv' /\ TasksRight' /\ Mild
<1> DEFINE t == attempt[a].task
<1> USE DEF SchedInv
<1>1. t \in Task /\ live[t] = a /\ HasLive(t) /\ t \notin completing
  BY CurrentIs
<1>2. WorkInv'
  BY <1>1, WorkOver DEF Starting
<1>3. /\ \A u \in Task : live'[u] = IF u = t THEN None ELSE live[u]
      /\ \A u \in Task : status'[u] = IF u = t THEN x ELSE status[u]
      /\ status' \in [Task -> Status]
      /\ \A b \in Attempt : b # a => attempt'[b] = attempt[b]
      /\ \A u \in Task : u # t => live[u] # a
  BY <1>1, NoneAssumption DEF WorkInv, WorkTypes, TasksRight, AttemptsRight, HasLive
<1> HIDE DEF t
<1>4. TasksRight'
  BY <1>1, <1>3 DEF TasksRight, StatusTellsTheTruth, LandsAlone, HasLive
<1>5. Mild
  BY <1>1, <1>3 DEF t, Mild, WorkInv, WorkTypes, HasLive
<1> QED BY <1>2, <1>4, <1>5

(* LimitPauses.pause: a task that hit its limit waits for the reset, if there is one. *)
LEMMA PauseKeeps ==
    ASSUME SchedInv, NEW t \in Task, t \notin resumes, NEW reset, Pause(t, reset), waits \subseteq waits', stops' = stops
    PROVE  /\ run' \in RunStates /\ resumes' \in SUBSET Task /\ armed' \in BOOLEAN
           /\ status' = [status EXCEPT ![t] = "limited"]
           /\ LimitsRight'
<1> USE DEF SchedInv
<1>1. status' = [status EXCEPT ![t] = "limited"] /\ \A u \in Task : status'[u] = IF u = t THEN "limited" ELSE status[u]
  BY DEF Pause, TasksRight
<1>2. CASE reset
  <2>1. resumes' = resumes \cup {t} /\ armed' = TRUE /\ run' = NextRunState(run, "hold")
    BY <1>2 DEF Pause
  <2>2. run' \in RunStates /\ run'.kind = "held"
    BY <2>1, RunMoves DEF RestTypes, RunEvent
  <2> QED BY <1>1, <2>1, <2>2 DEF RestTypes, LimitsRight, HeldRun
<1>3. CASE ~reset
  <2>1. UNCHANGED <<run, resumes, armed>>
    BY <1>3 DEF Pause, runVars
  <2> QED BY <1>1, <2>1 DEF RestTypes, LimitsRight, HeldRun
<1> QED BY <1>2, <1>3

(* A start that fails ends its attempt, or was abandoned with it. *)
LEMMA SpawnFailsKeeps ==
    ASSUME SchedInv, NEW a \in Attempt, NEW how \in {"failed", "held", "limited", "limited, with a reset"},
           SpawnFails(a, how)
    PROVE  SchedInv'
<1> DEFINE t == attempt[a].task
           more == Await(IF how \in {"failed", "held"} THEN "letgo" ELSE "verdict", None, 0)
<1> USE DEF SchedInv
<1>1. attempt[a].at \in {"opening", "spawning"} /\ UNCHANGED <<queued, completing, planning, stops, ticks, inputs, stopped>>
  BY DEF SpawnFails
<1>2. CASE ~Current(a)
  <2>1. Abandon(a) /\ UNCHANGED <<runVars, live, onHold, waits>>
    BY <1>2 DEF SpawnFails
  <2>2. /\ WorkInv' /\ status' = status
        /\ \A b \in Attempt : b # a => attempt'[b] = attempt[b]
        /\ \A u \in Task : live[u] # a
    BY <1>1, <1>2, <2>1, AbandonKeeps
  <2>3. Mild
    BY <1>1, <2>1, <2>2 DEF Mild, WorkInv, WorkTypes, HasLive
  <2> QED BY <1>1, <2>1, <2>2, <2>3, AttemptAlone DEF restVars
<1>3. CASE Current(a)
  <2>1. /\ live' = [live EXCEPT ![t] = None] /\ attempt' = [attempt EXCEPT ![a] = Unused]
        /\ waits' = waits \cup {more}
        /\ \/ \E x \in {"failed", "pending"} : status' = [status EXCEPT ![t] = x] /\ UNCHANGED runVars
           \/ Pause(t, how = "limited, with a reset")
        /\ onHold' = onHold \/ onHold' = [onHold EXCEPT ![t] = "unchosen"]
    BY <1>3 DEF SpawnFails
  <2>2. more \in WaitRecord /\ more.do \in {"letgo", "verdict"}
    BY DEF WaitRecord, Awaited, Await
  <2> HIDE DEF more
  <2>3. t \in Task /\ t \notin resumes
    BY <1>3, CurrentIs
  <2>4. PICK x \in {"failed", "pending", "limited"} :
            /\ status' = [status EXCEPT ![t] = x]
            /\ run' \in RunStates /\ resumes' \in SUBSET Task /\ armed' \in BOOLEAN /\ LimitsRight'
    <3>1. CASE Pause(t, how = "limited, with a reset")
      BY <1>1, <2>1, <2>3, <3>1, PauseKeeps
    <3>2. ASSUME NEW x \in {"failed", "pending"}, status' = [status EXCEPT ![t] = x], UNCHANGED runVars
          PROVE  run' \in RunStates /\ resumes' \in SUBSET Task /\ armed' \in BOOLEAN /\ LimitsRight'
      BY <1>1, <2>1, <2>3, <3>2 DEF runVars, RestTypes, LimitsRight, HeldRun, TasksRight
    <3> QED BY <2>1, <3>1, <3>2
  <2>5. x \in Status \ {"in_progress", "asking"} /\ x # "completed"
    BY DEF Status
  <2>6. WorkInv' /\ TasksRight' /\ Mild
    BY <1>1, <1>3, <2>1, <2>4, <2>5, AttemptOver, UnusedIs
  <2>7. RestTypes'
    BY <1>1, <2>1, <2>2, <2>3, <2>4 DEF RestTypes
  <2>8. WaitsRight'
    <3>1. Leaves(waits \cup {more})
      BY <2>1, LeavesThem
    <3> QED BY <2>2, <2>6, <3>1, MildLeaves DEF Forces
  <2> QED BY <2>4, <2>6, <2>7, <2>8
<1> QED BY <1>2, <1>3

(* A runner asks its user, or has its answer: its task is at work all along. *)
LEMMA AskKeeps ==
    ASSUME SchedInv, NEW t \in Task, HasLive(t), t \notin resumes, t \notin completing, NEW x \in {"in_progress", "asking"},
           status' = [status EXCEPT ![t] = x], UNCHANGED <<runVars, restVars, live, attempt, waits>>
    PROVE  SchedInv'
<1> USE DEF SchedInv
<1>1. \A u \in Task : status'[u] = IF u = t THEN x ELSE status[u]
  BY DEF TasksRight
<1>2. RestTypes'
  BY DEF RestTypes, runVars, restVars
<1>3. WorkInv'
  BY WorkSame
<1>4. TasksRight'
  BY <1>1 DEF TasksRight, StatusTellsTheTruth, LandsAlone, HasLive, restVars, Status
<1>5. LimitsRight'
  BY <1>1 DEF LimitsRight, runVars, restVars, HeldRun, RestTypes
<1>6. WaitsRight'
  <2>1. Mild
    BY <1>1 DEF Mild, restVars, HasLive
  <2>2. Leaves(waits)
    BY LeavesThem
  <2> QED BY <2>1, <2>2, MildLeaves
<1> QED BY <1>2, <1>3, <1>4, <1>5, <1>6

(* What a verdict came to. *)
LEMMA DecidedKeeps ==
    ASSUME SchedInv, NEW a \in Attempt, NEW how \in {"passed", "failed", "limited", "limited, with a reset"},
           Decided(a, how)
    PROVE  SchedInv'
<1> DEFINE t == attempt[a].task
           more == Await("verdict", None, 0)
<1> USE DEF SchedInv
<1>1. attempt[a].at = "deciding" /\ UNCHANGED restVars /\ attempt[a] \in AttemptRecord /\ attempt[a].runner # "up"
      /\ attempt[a].task # None
  BY DEF Decided, restVars, WorkInv, WorkTypes, AttemptsRight
<1>2. /\ Over(a) \in AttemptRecord /\ (Over(a).task = attempt[a].task \/ Over(a) = Unused) /\ Over(a).at = "over"
      /\ Over(a).runner # "up" /\ (Over(a).runner # "none" => attempt[a].runner # "none")
  BY <1>1, OverIs
<1>3. CASE ~Current(a)
  <2>1. attempt' = [attempt EXCEPT ![a] = Over(a)] /\ UNCHANGED <<runVars, live, status, waits>>
    BY <1>3 DEF Decided
  <2>2. WorkInv'
    BY <1>2, <1>3, <2>1, WorkMoves DEF Starting
  <2>3. \A u \in Task : live[u] # a
    BY <1>3, NoneAssumption DEF Current, WorkInv, AttemptsRight, HasLive
  <2>4. Mild
    BY <1>1, <2>1, <2>3 DEF Mild, restVars, WorkInv, WorkTypes, HasLive
  <2> QED BY <1>1, <2>1, <2>2, <2>4, AttemptAlone
<1>4. CASE Current(a) /\ how = "passed"
  <2> DEFINE r == [attempt[a] EXCEPT !.at = "landing"]
  <2>1. attempt' = [attempt EXCEPT ![a] = r] /\ UNCHANGED <<runVars, live, status, waits>>
    BY <1>4 DEF Decided
  <2>2. r \in AttemptRecord /\ r.task = attempt[a].task /\ r.at = "landing" /\ r.runner = attempt[a].runner
    BY <1>1 DEF AttemptRecord
  <2> HIDE DEF r
  <2>3. WorkInv'
    BY <1>1, <1>4, <2>1, <2>2, WorkMoves DEF Starting
  <2>4. ~Forced(t) /\ \A u \in Task : u # t => live[u] # a
    BY <1>1, <1>4, PastItsSpawn, NoneAssumption DEF WorkInv, AttemptsRight, HasLive
  <2>5. Mild
    BY <1>1, <2>1, <2>4 DEF Mild, restVars, WorkInv, WorkTypes, HasLive
  <2> QED BY <1>1, <2>1, <2>3, <2>5, AttemptAlone
<1>5. CASE Current(a) /\ how # "passed"
  <2>1. /\ live' = [live EXCEPT ![t] = None] /\ attempt' = [attempt EXCEPT ![a] = Over(a)]
        /\ waits' = waits \cup {more}
        /\ \/ status' = [status EXCEPT ![t] = "failed"] /\ UNCHANGED runVars
           \/ Pause(t, how = "limited, with a reset")
    BY <1>5 DEF Decided
  <2>2. more \in WaitRecord /\ more.do = "verdict"
    BY DEF WaitRecord, Awaited, Await
  <2> HIDE DEF more
  <2>3. t \in Task /\ t \notin resumes
    BY <1>5, CurrentIs
  <2>4. PICK x \in {"failed", "limited"} :
            /\ status' = [status EXCEPT ![t] = x]
            /\ run' \in RunStates /\ resumes' \in SUBSET Task /\ armed' \in BOOLEAN /\ LimitsRight'
    <3>1. CASE Pause(t, how = "limited, with a reset")
      BY <1>1, <2>1, <2>3, <3>1, PauseKeeps DEF restVars
    <3>2. CASE status' = [status EXCEPT ![t] = "failed"] /\ UNCHANGED runVars
      BY <1>1, <2>1, <2>3, <3>2 DEF runVars, restVars, RestTypes, LimitsRight, HeldRun, TasksRight
    <3> QED BY <2>1, <3>1, <3>2
  <2>5. x \in Status \ {"in_progress", "asking"} /\ x # "completed"
    BY DEF Status
  <2>6. WorkInv' /\ TasksRight' /\ Mild
    BY <1>1, <1>2, <1>5, <2>1, <2>4, <2>5, AttemptOver DEF restVars
  <2>7. RestTypes'
    BY <1>1, <2>1, <2>2, <2>3, <2>4 DEF RestTypes, restVars
  <2>8. WaitsRight'
    <3>1. Leaves(waits \cup {more})
      BY <2>1, LeavesThem
    <3> QED BY <2>2, <2>6, <3>1, MildLeaves DEF Forces
  <2> QED BY <2>4, <2>6, <2>7, <2>8
<1> QED BY <1>3, <1>4, <1>5

(* A landing is over, of an attempt that is its task's still or of one that nothing is left of. *)
LEMMA LandedKeeps ==
    ASSUME SchedInv, NEW a \in Attempt, NEW how \in {"completed", "conflict", "failed"}, Landed(a, how)
    PROVE  SchedInv'
<1> DEFINE t == attempt[a].task
           more == Await("verdict", None, 0)
<1> USE DEF SchedInv
<1>1. attempt[a].at = "landing" /\ UNCHANGED <<runVars, restVars>> /\ attempt[a].runner # "up" /\ attempt' = [attempt EXCEPT ![a] = Over(a)]
  BY DEF Landed, restVars, WorkInv, WorkTypes, AttemptsRight
<1>2. /\ Over(a) \in AttemptRecord /\ (Over(a).task = attempt[a].task \/ Over(a) = Unused) /\ Over(a).at = "over"
      /\ Over(a).runner # "up" /\ (Over(a).runner # "none" => attempt[a].runner # "none")
  BY <1>1, OverIs
<1>3. CASE ~Current(a)
  <2>1. UNCHANGED <<live, status, waits>>
    BY <1>3 DEF Landed
  <2>2. WorkInv'
    BY <1>1, <1>2, <1>3, <2>1, WorkMoves DEF Starting
  <2>3. \A u \in Task : live[u] # a
    BY <1>3, NoneAssumption DEF Current, WorkInv, AttemptsRight, HasLive
  <2>4. Mild
    BY <1>1, <2>1, <2>3 DEF Mild, restVars, WorkInv, WorkTypes, HasLive
  <2> QED BY <1>1, <2>1, <2>2, <2>4, AttemptAlone
<1>4. CASE Current(a)
  <2>1. live' = [live EXCEPT ![t] = None] /\ status' = [status EXCEPT ![t] = how] /\ waits' = waits \cup {more}
    BY <1>4 DEF Landed
  <2>2. more \in WaitRecord /\ more.do = "verdict"
    BY DEF WaitRecord, Awaited, Await
  <2> HIDE DEF more
  <2>3. t \in Task /\ t \notin resumes /\ ~Forced(t) /\ how \in Status \ {"in_progress", "asking"}
    BY <1>1, <1>4, CurrentIs, PastItsSpawn DEF Status
  <2>4. WorkInv' /\ TasksRight' /\ Mild
    BY <1>1, <1>2, <1>4, <2>1, <2>3, AttemptOver DEF restVars
  <2>5. RestTypes'
    BY <1>1, <2>1, <2>2 DEF RestTypes, restVars, runVars
  <2>6. LimitsRight'
    BY <1>1, <2>1, <2>3 DEF LimitsRight, runVars, restVars, HeldRun, TasksRight, RestTypes
  <2>7. WaitsRight'
    <3>1. Leaves(waits \cup {more})
      BY <2>1, LeavesThem
    <3> QED BY <2>2, <2>4, <3>1, MildLeaves DEF Forces
  <2> QED BY <2>4, <2>5, <2>6, <2>7
<1> QED BY <1>3, <1>4
-----------------------------------------------------------------------------
(* The steps that go on after an await. *)

\* Statuses s say what is at work after the step, and complete nothing that is landing.
Fits(s) ==
    /\ s \in [Task -> Status]
    /\ \A t \in Task : s[t] \in {"in_progress", "asking"} <=> HasLive(t)'
    /\ \A t \in completing' : ~HasLive(t)' /\ s[t] # "completed"

(* Statuses that fit are right. *)
LEMMA FitsIsRight ==
    ASSUME NEW s, Fits(s), status' = s, completing' \subseteq Task
    PROVE  TasksRight'
BY DEF Fits, TasksRight, StatusTellsTheTruth, LandsAlone, HasLive

(* As they are, they fit a step that changes neither what is at work nor what lands. *)
LEMMA FitsStill ==
    ASSUME SchedInv, UNCHANGED <<live, completing>>
    PROVE  Fits(status)
BY DEF SchedInv, TasksRight, StatusTellsTheTruth, LandsAlone, Fits, HasLive

(* A tick finds nothing in progress with nothing at work: it changes no status but what its handler did. *)
LEMMA TickKeeps ==
    ASSUME RestTypes, NEW s, Fits(s), NEW q \in Seq(Task), NEW W \in SUBSET WaitRecord, stops' \in Nat,
           completing' \subseteq Task, Tick(s, q, W)
    PROVE  /\ status' = s /\ TasksRight' /\ Leaves(W)
           /\ queued' \in Seq(Task) /\ ticks' \in SUBSET TickRecord /\ waits' \in SUBSET WaitRecord
<1>1. s \in [Task -> Status]
  BY DEF Fits
<1>2. /\ queued' \in Seq(Task) /\ ticks' \in SUBSET TickRecord /\ waits' \in SUBSET WaitRecord
      /\ Leaves(W)
      /\ status' \in [Task -> Status]
      /\ \A t \in Task : status'[t] = IF s[t] = "in_progress" /\ live'[t] = None /\ t \notin completing'
                                      THEN "pending" ELSE s[t]
  BY <1>1, TickMakes
<1>3. \A t \in Task : status'[t] = s[t]
  BY <1>2 DEF Fits, HasLive
<1>4. status' = s
  BY <1>1, <1>2, <1>3
<1> QED BY <1>2, <1>4, FitsIsRight

(* A claim gives its task an attempt, a slot and a status at once. *)
LEMMA ClaimKeeps ==
    ASSUME SchedInv, NEW t \in Task, ~HasLive(t), t \notin completing, ~SlotsFull, Free # {},
           NEW gen \in Nat, NEW kind \in {"fresh", "continue"}, StartAttempt(t, gen, kind), completing' = completing
    PROVE  /\ WorkInv' /\ Fits([status EXCEPT ![t] = "in_progress"])
           /\ status' = [status EXCEPT ![t] = "in_progress"] => Mild
<1> DEFINE s == [status EXCEPT ![t] = "in_progress"]
<1> USE DEF SchedInv
<1>1. PICK a \in Attempt : /\ live' = [live EXCEPT ![t] = a]
                           /\ attempt'[a].at \in Starting /\ attempt'[a].kind = kind
                           /\ \A u \in Task : live[u] # a
                           /\ \A b \in Attempt : b # a => attempt'[b] = attempt[b]
  BY WorkStarts
<1>2. WorkInv'
  BY WorkStarts
<1>3. /\ s \in [Task -> Status] /\ a # None
      /\ \A u \in Task : s[u] = IF u = t THEN "in_progress" ELSE status[u]
      /\ \A u \in Task : live'[u] = IF u = t THEN a ELSE live[u]
  BY <1>1, NoneAssumption DEF TasksRight, WorkInv, WorkTypes, Status
<1> HIDE DEF s
<1>4. Fits(s)
  BY <1>3 DEF Fits, TasksRight, StatusTellsTheTruth, LandsAlone, HasLive, RestTypes
<1>5. ASSUME status' = s PROVE Mild
  <2>1. \A u \in Task : u # t /\ live[u] # None => live[u] \in Attempt /\ live[u] # a
    BY <1>1 DEF WorkInv, WorkTypes
  <2> QED BY <1>1, <1>3, <1>5, <2>1 DEF Mild, HasLive
<1> QED BY <1>2, <1>4, <1>5 DEF s

(* The loop over a queue goes on. *)
LEMMA QueueGoesOnKeeps ==
    ASSUME SchedInv, NEW e \in ticks, QueueGoesOn(e)
    PROVE  SchedInv'
<1> USE DEF SchedInv
<1>1. UNCHANGED <<runVars, status, onHold, completing, planning, stops, live, attempt, inputs, stopped>>
      /\ QueuePass(e.left, queued, waits, e.gen, e.after, ticks \ {e})
  BY DEF QueueGoesOn
<1>2. e.left \in Seq(Task) /\ e.gen \in Nat /\ e.after \in {"tick", "verdict"} /\ ticks \ {e} \in SUBSET TickRecord
      /\ queued \in Seq(Task) /\ waits \in SUBSET WaitRecord /\ stops' \in Nat
  BY <1>1 DEF RestTypes, TickRecord
<1>3. queued' \in Seq(Task) /\ ticks' \in SUBSET TickRecord /\ waits' \in SUBSET WaitRecord /\ Leaves(waits)
  <2> DEFINE left == e.left  gen == e.gen  after == e.after  others == ticks \ {e}
  <2>1. QueuePass(left, queued, waits, gen, after, others) /\ left \in Seq(Task) /\ gen \in Nat
        /\ after \in {"tick", "verdict"} /\ others \in SUBSET TickRecord
    BY <1>1, <1>2
  <2>2. stops' \in Nat /\ queued \in Seq(Task) /\ waits \in SUBSET WaitRecord
    BY <1>2
  <2> HIDE DEF left, gen, after, others, SchedInv
  <2> QED BY <2>1, <2>2, PassMakes
<1>4. RestTypes'
  BY <1>1, <1>3 DEF RestTypes, runVars
<1>5. WorkInv' /\ TasksRight'
  BY <1>1, WorkSame, TasksStay
<1>6. LimitsRight'
  BY <1>1, <1>3 DEF LimitsRight, runVars, HeldRun, Leaves
<1>7. WaitsRight'
  <2>1. Mild
    BY <1>1 DEF Mild, HasLive
  <2> QED BY <1>3, <2>1, MildLeaves
<1> QED BY <1>4, <1>5, <1>6, <1>7

(* settleRun ends a run or opens it again; it holds none and lets none go. *)
LEMMA SettledIs ==
    ASSUME run \in RunStates, NEW after
    PROVE  SettledRun(after) \in RunStates /\ (SettledRun(after).kind = "held" <=> HeldRun)
<1> DEFINE open == IF Remaining # {} THEN NextRunState(run, "reopen") ELSE run
<1>1. open \in RunStates /\ (open.kind = "held" <=> HeldRun)
  BY RunMoves DEF HeldRun, RunEvent
<1>2. \/ SettledRun(after) = open
      \/ SettledRun(after) = NextRunState(open, "end finished")
      \/ SettledRun(after) = NextRunState(open, "end failed")
  BY DEF SettledRun
<1> HIDE DEF open
<1>3. "end finished" \in RunEvent /\ "end failed" \in RunEvent
  BY DEF RunEvent
<1>4. NextRunState(open, "end finished") \in RunStates /\ (NextRunState(open, "end finished").kind = "held" <=> open.kind = "held")
  BY <1>1, <1>3, RunMoves
<1>5. NextRunState(open, "end failed") \in RunStates /\ (NextRunState(open, "end failed").kind = "held" <=> open.kind = "held")
  BY <1>1, <1>3, RunMoves
<1> QED
  <2> DEFINE finished == NextRunState(open, "end finished")
             failed == NextRunState(open, "end failed")
             settled == SettledRun(after)
  <2>1. /\ settled = open \/ settled = finished \/ settled = failed
        /\ finished \in RunStates /\ (finished.kind = "held" <=> HeldRun)
        /\ failed \in RunStates /\ (failed.kind = "held" <=> HeldRun)
    BY <1>1, <1>2, <1>4, <1>5
  <2> HIDE DEF finished, failed, settled
  <2>2. settled \in RunStates /\ (settled.kind = "held" <=> HeldRun)
    BY <1>1, <2>1
  <2> QED BY <2>2 DEF settled

(* A tick settles the run, or begins the starts of what is ready. *)
LEMMA TickGoesOnKeeps ==
    ASSUME SchedInv, NEW e \in ticks, TickGoesOn(e)
    PROVE  SchedInv'
<1> USE DEF SchedInv
<1>1. /\ ticks' = ticks \ {e}
      /\ UNCHANGED <<resumes, armed, status, onHold, queued, completing, planning, stops, live, attempt, inputs, stopped>>
      /\ \/ run' = SettledRun(e.after) /\ waits' = waits
         \/ run' = run /\ waits' = waits \cup {Await("start", t, e.gen) : t \in Ready}
  BY DEF TickGoesOn
<1>2. run' \in RunStates /\ (HeldRun' <=> HeldRun)
  BY <1>1, SettledIs DEF RestTypes, HeldRun
<1>3. e.gen \in Nat /\ Ready \subseteq Task
  BY DEF RestTypes, TickRecord, Ready
<1>4. \A t \in Ready : LET w == Await("start", t, e.gen) IN w \in WaitRecord /\ w.do = "start" /\ w.task = t
  BY <1>3 DEF Await, WaitRecord, Awaited
<1>5. waits \subseteq waits' /\ \A w \in waits' : w \in waits \/ (w \in WaitRecord /\ w.do = "start" /\ w.task \in Task)
  BY <1>1, <1>3, <1>4
<1>6. RestTypes'
  BY <1>1, <1>2, <1>5 DEF RestTypes
<1>7. WorkInv' /\ TasksRight'
  BY <1>1, WorkSame, TasksStay
<1>8. LimitsRight'
  BY <1>1, <1>2, <1>5 DEF LimitsRight, HeldRun
<1>9. WaitsRight'
  <2>1. Mild
    BY <1>1 DEF Mild, HasLive
  <2>2. Leaves(waits')
    BY LeavesThem
  <2>3. \A w \in waits' : w \in waits \/ (w.do \notin Forces \cup {"completed"} /\ (w.do \notin {"letgo", "verdict"} => w.task \in Task))
    BY <1>5 DEF Forces
  <2> QED BY <2>1, <2>2, <2>3, MildLeaves
<1> QED BY <1>6, <1>7, <1>8, <1>9

(* A wait that is over is one wait less. *)
LEMMA OneLess ==
    ASSUME SchedInv, NEW w \in waits, Leaves(waits \ {w}), Mild
    PROVE  WaitsRight'
<1> USE DEF SchedInv
<1>1. \A v \in waits \ {w} : v \in waits
  OBVIOUS
<1> QED BY <1>1, MildLeaves

(* A start the run made of a ready task is judged again, and claimed. *)
LEMMA StartGoesOnKeeps ==
    ASSUME SchedInv, NEW w \in waits, StartGoesOn(w)
    PROVE  SchedInv'
<1> DEFINE t == w.task
<1> USE DEF SchedInv
<1>1. /\ w.do = "start" /\ waits' = waits \ {w} /\ w \in WaitRecord /\ t \in Task
      /\ UNCHANGED <<runVars, onHold, queued, completing, planning, stops, ticks, inputs, stopped>>
  BY DEF StartGoesOn, RestTypes, WaitsRight, WaitRight
<1>2. RestTypes'
  BY <1>1 DEF RestTypes, runVars
<1>3. Leaves(waits \ {w})
  BY <1>1, LeavesThem
<1>4. CASE Scheduling /\ StillReady(t) /\ ~Refused(t, w.gen)
  <2>1. Free # {} /\ StartAttempt(t, w.gen, "fresh") /\ status' = [status EXCEPT ![t] = "in_progress"]
    BY <1>4 DEF StartGoesOn
  <2>2. ~HasLive(t) /\ t \notin completing /\ ~SlotsFull /\ status[t] = "pending" /\ w.gen \in Nat
    BY <1>1, <1>4 DEF StillReady, Startable, WaitRecord
  <2>3. WorkInv' /\ TasksRight' /\ Mild
    BY <1>1, <2>1, <2>2, ClaimKeeps, FitsIsRight DEF RestTypes
  <2>4. LimitsRight'
    BY <1>1, <2>1, <2>2 DEF LimitsRight, runVars, HeldRun, TasksRight, RestTypes, Await
  <2> QED BY <1>2, <1>3, <2>3, <2>4, OneLess
<1>5. CASE ~(Scheduling /\ StillReady(t) /\ ~Refused(t, w.gen))
  <2>1. UNCHANGED <<live, attempt, status>>
    BY <1>5 DEF StartGoesOn
  <2>2. WorkInv' /\ TasksRight'
    BY <1>1, <2>1, WorkSame, TasksStay
  <2>3. Mild
    BY <1>1, <2>1 DEF Mild, HasLive
  <2>4. LimitsRight'
    BY <1>1, <2>1 DEF LimitsRight, runVars, HeldRun, Await
  <2> QED BY <1>2, <1>3, <2>2, <2>3, <2>4, OneLess
<1> QED BY <1>4, <1>5

(* What ended an attempt has been dealt with: the scheduler ticks, or the run settles. *)
LEMMA AfterVerdictKeeps ==
    ASSUME SchedInv, NEW w \in waits, AfterVerdict(w) \/ LetGoOver(w)
    PROVE  SchedInv'
<1> USE DEF SchedInv
<1>1. /\ w.do \in {"verdict", "letgo"}
      /\ UNCHANGED <<resumes, onHold, completing, planning, stops, live, attempt, inputs, stopped>>
      /\ \/ armed' = (armed /\ resumes # {}) /\ run' = RunHolding(run, resumes)
         \/ armed' = armed /\ run' = run
      /\ \/ Tick(status, queued, waits \ {w})
         \/ status' = status /\ QueuePass(queued, queued, waits \ {w}, stops, "verdict", ticks)
  BY DEF AfterVerdict, LetGoOver, runVars
<1>2. run' \in RunStates /\ armed' \in BOOLEAN /\ (HeldRun' <=> HeldRun) /\ (armed /\ resumes # {} => armed')
  <2>1. run.kind = "held" => resumes # {}
    BY DEF LimitsRight, HeldRun
  <2>2. run \in RunStates /\ armed \in BOOLEAN
    BY DEF RestTypes
  <2>3. RunHolding(run, resumes) \in RunStates /\ (RunHolding(run, resumes).kind = "held" <=> run.kind = "held")
    BY <2>1, <2>2, HoldGoes
  <2> QED BY <1>1, <2>2, <2>3 DEF HeldRun
<1>3. /\ status' = status /\ Leaves(waits \ {w})
      /\ queued' \in Seq(Task) /\ ticks' \in SUBSET TickRecord /\ waits' \in SUBSET WaitRecord
  <2>1. queued \in Seq(Task) /\ waits \ {w} \in SUBSET WaitRecord /\ stops \in Nat /\ stops' \in Nat
        /\ completing' \subseteq Task /\ ticks \in SUBSET TickRecord
    BY <1>1 DEF RestTypes
  <2>2. CASE Tick(status, queued, waits \ {w})
    BY <1>1, <2>1, <2>2, FitsStill, TickKeeps
  <2>3. CASE status' = status /\ QueuePass(queued, queued, waits \ {w}, stops, "verdict", ticks)
    BY <2>1, <2>3, PassMakes
  <2> QED BY <1>1, <2>2, <2>3
<1>4. RestTypes'
  BY <1>1, <1>2, <1>3 DEF RestTypes
<1>5. WorkInv' /\ TasksRight'
  BY <1>1, <1>3, WorkSame, TasksStay
<1>6. LimitsRight'
  BY <1>1, <1>2, <1>3 DEF LimitsRight, HeldRun, Leaves, Await
<1>7. Mild
  BY <1>1, <1>3 DEF Mild, HasLive
<1> QED BY <1>3, <1>4, <1>5, <1>6, <1>7, OneLess
(* The reset comes: the resume of every task that waits for it is under way in the timer's place. *)
LEMMA ResetComesKeeps ==
    ASSUME SchedInv, ResetComes
    PROVE  SchedInv'
<1> USE DEF SchedInv
<1>1. /\ armed' = FALSE /\ waits' = waits \cup {Await("resume", t, stops) : t \in resumes}
      /\ UNCHANGED <<run, resumes, status, onHold, queued, completing, planning, stops, live, attempt, ticks, inputs, stopped>>
  BY DEF ResetComes
<1>2. \A t \in resumes : LET w == Await("resume", t, stops) IN w \in WaitRecord /\ w.do = "resume" /\ w.task = t
  BY DEF RestTypes, Await, WaitRecord, Awaited
<1>3. /\ waits \subseteq waits' /\ (\A t \in resumes : Await("resume", t, stops) \in waits')
      /\ \A w \in waits' : w \in waits \/ (w \in WaitRecord /\ w.do = "resume" /\ w.task \in Task)
  BY <1>1, <1>2 DEF RestTypes
<1>4. RestTypes'
  BY <1>1, <1>3 DEF RestTypes
<1>5. WorkInv' /\ TasksRight'
  BY <1>1, WorkSame, TasksStay
<1>6. LimitsRight'
  BY <1>1, <1>3 DEF LimitsRight, HeldRun
<1>7. Mild
  BY <1>1 DEF Mild, HasLive
<1>8. \A w \in waits' : w \in waits \/ (w.do \notin Forces \cup {"completed"} /\ (w.do \notin {"letgo", "verdict"} => w.task \in Task))
  BY <1>3 DEF Forces
<1>9. WaitsRight'
  <2>1. Leaves(waits')
    BY LeavesThem
  <2> QED BY <1>7, <1>8, <2>1, MildLeaves
<1> QED BY <1>4, <1>5, <1>6, <1>9

(* A task resumes at the reset, or waits for the user instead: the hold goes with the last of them. *)
LEMMA ResumeGoesOnKeeps ==
    ASSUME SchedInv, NEW w \in waits, ResumeGoesOn(w)
    PROVE  SchedInv'
<1> DEFINE t == w.task
           goesOn == t \in resumes /\ ~HasLive(t)
           starts == goesOn /\ ~Refused(t, w.gen)
           restarts == starts /\ run.from = "scheduling" /\ resumes = {t}
           rest == waits \ {w}
           s == [status EXCEPT ![t] = "in_progress"]
<1> USE DEF SchedInv
<1>1. /\ w.do = "resume"
      /\ starts => /\ Free # {} /\ StartAttempt(t, w.gen, "continue")
                   /\ onHold' = [onHold EXCEPT ![t] = "no"] /\ resumes' = resumes \ {t} /\ armed' = armed
                   /\ run' = IF restarts THEN NextRunState(run, "schedule") ELSE RunHolding(run, resumes')
      /\ ~starts => /\ UNCHANGED <<live, attempt, onHold>>
                    /\ IF goesOn /\ w.gen = stops THEN CancelResume(t) ELSE UNCHANGED runVars
      /\ UNCHANGED <<completing, planning, stops, inputs, stopped>>
      /\ restarts => Tick(s, queued, rest)
      /\ ~restarts => /\ status' = (IF starts THEN s ELSE status) /\ waits' = rest
                      /\ UNCHANGED <<queued, ticks>>
  BY DEF ResumeGoesOn
<1>2. t \in Task /\ w.gen \in Nat /\ rest \in SUBSET WaitRecord /\ queued \in Seq(Task) /\ stops' \in Nat /\ completing' \subseteq Task
  BY <1>1 DEF WaitsRight, WaitRight, RestTypes, WaitRecord
<1>3. \A u \in Task : (u # t \/ w.gen # stops) /\ Await("resume", u, stops) \in waits => Await("resume", u, stops) \in rest
  BY DEF Await
<1>4. t \in resumes => goesOn
  BY <1>2 DEF LimitsRight, TasksRight, StatusTellsTheTruth
<1>5. HeldRun <=> resumes # {}
  BY DEF LimitsRight
<1>6. CASE starts
  <2>1. ~HasLive(t) /\ t \notin completing /\ ~SlotsFull /\ t \in resumes
    BY <1>6 DEF Refused
  <2>2. WorkInv' /\ Fits(s) /\ (status' = s => Mild)
    BY <1>1, <1>2, <1>6, <2>1, ClaimKeeps
  <2>3. /\ run' \in RunStates /\ (HeldRun' <=> resumes' # {})
    <3>1. CASE restarts
      <4>1. run' = NextRunState(run, "schedule") /\ resumes' = {}
        BY <1>1, <1>6, <3>1
      <4> QED BY <4>1, RunMoves DEF RestTypes, RunEvent, HeldRun
    <3>2. CASE ~restarts
      <4>1. run' = RunHolding(run, resumes')
        BY <1>1, <1>6, <3>2
      <4> QED BY <1>5, <1>6, <4>1, <1>1, HoldGoes DEF RestTypes, HeldRun
    <3> QED BY <3>1, <3>2
  <2>4. /\ status' = s /\ Leaves(rest)
        /\ queued' \in Seq(Task) /\ ticks' \in SUBSET TickRecord /\ waits' \in SUBSET WaitRecord
    <3>1. CASE restarts
      <4> HIDE DEF s, rest, restarts
      <4> QED BY <1>1, <1>2, <2>2, <3>1, TickKeeps
    <3>2. CASE ~restarts
      BY <1>1, <1>2, <1>6, <3>2, LeavesThem DEF RestTypes
    <3> QED BY <3>1, <3>2
  <2>5. TasksRight' /\ Mild
    BY <1>2, <2>2, <2>4, FitsIsRight
  <2>6. \A u \in resumes' : status'[u] = "limited" /\ (Await("resume", u, stops) \in waits => Await("resume", u, stops) \in rest)
    BY <1>1, <1>2, <1>3, <1>6, <2>4 DEF LimitsRight, TasksRight, RestTypes
  <2>7. LimitsRight'
    <3>1. resumes' \subseteq resumes /\ armed' = armed /\ stops' = stops
      BY <1>1, <1>6
    <3> HIDE DEF rest, t
    <3> QED BY <2>3, <2>4, <2>6, <3>1, LimitsStay
  <2>8. RestTypes'
    BY <1>1, <1>2, <1>6, <2>3, <2>4 DEF RestTypes
  <2> QED BY <2>2, <2>4, <2>5, <2>7, <2>8, OneLess
<1>7. CASE ~starts
  <2>1. UNCHANGED <<live, attempt, onHold, status, queued, ticks, completing, planning, stops, inputs, stopped>> /\ waits' = rest
    BY <1>1, <1>7
  <2>2. WorkInv' /\ TasksRight'
    BY <2>1, WorkSame, TasksStay
  <2>3. Mild
    BY <2>1 DEF Mild, HasLive
  <2>4. Leaves(rest)
    BY <2>1, LeavesThem
  <2>5. /\ run' \in RunStates /\ resumes' \in SUBSET Task /\ armed' \in BOOLEAN /\ LimitsRight'
    <3>1. CASE goesOn /\ w.gen = stops
      <4>1. CancelResume(t)
        BY <1>1, <1>7, <3>1
      <4>2. /\ run' \in RunStates /\ resumes' \in SUBSET Task /\ armed' \in BOOLEAN
            /\ resumes' = resumes \ {t}
            /\ HeldRun' <=> resumes' # {}
            /\ armed /\ resumes' # {} => armed'
        BY <1>2, <4>1, CancelKeeps
      <4>3. \A u \in resumes' : status'[u] = "limited" /\ (Await("resume", u, stops) \in waits => Await("resume", u, stops) \in rest)
        BY <1>3, <2>1, <4>2 DEF LimitsRight, RestTypes
      <4>4. resumes' \subseteq resumes /\ stops' = stops
        BY <2>1, <4>2
      <4> HIDE DEF rest
      <4>5. LimitsRight'
        BY <2>4, <4>2, <4>3, <4>4, LimitsStay
      <4> QED BY <4>2, <4>5
    <3>2. CASE ~(goesOn /\ w.gen = stops)
      <4>1. UNCHANGED <<run, resumes, armed>>
        BY <1>1, <1>7, <3>2 DEF runVars
      <4>2. \A u \in resumes : u \in Task /\ (u # t \/ w.gen # stops)
        BY <1>4, <3>2 DEF RestTypes
      <4>3. \A u \in resumes' : status'[u] = "limited" /\ (Await("resume", u, stops) \in waits => Await("resume", u, stops) \in rest)
        BY <1>3, <2>1, <4>1, <4>2 DEF LimitsRight
      <4>4. resumes' \subseteq resumes /\ stops' = stops /\ (armed => armed') /\ (HeldRun' <=> resumes' # {})
        BY <1>5, <2>1, <4>1 DEF HeldRun
      <4> HIDE DEF rest
      <4>5. LimitsRight'
        BY <2>4, <4>3, <4>4, LimitsStay
      <4> QED BY <4>1, <4>5 DEF RestTypes
    <3> QED BY <3>1, <3>2
  <2>6. RestTypes'
    BY <1>2, <2>1, <2>5 DEF RestTypes
  <2> QED BY <2>2, <2>3, <2>4, <2>5, <2>6, OneLess
<1> QED BY <1>6, <1>7

(* A retry or a skip goes on: the run does too, if no Stop has come since. *)
LEMMA ControlGoesOnKeeps ==
    ASSUME SchedInv, NEW w \in waits, ControlGoesOn(w)
    PROVE  SchedInv'
<1> USE DEF SchedInv
<1>1. /\ w.do \in {"retried", "skipped"}
      /\ UNCHANGED <<resumes, armed, onHold, completing, planning, stops, live, attempt, inputs, stopped>>
      /\ run' = NextRunState(run, "continue") \/ run' = run
      /\ \/ Tick(status, queued, waits \ {w})
         \/ waits' = waits \ {w} /\ UNCHANGED <<status, queued, ticks>>
  BY DEF ControlGoesOn
<1>2. run' \in RunStates /\ (HeldRun' <=> HeldRun)
  BY <1>1, RunMoves DEF RestTypes, RunEvent, HeldRun
<1>3. /\ status' = status /\ Leaves(waits \ {w})
      /\ queued' \in Seq(Task) /\ ticks' \in SUBSET TickRecord /\ waits' \in SUBSET WaitRecord
  <2>1. queued \in Seq(Task) /\ waits \ {w} \in SUBSET WaitRecord /\ stops' \in Nat /\ completing' \subseteq Task
    BY <1>1 DEF RestTypes
  <2>2. CASE Tick(status, queued, waits \ {w})
    BY <1>1, <2>1, <2>2, FitsStill, TickKeeps
  <2>3. CASE waits' = waits \ {w} /\ UNCHANGED <<status, queued, ticks>>
    BY <2>1, <2>3, LeavesThem DEF RestTypes
  <2> QED BY <1>1, <2>2, <2>3
<1>4. RestTypes'
  BY <1>1, <1>2, <1>3 DEF RestTypes
<1>5. WorkInv' /\ TasksRight'
  BY <1>1, <1>3, WorkSame, TasksStay
<1>6. LimitsRight'
  BY <1>1, <1>2, <1>3 DEF LimitsRight, HeldRun, Leaves, Await
<1>7. Mild
  BY <1>1, <1>3 DEF Mild, HasLive
<1> QED BY <1>3, <1>4, <1>5, <1>6, <1>7, OneLess
(* An explicit start goes on: it claims its task, or waits in the queue, or comes to nothing. *)
LEMMA ForceGoesOnKeeps ==
    ASSUME SchedInv, NEW w \in waits, ForceGoesOn(w)
    PROVE  SchedInv'
<1> DEFINE t == w.task
           s == [status EXCEPT ![t] = "in_progress"]
           rest == waits \ {w}
           claimed == /\ ~HasLive(t) /\ ~Refused(t, w.gen) /\ Free # {} /\ StartAttempt(t, w.gen, "fresh")
                      /\ CancelResume(t)
                      /\ status' = s
                      /\ onHold' = [onHold EXCEPT ![t] = "no"]
                      /\ UNCHANGED queued
           put == /\ UNCHANGED <<runVars, live, attempt, status>>
                  /\ onHold' = onHold \/ onHold' = [onHold EXCEPT ![t] = "no"]
                  /\ queued' = queued \/ queued' = Append(queued, t)
<1> USE DEF SchedInv
<1>1. /\ w.do \in Forces /\ waits' = rest
      /\ UNCHANGED <<completing, planning, stops, ticks, inputs, stopped>>
  BY DEF ForceGoesOn, Forces
<1>2. claimed \/ put
  BY DEF ForceGoesOn, Moved, Requeued, Enqueued
<1>3. t \in Task /\ w.gen \in Nat /\ rest \in SUBSET WaitRecord
  BY <1>1 DEF WaitsRight, WaitRight, RestTypes, WaitRecord, Forces
<1>4. Leaves(rest)
  BY <1>1, LeavesThem
<1>5. \A u \in Task : Await("resume", u, stops) \in waits => Await("resume", u, stops) \in rest
  BY <1>1 DEF Await, Forces
<1> HIDE DEF claimed, put, rest
<1>6. CASE claimed
  <2>1. ~HasLive(t) /\ t \notin completing /\ ~SlotsFull
    BY <1>6 DEF claimed, Refused
  <2>2. WorkInv' /\ Fits(s) /\ (status' = s => Mild)
    BY <1>1, <1>3, <1>6, <2>1, ClaimKeeps DEF claimed
  <2>3. TasksRight' /\ Mild
    BY <1>1, <1>6, <2>2, FitsIsRight DEF claimed, RestTypes
  <2>4. /\ run' \in RunStates /\ resumes' \in SUBSET Task /\ armed' \in BOOLEAN
        /\ resumes' = resumes \ {t}
        /\ HeldRun' <=> resumes' # {}
        /\ armed /\ resumes' # {} => armed'
    BY <1>3, <1>6, CancelKeeps DEF claimed
  <2>5. \A u \in resumes' : status'[u] = "limited" /\ (Await("resume", u, stops) \in waits => Await("resume", u, stops) \in rest)
    BY <1>5, <1>6, <2>4 DEF claimed, LimitsRight, RestTypes, TasksRight
  <2>6. LimitsRight'
    BY <1>1, <1>4, <2>4, <2>5, LimitsStay
  <2>7. RestTypes'
    BY <1>1, <1>3, <1>6, <2>4 DEF claimed, RestTypes
  <2> QED BY <1>4, <2>2, <2>3, <2>6, <2>7, OneLess DEF rest
<1>7. CASE put
  <2>1. UNCHANGED <<run, resumes, armed, live, attempt, status>>
    BY <1>7 DEF put, runVars
  <2>2. WorkInv' /\ TasksRight'
    BY <1>1, <2>1, WorkSame, TasksStay
  <2>3. Mild
    BY <1>1, <2>1 DEF Mild, HasLive
  <2>4. LimitsRight'
    BY <1>1, <1>5, <2>1 DEF LimitsRight, HeldRun, RestTypes
  <2>5. queued' \in Seq(Task) /\ onHold' \in [Task -> {"no", "chosen", "unchosen"}]
    BY <1>3, <1>7 DEF put, RestTypes
  <2>6. RestTypes'
    BY <1>1, <1>3, <2>1, <2>5 DEF RestTypes
  <2> QED BY <1>4, <2>2, <2>3, <2>4, <2>6, OneLess DEF rest
<1> QED BY <1>2, <1>6, <1>7

(* A Mark complete has landed or not: the task it landed alone is let go, and nothing else was to start it. *)
LEMMA CompletedGoesOnKeeps ==
    ASSUME SchedInv, NEW w \in waits, NEW landed \in BOOLEAN, CompletedGoesOn(w, landed)
    PROVE  SchedInv'
<1> DEFINE t == w.task
           x == IF landed THEN "completed" ELSE "conflict"
           s == [status EXCEPT ![t] = x]
           left == resumes \ {t}
           rest == waits \ {w}
<1> USE DEF SchedInv
<1>1. /\ w.do = "completed" /\ completing' = completing \ {t}
      /\ onHold' = onHold \/ onHold' = [onHold EXCEPT ![t] = "no"]
      /\ resumes' = left /\ armed' = (armed /\ left # {}) /\ run' = RunHolding(run, left)
      /\ UNCHANGED <<planning, stops, live, attempt, inputs, stopped>>
      /\ Tick(s, queued, rest)
  BY DEF CompletedGoesOn, Moved
<1>2. t \in Task /\ t \in completing /\ rest \in SUBSET WaitRecord /\ stops' \in Nat /\ completing' \subseteq Task /\ queued \in Seq(Task)
  BY <1>1 DEF WaitsRight, WaitRight, RestTypes
<1>3. ~HasLive(t) /\ x \in Status \ {"in_progress", "asking", "limited"}
  BY <1>2 DEF TasksRight, LandsAlone, Status
<1>4. s \in [Task -> Status] /\ \A u \in Task : s[u] = IF u = t THEN x ELSE status[u]
  BY <1>2, <1>3 DEF TasksRight
<1> HIDE DEF x, s
<1>5. Fits(s)
  BY <1>1, <1>2, <1>3, <1>4 DEF Fits, TasksRight, StatusTellsTheTruth, LandsAlone, HasLive
<1>6. /\ status' = s /\ TasksRight' /\ Leaves(rest)
      /\ queued' \in Seq(Task) /\ ticks' \in SUBSET TickRecord /\ waits' \in SUBSET WaitRecord
  <2> HIDE DEF rest
  <2> QED BY <1>1, <1>2, <1>5, TickKeeps
<1>7. run' \in RunStates /\ (HeldRun' <=> resumes' # {})
  <2>1. HeldRun <=> resumes # {}
    BY DEF LimitsRight
  <2> QED BY <1>1, <2>1, HoldGoes DEF RestTypes, HeldRun
<1>8. LimitsRight'
  <2>1. \A u \in resumes' : status'[u] = "limited" /\ (Await("resume", u, stops) \in waits => Await("resume", u, stops) \in rest)
    BY <1>1, <1>4, <1>6 DEF LimitsRight, RestTypes, Await
  <2>2. resumes' \subseteq resumes /\ (armed /\ resumes' # {} => armed') /\ stops' = stops
    BY <1>1
  <2> HIDE DEF rest
  <2> QED BY <1>6, <1>7, <2>1, <2>2, LimitsStay
<1>9. RestTypes'
  BY <1>1, <1>2, <1>6, <1>7 DEF RestTypes
<1>10. WorkInv'
  BY <1>1, WorkSame
<1>11. WaitsRight'
  <2>1. ASSUME NEW v \in rest PROVE WaitRight(v)'
    <3>1. WaitRight(v) /\ v.do # "completed"
      BY <1>1 DEF WaitsRight, OneLands
    <3>2. v.do \in Forces => v.task \in Task /\ v.task # t
      BY <1>2, <3>1 DEF WaitRight, Forces
    <3> QED BY <1>1, <1>4, <1>6, <3>1, <3>2 DEF WaitRight, HasLive
  <2>2. OneLands(rest)
    BY DEF WaitsRight, OneLands
  <2> HIDE DEF rest
  <2> QED BY <1>6, <2>1, <2>2, WaitsAfter
<1> QED BY <1>6, <1>8, <1>9, <1>10, <1>11
-----------------------------------------------------------------------------
(* What the user asks for. *)

(* A question more was asked. *)
LEMMA ControlIs ==
    ASSUME RestTypes, NEW c, Control(c)
    PROVE  inputs' \in Nat
BY DEF RestTypes, Control

(* Execute begins a new run, of which nothing is at work and nothing waits on a reset. *)
LEMMA BeginRunKeeps ==
    ASSUME SchedInv, BeginRun
    PROVE  SchedInv'
<1> DEFINE s == [t \in Task |-> IF status[t] \in Done THEN status[t] ELSE "pending"]
<1> USE DEF SchedInv
<1>1. /\ Control("execute") /\ completing = {} /\ LiveTasks = {}
      /\ run' = NextRunState(NextRunState(NextRunState(run, "stop"), "load"), "schedule")
      /\ onHold' = [t \in Task |-> IF onHold[t] = "chosen" THEN "chosen" ELSE "no"]
      /\ resumes' = {} /\ armed' = FALSE /\ stopped' = FALSE
      /\ UNCHANGED <<completing, planning, stops, live, attempt>>
      /\ Tick(s, <<>>, waits)
  BY DEF BeginRun, Asks
<1>2. inputs' \in Nat
  BY <1>1, ControlIs
<1>3. run' \in RunStates /\ run'.kind # "held"
  <2>1. NextRunState(run, "stop") \in RunStates
    BY RunMoves DEF RestTypes, RunEvent
  <2>2. NextRunState(NextRunState(run, "stop"), "load") \in RunStates
    BY <2>1, RunMoves DEF RunEvent
  <2> QED BY <1>1, <2>2, RunMoves DEF RunEvent
<1>4. s \in [Task -> Status] /\ \A t \in Task : s[t] \notin {"in_progress", "asking"} /\ (s[t] = "completed" => status[t] = "completed")
  BY DEF TasksRight, Status, Done
<1>5. \A t \in Task : ~HasLive(t) /\ ~HasLive(t)'
  BY <1>1 DEF LiveTasks, HasLive
<1> HIDE DEF s
<1>6. Fits(s)
  BY <1>1, <1>4, <1>5 DEF Fits
<1>7. /\ status' = s /\ TasksRight' /\ Leaves(waits)
      /\ queued' \in Seq(Task) /\ ticks' \in SUBSET TickRecord /\ waits' \in SUBSET WaitRecord
  <2>1. <<>> \in Seq(Task) /\ waits \in SUBSET WaitRecord /\ stops' \in Nat /\ completing' \subseteq Task
    BY <1>1 DEF RestTypes
  <2> QED BY <1>1, <1>6, <2>1, TickKeeps
<1>8. RestTypes'
  BY <1>1, <1>2, <1>3, <1>7 DEF RestTypes
<1>9. WorkInv'
  BY <1>1, WorkSame
<1>10. LimitsRight'
  BY <1>1, <1>3 DEF LimitsRight, HeldRun
<1>11. Mild
  BY <1>1, <1>4, <1>5, <1>7 DEF Mild
<1> QED BY <1>7, <1>8, <1>9, <1>10, <1>11, MildLeaves

(* Execute joins a run under way. *)
LEMMA JoinRunKeeps ==
    ASSUME SchedInv, JoinRun
    PROVE  SchedInv'
<1> DEFINE fresh == ~Scheduling /\ run.from # "scheduling"
           s == [t \in Task |-> IF fresh /\ status[t] = "failed" /\ ~HasLive(t) THEN "pending" ELSE status[t]]
<1> USE DEF SchedInv
<1>1. /\ Control("execute") /\ completing = {} /\ stopped' = FALSE
      /\ run' = (IF HeldRun THEN NextRunState(run, "join") ELSE NextRunState(run, "schedule"))
      /\ UNCHANGED <<resumes, armed, onHold, completing, planning, stops, live, attempt>>
      /\ \/ status' = s /\ UNCHANGED <<queued, ticks, waits>>
         \/ Tick(s, queued, waits)
  BY DEF JoinRun, Asks
<1>2. inputs' \in Nat
  BY <1>1, ControlIs
<1>3. run' \in RunStates /\ (HeldRun' <=> HeldRun)
  BY <1>1, RunMoves DEF RestTypes, RunEvent, HeldRun
<1>4. s \in [Task -> Status] /\ \A t \in Task : s[t] = status[t] \/ (~HasLive(t) /\ status[t] = "failed" /\ s[t] = "pending")
  BY DEF TasksRight, Status
<1> HIDE DEF s, fresh
<1>5. Fits(s)
  BY <1>1, <1>4 DEF Fits, TasksRight, StatusTellsTheTruth, HasLive
<1>6. /\ status' = s /\ TasksRight' /\ Leaves(waits)
      /\ queued' \in Seq(Task) /\ ticks' \in SUBSET TickRecord /\ waits' \in SUBSET WaitRecord
  <2>1. queued \in Seq(Task) /\ waits \in SUBSET WaitRecord /\ stops' \in Nat /\ completing' \subseteq Task
    BY <1>1 DEF RestTypes
  <2>2. CASE Tick(s, queued, waits)
    BY <1>5, <2>1, <2>2, TickKeeps
  <2>3. CASE status' = s /\ UNCHANGED <<queued, ticks, waits>>
    BY <1>5, <2>1, <2>3, FitsIsRight, LeavesThem DEF RestTypes
  <2> QED BY <1>1, <2>2, <2>3
<1>7. RestTypes'
  BY <1>1, <1>2, <1>3, <1>6 DEF RestTypes
<1>8. WorkInv'
  BY <1>1, WorkSame
<1>9. LimitsRight'
  BY <1>1, <1>3, <1>4, <1>6 DEF LimitsRight, HeldRun, Leaves, RestTypes
<1>10. Mild
  BY <1>1, <1>4, <1>6 DEF Mild, HasLive
<1> QED BY <1>6, <1>7, <1>8, <1>9, <1>10, MildLeaves

(* Stop takes every task its attempt: no record is left live, and no runner unasked to go. *)
LEMMA StopKeeps ==
    ASSUME SchedInv, Stop
    PROVE  SchedInv'
<1> USE DEF SchedInv
<1>1. /\ Control("stop") /\ stops' = stops + 1 /\ run' = NextRunState(run, "stop")
      /\ live' = [t \in Task |-> None] /\ attempt' = [a \in Attempt |-> LetGo(attempt[a])]
      /\ onHold' = [t \in Task |-> IF onHold[t] = "chosen" THEN "chosen" ELSE "no"]
      /\ queued' = <<>> /\ resumes' = {} /\ armed' = FALSE /\ stopped' = TRUE
      /\ UNCHANGED <<completing, planning, ticks, waits>>
      /\ status' = Recovered([t \in Task |-> IF HasLive(t) THEN "pending" ELSE status[t]])
  BY DEF Stop
<1>2. inputs' \in Nat
  BY <1>1, ControlIs
<1>3. run' \in RunStates /\ run'.kind # "held"
  BY <1>1, RunMoves DEF RestTypes, RunEvent
<1>4. \A t \in Task : ~HasLive(t)' /\ live'[t] = None
  BY <1>1 DEF HasLive
<1>5. \A a \in Attempt :
        /\ attempt'[a] \in AttemptRecord /\ attempt'[a].task = attempt[a].task /\ attempt'[a].at # "up" /\ attempt'[a].runner # "up"
        /\ attempt'[a].at # "over" => attempt'[a] = attempt[a]
  <2> TAKE a \in Attempt
  <2>1. attempt'[a] = LetGo(attempt[a]) /\ attempt[a] \in AttemptRecord /\ (attempt[a].runner = "up" <=> attempt[a].at = "up")
    BY <1>1 DEF WorkInv, WorkTypes, AttemptsRight
  <2> QED BY <2>1 DEF LetGo, AttemptRecord
<1>6. WorkTypes'
  BY <1>1, <1>5 DEF WorkTypes
<1>7. AttemptsRight'
  BY <1>4, <1>5 DEF AttemptsRight, WorkInv, Starting
<1>8. \A a \in Attempt : ~Current(a)'
  BY <1>4, <1>6, NoneAssumption DEF Current, WorkTypes, AttemptRecord
<1>9. SlotsRight'
  <2>1. LiveTasks' \subseteq LiveTasks
    BY <1>4 DEF LiveTasks
  <2> QED BY <2>1, FewerSlots DEF WorkInv
<1>10. WorkInv'
  BY <1>6, <1>7, <1>8, <1>9 DEF WorkInv, SessionInOneProcess
<1>11. status' \in [Task -> Status] /\ \A t \in Task : status'[t] \notin {"in_progress", "asking"}
        /\ (status'[t] = "completed" => status[t] = "completed")
  <2> DEFINE s == [t \in Task |-> IF HasLive(t) THEN "pending" ELSE status[t]]
  <2>1. s \in [Task -> Status] /\ \A t \in Task : s[t] \notin {"in_progress", "asking"} /\ (s[t] = "completed" => status[t] = "completed")
    BY DEF TasksRight, StatusTellsTheTruth, Status
  <2> HIDE DEF s
  <2>2. status' = [t \in Task |-> IF s[t] = "in_progress" /\ live'[t] = None /\ t \notin completing' THEN "pending" ELSE s[t]]
    BY <1>1 DEF Recovered, s
  <2>3. \A t \in Task : status'[t] = s[t]
    BY <2>1, <2>2
  <2>4. status' = s
    BY <2>1, <2>2, <2>3
  <2> QED BY <2>1, <2>4
<1>12. TasksRight'
  BY <1>1, <1>4, <1>11 DEF TasksRight, StatusTellsTheTruth, LandsAlone, RestTypes
<1>13. LimitsRight'
  BY <1>1, <1>3 DEF LimitsRight, HeldRun
<1>14. RestTypes'
  <2>1. queued' \in Seq(Task) /\ onHold' \in [Task -> {"no", "chosen", "unchosen"}] /\ stops' \in Nat
    BY <1>1 DEF RestTypes
  <2>2. resumes' \in SUBSET Task /\ armed' \in BOOLEAN /\ stopped' \in BOOLEAN
    BY <1>1
  <2>3. completing' = completing /\ planning' = planning /\ ticks' = ticks /\ waits' = waits
    BY <1>1
  <2> QED BY <1>2, <1>3, <2>1, <2>2, <2>3 DEF RestTypes
<1>15. WaitsRight'
  <2>1. Mild
    BY <1>1, <1>4, <1>11 DEF Mild
  <2>2. Leaves(waits)
    BY <1>1, LeavesThem
  <2> QED BY <2>1, <2>2, MildLeaves
<1> QED BY <1>10, <1>12, <1>13, <1>14, <1>15
(* A planner's turn begins: the starts wait, and nothing else changes. *)
LEMMA HoldStartsKeeps ==
    ASSUME SchedInv, HoldStarts
    PROVE  SchedInv'
<1> USE DEF SchedInv
<1>1. /\ Control("turn") /\ planning' = TRUE
      /\ UNCHANGED <<run, resumes, armed, status, onHold, queued, completing, stops, live, attempt, ticks, waits, stopped>>
  BY DEF HoldStarts, runVars
<1>2. inputs' \in Nat
  BY <1>1, ControlIs
<1>3. RestTypes'
  BY <1>1, <1>2 DEF RestTypes
<1>4. WorkInv' /\ TasksRight'
  BY <1>1, WorkSame, TasksStay
<1>5. LimitsRight'
  BY <1>1 DEF LimitsRight, HeldRun
<1>6. Mild
  BY <1>1 DEF Mild, HasLive
<1>7. Leaves(waits)
  BY <1>1, LeavesThem
<1> QED BY <1>3, <1>4, <1>5, <1>6, <1>7, MildLeaves

(* A tick that nothing comes before. *)
LEMMA TickAlone ==
    ASSUME SchedInv, UNCHANGED <<onHold, completing, stops, live, attempt>>, Tick(status, queued, waits),
           run' \in RunStates, resumes' \in SUBSET Task, armed' \in BOOLEAN, planning' \in BOOLEAN, inputs' \in Nat, stopped' \in BOOLEAN,
           resumes' \subseteq resumes, HeldRun' <=> resumes' # {}, armed /\ resumes' # {} => armed'
    PROVE  SchedInv'
<1> USE DEF SchedInv
<1>1. /\ status' = status /\ TasksRight' /\ Leaves(waits)
      /\ queued' \in Seq(Task) /\ ticks' \in SUBSET TickRecord /\ waits' \in SUBSET WaitRecord
  <2>1. queued \in Seq(Task) /\ waits \in SUBSET WaitRecord /\ stops' \in Nat /\ completing' \subseteq Task /\ Fits(status)
    BY FitsStill DEF RestTypes
  <2> QED BY <2>1, TickKeeps
<1>2. RestTypes'
  BY <1>1 DEF RestTypes
<1>3. WorkInv'
  BY WorkSame
<1>4. LimitsRight'
  <2>1. \A t \in resumes' : status'[t] = "limited" /\ (Await("resume", t, stops) \in waits => Await("resume", t, stops) \in waits)
    BY <1>1 DEF LimitsRight
  <2> QED BY <1>1, <2>1, LimitsStay
<1>5. Mild
  BY <1>1 DEF Mild, HasLive
<1> QED BY <1>1, <1>2, <1>3, <1>4, <1>5, MildLeaves

(* The planner's turn is over. *)
LEMMA ReleaseStartsKeeps ==
    ASSUME SchedInv, ReleaseStarts
    PROVE  SchedInv'
<1>1. /\ planning' = FALSE /\ Tick(status, queued, waits)
      /\ UNCHANGED <<run, resumes, armed, onHold, completing, stops, live, attempt, inputs, stopped>>
  BY DEF ReleaseStarts, runVars
<1>2. /\ run' \in RunStates /\ resumes' \in SUBSET Task /\ armed' \in BOOLEAN /\ planning' \in BOOLEAN
      /\ inputs' \in Nat /\ stopped' \in BOOLEAN
  BY <1>1 DEF SchedInv, RestTypes
<1>3. resumes' \subseteq resumes /\ (HeldRun' <=> resumes' # {}) /\ (armed /\ resumes' # {} => armed')
  BY <1>1 DEF SchedInv, LimitsRight, HeldRun
<1> QED BY <1>1, <1>2, <1>3, TickAlone

(* A wait on a reset is called off. *)
LEMMA CancelScheduledResumeKeeps ==
    ASSUME SchedInv, NEW t \in Task, CancelScheduledResume(t)
    PROVE  SchedInv'
<1>1. /\ Control("cancel resume") /\ CancelResume(t) /\ Tick(status, queued, waits)
      /\ UNCHANGED <<onHold, completing, planning, stops, live, attempt, stopped>>
  BY DEF CancelScheduledResume
<1>2. inputs' \in Nat /\ planning' \in BOOLEAN /\ stopped' \in BOOLEAN
  BY <1>1, ControlIs DEF SchedInv, RestTypes
<1>3. /\ run' \in RunStates /\ resumes' \in SUBSET Task /\ armed' \in BOOLEAN
      /\ resumes' = resumes \ {t}
      /\ HeldRun' <=> resumes' # {}
      /\ armed /\ resumes' # {} => armed'
  BY <1>1, CancelKeeps DEF SchedInv
<1> QED BY <1>1, <1>2, <1>3, TickAlone

(* A control that ends a task's attempt, if it has one, says what its status is from now on. *)
LEMMA EndLiveKeeps ==
    ASSUME SchedInv, NEW t \in Task, NEW x \in Status \ {"in_progress", "asking", "completed"},
           EndLive(t), status' = Moved(t, x), completing' = completing
    PROVE  WorkInv' /\ TasksRight' /\ Mild
<1> USE DEF SchedInv
<1>1. \A u \in Task : status'[u] = IF u = t THEN x ELSE status[u]
  BY DEF TasksRight, Moved
<1>2. status' \in [Task -> Status]
  BY DEF TasksRight, Moved
<1>3. CASE ~HasLive(t)
  <2>1. live' = live /\ attempt' = attempt
    BY <1>3 DEF EndLive, HasLive, WorkInv, WorkTypes
  <2>2. WorkInv'
    BY <2>1, WorkSame
  <2>3. TasksRight'
    BY <1>1, <1>2, <1>3, <2>1 DEF TasksRight, StatusTellsTheTruth, LandsAlone, HasLive, RestTypes
  <2>4. Mild
    BY <1>1, <2>1 DEF Mild, HasLive
  <2> QED BY <2>2, <2>3, <2>4
<1>4. CASE HasLive(t)
  <2> DEFINE a == live[t]
             r == LetGo(attempt[a])
  <2>1. a \in Attempt /\ attempt[a] \in AttemptRecord /\ attempt[a].task = t
        /\ (attempt[a].runner = "up" <=> attempt[a].at = "up") /\ (attempt[a].at \in Starting => attempt[a].runner = "none")
    BY <1>4 DEF HasLive, WorkInv, WorkTypes, AttemptsRight
  <2>2. live' = [live EXCEPT ![t] = None] /\ attempt' = [attempt EXCEPT ![live[t]] = r]
    BY <1>4 DEF EndLive
  <2>3. r \in AttemptRecord /\ r.task = t /\ r.runner # "up" /\ r.at # "up" /\ (r.at \in Starting => r.runner = "none")
    BY <2>1 DEF LetGo, AttemptRecord, Starting
  <2>4. t # None
    BY NoneAssumption
  <2> HIDE DEF r
  <2>5. WorkInv'
    BY <1>4, <2>2, <2>3, <2>4, WorkOver
  <2>6. /\ \A u \in Task : live'[u] = IF u = t THEN None ELSE live[u]
        /\ \A u \in Task : u # t => live[u] # a
        /\ \A b \in Attempt : b # a => attempt'[b] = attempt[b]
    BY <1>4, <2>1, <2>2 DEF WorkInv, WorkTypes, AttemptsRight, HasLive
  <2>7. TasksRight'
    BY <1>1, <1>2, <2>6 DEF TasksRight, StatusTellsTheTruth, LandsAlone, HasLive, RestTypes
  <2> HIDE DEF a
  <2>8. Mild
    BY <1>1, <2>6 DEF Mild, HasLive, WorkInv, WorkTypes
  <2> QED BY <2>5, <2>7, <2>8
<1> QED BY <1>3, <1>4

(* A running task is cancelled. *)
LEMMA CancelTaskKeeps ==
    ASSUME SchedInv, NEW t \in Task, CancelTask(t)
    PROVE  SchedInv'
<1> DEFINE more == Await("letgo", None, 0)
<1> USE DEF SchedInv
<1>1. /\ Control("cancel") /\ HasLive(t) /\ EndLive(t) /\ status' = Moved(t, "pending")
      /\ onHold' = [onHold EXCEPT ![t] = "chosen"] /\ waits' = waits \cup {more}
      /\ UNCHANGED <<run, resumes, armed, queued, completing, planning, stops, ticks, stopped>>
  BY DEF CancelTask, runVars
<1>2. inputs' \in Nat
  BY <1>1, ControlIs
<1>3. more \in WaitRecord /\ more.do = "letgo"
  BY DEF Await, WaitRecord, Awaited
<1> HIDE DEF more
<1>4. WorkInv' /\ TasksRight' /\ Mild
  BY <1>1, EndLiveKeeps DEF Status
<1>5. RestTypes'
  BY <1>1, <1>2, <1>3 DEF RestTypes
<1>6. t \notin resumes
  BY <1>1 DEF LimitsRight, TasksRight, StatusTellsTheTruth
<1>7. LimitsRight'
  BY <1>1, <1>6 DEF LimitsRight, HeldRun, Moved, TasksRight, RestTypes
<1>8. Leaves(waits \cup {more})
  BY <1>1, LeavesThem
<1>9. WaitsRight'
  BY <1>3, <1>4, <1>8, MildLeaves DEF Forces
<1> QED BY <1>4, <1>5, <1>7, <1>9

(* A control moves a task to where the run may take it up, or past it: no reset is waited for any more. *)
LEMMA MovedKeeps ==
    ASSUME SchedInv, NEW t \in Task, NEW x \in {"pending", "skipped"}, NEW do \in {"retried", "skipped"},
           EndLive(t), CancelResume(t), status' = Moved(t, x), onHold' = [onHold EXCEPT ![t] = "no"],
           waits' = waits \cup {Await(do, t, stops)}, inputs' \in Nat,
           UNCHANGED <<queued, completing, planning, stops, ticks, stopped>>
    PROVE  SchedInv'
<1> DEFINE more == Await(do, t, stops)
<1> USE DEF SchedInv
<1>1. more \in WaitRecord /\ more.do = do /\ more.task = t
  BY DEF Await, WaitRecord, Awaited, RestTypes
<1>2. waits' = waits \cup {more}
  OBVIOUS
<1> HIDE DEF more
<1>3. WorkInv' /\ TasksRight' /\ Mild
  <2>1. x \in Status \ {"in_progress", "asking", "completed"}
    BY DEF Status
  <2> QED BY <2>1, EndLiveKeeps
<1>4. /\ run' \in RunStates /\ resumes' \in SUBSET Task /\ armed' \in BOOLEAN
      /\ resumes' = resumes \ {t}
      /\ HeldRun' <=> resumes' # {}
      /\ armed /\ resumes' # {} => armed'
  BY CancelKeeps
<1>5. RestTypes'
  BY <1>1, <1>2, <1>4 DEF RestTypes
<1>6. Leaves(waits \cup {more})
  BY <1>2, LeavesThem
<1>7. LimitsRight'
  <2>1. \A u \in resumes' : status'[u] = "limited" /\ (Await("resume", u, stops) \in waits => Await("resume", u, stops) \in waits \cup {more})
    BY <1>4 DEF LimitsRight, Moved, TasksRight, RestTypes
  <2>2. resumes' \subseteq resumes /\ stops' = stops
    BY <1>4
  <2> QED BY <1>4, <1>6, <2>1, <2>2, LimitsStay
<1>8. WaitsRight'
  <2>1. \A w \in waits \cup {more} : w \in waits \/ (w.do \notin Forces \cup {"completed"} /\ (w.do \notin {"letgo", "verdict"} => w.task \in Task))
    BY <1>1 DEF Forces
  <2> QED BY <1>3, <1>6, <2>1, MildLeaves
<1> QED BY <1>3, <1>5, <1>7, <1>8

(* The user takes a task up again. *)
LEMMA RetryTaskKeeps ==
    ASSUME SchedInv, NEW t \in Task, RetryTask(t)
    PROVE  SchedInv'
<1>1. /\ Control("retry") /\ CancelResume(t) /\ status' = Moved(t, "pending") /\ onHold' = [onHold EXCEPT ![t] = "no"]
      /\ waits' = waits \cup {Await("retried", t, stops)} /\ ~HasLive(t)
      /\ UNCHANGED <<queued, completing, planning, stops, live, attempt, ticks, stopped>>
  BY DEF RetryTask, Asks
<1>2. inputs' \in Nat
  BY <1>1, ControlIs DEF SchedInv
<1>3. EndLive(t)
  <2>1. live' = [live EXCEPT ![t] = None]
    BY <1>1 DEF HasLive, SchedInv, WorkInv, WorkTypes
  <2> QED BY <1>1, <2>1 DEF EndLive
<1> QED BY <1>1, <1>2, <1>3, MovedKeeps

(* The user goes past a task. *)
LEMMA SkipTaskKeeps ==
    ASSUME SchedInv, NEW t \in Task, SkipTask(t)
    PROVE  SchedInv'
<1>1. /\ Control("skip") /\ CancelResume(t) /\ EndLive(t) /\ status' = Moved(t, "skipped") /\ onHold' = [onHold EXCEPT ![t] = "no"]
      /\ waits' = waits \cup {Await("skipped", t, stops)}
      /\ UNCHANGED <<queued, completing, planning, stops, ticks, stopped>>
  BY DEF SkipTask, Asks
<1>2. inputs' \in Nat
  BY <1>1, ControlIs DEF SchedInv
<1> QED BY <1>1, <1>2, MovedKeeps

(* A force start waits for its run to open, or in the queue. *)
LEMMA ForceStartKeeps ==
    ASSUME SchedInv, NEW t \in Task, ForceStart(t)
    PROVE  SchedInv'
<1>0. PICK more : more = Await(IF status[t] = "skipped" THEN "revive" ELSE "force", t, stops)
  OBVIOUS
<1> USE DEF SchedInv
<1>1. /\ Control("force") /\ completing = {} /\ ~HasLive(t) /\ status[t] # "completed" /\ stopped' = FALSE
      /\ UNCHANGED <<run, resumes, armed, status, completing, planning, stops, live, attempt, ticks>>
      /\ onHold' = onHold \/ onHold' = [onHold EXCEPT ![t] = "no"]
      /\ queued' = queued \/ queued' = Append(queued, t) \/ queued' = Dropped(queued, {t})
      /\ waits' = waits \/ waits' = waits \cup {more}
  BY <1>0 DEF ForceStart, Asks, runVars, Enqueued
<1>2. inputs' \in Nat
  BY <1>1, ControlIs
<1>3. more \in WaitRecord /\ more.do \in {"force", "revive"} /\ more.task = t
  BY <1>0 DEF Await, WaitRecord, Awaited, RestTypes
<1>4. queued' \in Seq(Task)
  <2>1. Dropped(queued, {t}) \in Seq(Task) /\ queued \in Seq(Task)
    BY DroppedIsQueue DEF RestTypes
  <2>2. Append(queued, t) \in Seq(Task)
    BY <2>1
  <2> QED BY <1>1, <2>1, <2>2
<1>5. RestTypes'
  BY <1>1, <1>2, <1>3, <1>4 DEF RestTypes
<1>6. WorkInv' /\ TasksRight'
  BY <1>1, WorkSame, TasksStay
<1>7. LimitsRight'
  BY <1>1 DEF LimitsRight, HeldRun
<1>8. WaitsRight'
  <2>1. Mild
    BY <1>1 DEF Mild, HasLive
  <2>2. \A w \in waits : WaitRight(w)'
    BY <2>1, MildWaits
  <2>3. WaitRight(more)'
    BY <1>1, <1>3 DEF WaitRight, HasLive, Forces
  <2>4. OneLands(waits')
    BY <1>1, <1>3 DEF WaitsRight, OneLands
  <2>5. \A w \in waits' : WaitRight(w)'
    BY <1>1, <2>2, <2>3
  <2> QED BY <2>4, <2>5 DEF WaitsRight
<1> QED BY <1>5, <1>6, <1>7, <1>8

(* Mark complete begins while nothing could move a task on unasked: its landing has the plan to itself. *)
LEMMA MarkTaskCompleteKeeps ==
    ASSUME SchedInv, NEW t \in Task, MarkTaskComplete(t)
    PROVE  SchedInv'
<1>0. PICK more : more = Await("completed", t, stops)
  OBVIOUS
<1> USE DEF SchedInv
<1>1. /\ Control("complete") /\ completing = {} /\ ~AdvancesOnItsOwn /\ status[t] # "completed"
      /\ completing' = {t} /\ waits' = waits \cup {more}
      /\ UNCHANGED <<run, resumes, armed, status, onHold, queued, planning, stops, live, attempt, ticks, stopped>>
  BY <1>0 DEF MarkTaskComplete, Asks, runVars
<1>2. inputs' \in Nat
  BY <1>1, ControlIs
<1>3. more \in WaitRecord /\ more.do = "completed" /\ more.task = t
  BY <1>0 DEF Await, WaitRecord, Awaited, RestTypes
<1>4. ~HasLive(t) /\ \A w \in waits : w.do \notin Forces
  BY <1>1 DEF AdvancesOnItsOwn, StartsPending, LiveTasks, Forces
<1>5. RestTypes'
  BY <1>1, <1>2, <1>3 DEF RestTypes
<1>6. WorkInv'
  BY <1>1, WorkSame
<1>7. TasksRight'
  BY <1>1, <1>4 DEF TasksRight, StatusTellsTheTruth, LandsAlone, HasLive
<1>8. LimitsRight'
  BY <1>1 DEF LimitsRight, HeldRun
<1>9. WaitsRight'
  <2>1. \A w \in waits : w.do # "completed" /\ WaitRight(w)
    BY <1>1 DEF WaitsRight, WaitRight
  <2>2. \A w \in waits : WaitRight(w)'
    BY <1>4, <2>1 DEF WaitRight
  <2>3. WaitRight(more)'
    BY <1>1, <1>3 DEF WaitRight, Forces
  <2>4. OneLands(waits')
    BY <1>1, <1>3, <2>1 DEF OneLands
  <2>5. \A w \in waits' : WaitRight(w)'
    BY <1>1, <2>2, <2>3
  <2> QED BY <2>4, <2>5 DEF WaitsRight
<1> QED BY <1>5, <1>6, <1>7, <1>8, <1>9

(* The user takes a completion back. *)
LEMMA MarkTaskIncompleteKeeps ==
    ASSUME SchedInv, NEW t \in Task, MarkTaskIncomplete(t)
    PROVE  SchedInv'
<1> DEFINE s == [status EXCEPT ![t] = "pending"]
<1> USE DEF SchedInv
<1>1. /\ Control("incomplete") /\ completing = {} /\ status[t] = "completed" /\ onHold' = [onHold EXCEPT ![t] = "chosen"]
      /\ UNCHANGED <<run, resumes, armed, completing, planning, stops, live, attempt, stopped>>
      /\ Tick(s, queued, waits)
  BY DEF MarkTaskIncomplete, Asks, runVars, Moved
<1>2. inputs' \in Nat
  BY <1>1, ControlIs
<1>3. s \in [Task -> Status] /\ \A u \in Task : s[u] = IF u = t THEN "pending" ELSE status[u]
  BY DEF TasksRight, Status
<1> HIDE DEF s
<1>4. Fits(s)
  BY <1>1, <1>3 DEF Fits, TasksRight, StatusTellsTheTruth, HasLive
<1>5. /\ status' = s /\ TasksRight' /\ Leaves(waits)
      /\ queued' \in Seq(Task) /\ ticks' \in SUBSET TickRecord /\ waits' \in SUBSET WaitRecord
  <2>1. queued \in Seq(Task) /\ waits \in SUBSET WaitRecord /\ stops' \in Nat /\ completing' \subseteq Task
    BY <1>1 DEF RestTypes
  <2> QED BY <1>1, <1>4, <2>1, TickKeeps
<1>6. RestTypes'
  BY <1>1, <1>2, <1>5 DEF RestTypes
<1>7. WorkInv'
  BY <1>1, WorkSame
<1>8. LimitsRight'
  <2>1. t \notin resumes
    BY <1>1 DEF LimitsRight
  <2> QED BY <1>1, <1>3, <1>5, <2>1 DEF LimitsRight, HeldRun, Leaves, RestTypes
<1>9. Mild
  BY <1>1, <1>3, <1>5 DEF Mild, HasLive
<1> QED BY <1>5, <1>6, <1>7, <1>8, <1>9, MildLeaves
(* A runner asks. *)
LEMMA AskedKeeps ==
    ASSUME SchedInv, NEW a \in Attempt, Ask(a)
    PROVE  SchedInv'
<1> DEFINE t == attempt[a].task
<1>1. /\ Current(a) /\ status' = [status EXCEPT ![t] = "asking"]
      /\ UNCHANGED <<runVars, restVars, live, attempt, waits>>
  BY DEF Ask, restVars
<1>2. t \in Task /\ HasLive(t) /\ t \notin completing /\ t \notin resumes
  BY <1>1, CurrentIs
<1> HIDE DEF t
<1> QED BY <1>1, <1>2, AskKeeps

(* The user answers. *)
LEMMA AnswerKeeps ==
    ASSUME SchedInv, NEW t \in Task, Answer(t)
    PROVE  SchedInv'
<1>1. /\ status[t] = "asking" /\ status' = [status EXCEPT ![t] = "in_progress"]
      /\ UNCHANGED <<runVars, restVars, live, attempt, waits>>
  BY DEF Answer, restVars
<1>2. HasLive(t) /\ t \notin completing /\ t \notin resumes
  BY <1>1 DEF SchedInv, TasksRight, StatusTellsTheTruth, LandsAlone, LimitsRight
<1> QED BY <1>1, <1>2, AskKeeps

-----------------------------------------------------------------------------
(* The scheduler. *)

(* It begins with nothing at work and nothing waited for. *)
LEMMA InitKeeps == Init => SchedInv
<1> SUFFICES ASSUME Init PROVE SchedInv
  OBVIOUS
<1> USE DEF Init
<1>1. RestTypes
  <2>1. run \in RunStates
    BY DEF Run, RunStates, Kind, HeldFrom
  <2>2. onHold \in [Task -> {"no", "chosen", "unchosen"}] /\ queued \in Seq(Task)
    OBVIOUS
  <2> QED BY <2>1, <2>2 DEF RestTypes
<1>2. WorkTypes
  BY UnusedIs DEF WorkTypes
<1>3. AttemptsRight
  BY UnusedIs DEF AttemptsRight, HasLive, Starting
<1>4. SessionInOneProcess
  BY UnusedIs DEF SessionInOneProcess
<1>5. SlotsRight
  <2>1. LiveTasks = {}
    BY DEF LiveTasks, HasLive
  <2> QED BY <2>1, FS_EmptySet, MaxParallelAssumption DEF SlotsRight, SlotsHold
<1>6. TasksRight
  BY DEF TasksRight, StatusTellsTheTruth, LandsAlone, HasLive, Status
<1>7. LimitsRight /\ WaitsRight
  BY DEF LimitsRight, HeldRun, Run, WaitsRight, OneLands
<1> QED BY <1>1, <1>2, <1>3, <1>4, <1>5, <1>6, <1>7 DEF SchedInv, WorkInv

(* Every step keeps the inductive invariant. *)
LEMMA NextKeeps == SchedInv /\ [Next]_vars => SchedInv'
<1> SUFFICES ASSUME SchedInv, [Next]_vars PROVE SchedInv'
  OBVIOUS
<1>1. ASSUME NEW e \in ticks, TickMoves(e) PROVE SchedInv'
  BY <1>1, QueueGoesOnKeeps, TickGoesOnKeeps DEF TickMoves
<1>2. ASSUME NEW w \in waits, GoesOn(w) PROVE SchedInv'
  <2>1. CASE StartGoesOn(w) \/ AfterVerdict(w) \/ LetGoOver(w)
    BY <2>1, StartGoesOnKeeps, AfterVerdictKeeps
  <2>2. CASE ResumeGoesOn(w) \/ ControlGoesOn(w) \/ ForceGoesOn(w)
    BY <2>2, ResumeGoesOnKeeps, ControlGoesOnKeeps, ForceGoesOnKeeps
  <2>3. CASE \E landed \in BOOLEAN : CompletedGoesOn(w, landed)
    BY <2>3, CompletedGoesOnKeeps
  <2> QED BY <1>2, <2>1, <2>2, <2>3 DEF GoesOn
<1>3. ASSUME NEW a \in Attempt, AttemptMoves(a) \/ Ask(a) PROVE SchedInv'
  <2>1. CASE WoundDown(a) \/ Opened(a) \/ Spawned(a) \/ RunnerGone(a)
    BY <2>1, WoundDownKeeps, SpawnGoesOnKeeps, RunnerGoneKeeps
  <2>2. ASSUME NEW how \in {"failed", "held", "limited", "limited, with a reset"}, SpawnFails(a, how) PROVE SchedInv'
    BY <2>2, SpawnFailsKeeps
  <2>3. CASE Verdict(a) \/ Ask(a)
    BY <2>3, VerdictKeeps, AskedKeeps
  <2>4. ASSUME NEW how \in {"passed", "failed", "limited", "limited, with a reset"}, Decided(a, how) PROVE SchedInv'
    BY <2>4, DecidedKeeps
  <2>5. ASSUME NEW how \in {"completed", "conflict", "failed"}, Landed(a, how) PROVE SchedInv'
    BY <2>5, LandedKeeps
  <2> QED BY <1>3, <2>1, <2>2, <2>3, <2>4, <2>5 DEF AttemptMoves
<1>4. CASE ResetComes \/ ReleaseStarts
  BY <1>4, ResetComesKeeps, ReleaseStartsKeeps
<1>5. CASE UserMoves
  <2>1. CASE BeginRun \/ JoinRun \/ Stop \/ HoldStarts
    BY <2>1, BeginRunKeeps, JoinRunKeeps, StopKeeps, HoldStartsKeeps
  <2>2. ASSUME NEW t \in Task, CancelTask(t) \/ RetryTask(t) \/ SkipTask(t) \/ CancelScheduledResume(t) PROVE SchedInv'
    BY <2>2, CancelTaskKeeps, RetryTaskKeeps, SkipTaskKeeps, CancelScheduledResumeKeeps
  <2>3. ASSUME NEW t \in Task, ForceStart(t) \/ MarkTaskComplete(t) \/ MarkTaskIncomplete(t) \/ Answer(t) PROVE SchedInv'
    BY <2>3, ForceStartKeeps, MarkTaskCompleteKeeps, MarkTaskIncompleteKeeps, AnswerKeeps
  <2> QED BY <1>5, <2>1, <2>2, <2>3 DEF UserMoves
<1>6. CASE UNCHANGED vars
  <2>1. UNCHANGED <<runVars, restVars, status, live, attempt, waits>>
    BY <1>6 DEF vars, restVars
  <2>2. WorkInv'
    BY <2>1, WorkSame DEF SchedInv
  <2>3. Mild
    BY <2>1 DEF Mild, HasLive, restVars
  <2> QED BY <2>1, <2>2, <2>3, AttemptAlone
<1> QED BY <1>1, <1>2, <1>3, <1>4, <1>5, <1>6 DEF Next

(* The inductive invariant holds. *)
LEMMA SchedInvHolds == Spec => []SchedInv
BY InitKeeps, NextKeeps, PTL DEF Spec

\* Every value the scheduler keeps is of the kind the code declares: no record of an
\* attempt, tick or wait is left half made by a handler that awaits.
THEOREM SchedTypeCorrect == Spec => []TypeOK
<1>1. SchedInv => TypeOK
  BY DEF SchedInv, RestTypes, WorkInv, WorkTypes, TasksRight, TypeOK, TickRecord, WaitRecord
<1> QED BY <1>1, SchedInvHolds, PTL

\* A task reads as running exactly while an attempt of it is, no runner is up that is not its
\* task's, and the attempts are never more than the slots: whatever order claims, spawns,
\* verdicts, Stops, retries and skips come in, and however many tasks and slots there are.
THEOREM WorkAccounted == Spec => []WorkIsAccountedFor
<1>1. SchedInv => WorkIsAccountedFor
  <2> SUFFICES ASSUME SchedInv PROVE WorkIsAccountedFor
    OBVIOUS
  <2>1. NoStrayRunner
    BY DEF SchedInv, WorkInv, AttemptsRight, NoStrayRunner
  <2> QED BY <2>1 DEF SchedInv, WorkInv, TasksRight, SlotsRight, WorkIsAccountedFor
<1> QED BY <1>1, SchedInvHolds, PTL

\* A session resumed at a reset is never in two processes, for any number of attempts of its task.
THEOREM OneProcessPerSession == Spec => []SessionInOneProcess
<1>1. SchedInv => SessionInOneProcess
  BY DEF SchedInv, WorkInv
<1> QED BY <1>1, SchedInvHolds, PTL

\* What a usage limit holds, the run or a task, has something armed or under way that will let
\* it go, whatever was cancelled, stopped, retried or completed by hand meanwhile.
THEOREM LimitIsAlwaysOwed == Spec => []LimitIsOwed
<1>1. SchedInv => LimitIsOwed
  <2> SUFFICES ASSUME SchedInv PROVE LimitIsOwed
    OBVIOUS
  <2>1. \A t \in resumes : HeldRun /\ status[t] = "limited" /\ (armed \/ \E w \in waits : w.do = "resume" /\ w.task = t)
    <3>1. \A t : Await("resume", t, stops).do = "resume" /\ Await("resume", t, stops).task = t
      BY DEF Await
    <3> QED BY <3>1 DEF SchedInv, LimitsRight
  <2>2. HeldRun => resumes # {}
    BY DEF SchedInv, LimitsRight
  <2> QED BY <2>1, <2>2 DEF LimitIsOwed, HoldIsOwed, ResetIsAwaited
<1> QED BY <1>1, SchedInvHolds, PTL
-----------------------------------------------------------------------------
(* The plan's order. *)

(* What is reached from some tasks holds those tasks. *)
LEMMA BehindHolds ==
    ASSUME NEW from \in SUBSET Task, NEW through
    PROVE  from \subseteq Behind(from, through)
BY DEF Behind

(* What is reached through a task is reached. *)
LEMMA BehindGoesOn ==
    ASSUME NEW from \in SUBSET Task, NEW through, NEW u \in from, u \in through
    PROVE  Behind(Deps[u], through) \subseteq Behind(from, through)
<1> SUFFICES ASSUME NEW f \in Behind(Deps[u], through), NEW S \in SUBSET Task,
                    from \subseteq S, \A v \in S \cap through : Deps[v] \subseteq S
             PROVE  f \in S
  BY DEF Behind
<1>1. Deps[u] \subseteq S
  OBVIOUS
<1> QED BY <1>1 DEF Behind

(* A task not started with an undone dependency that has failed, or is blocked, is blocked itself. *)
LEMMA BlockedBehind ==
    ASSUME NEW s, NEW t \in Task, s[t] = "pending", NEW u \in Deps[t],
           u \in Of(s, {"failed"}) \cup Blocked(s)
    PROVE  t \in Blocked(s)
<1> DEFINE pending == Of(s, {"pending"})
<1>1. Deps[t] \in SUBSET Task /\ t \in pending
  BY DepsAssumption DEF Of
<1>2. Deps[t] \subseteq Behind(Deps[t], pending)
  <2> HIDE DEF pending
  <2> QED BY <1>1, BehindHolds
<1>3. CASE u \in Of(s, {"failed"})
  BY <1>1, <1>2, <1>3 DEF Blocked
<1>4. CASE u \in Blocked(s)
  <2>1. u \in pending /\ Behind(Deps[u], pending) \cap Of(s, {"failed"}) # {}
    BY <1>4 DEF Blocked
  <2>2. Behind(Deps[u], pending) \subseteq Behind(Deps[t], pending)
    <3> HIDE DEF pending
    <3> QED BY <1>1, <2>1, BehindGoesOn
  <2> QED BY <1>1, <2>1, <2>2 DEF Blocked
<1> QED BY <1>3, <1>4

(* What waits behind nothing, past failures, is left with dependencies that can no longer be done. *)
LEMMA NothingBehind ==
    ASSUME NEW s, NEW t \in Task, NEW past \in BOOLEAN, WaitingBehind(s, t, past) = {}, NEW u \in Deps[t], s[u] \notin Done
    PROVE  past /\ u \in Of(s, {"failed"}) \cup Blocked(s)
<1>1. u \in IF past THEN Behind(Deps[t], Blocked(s)) ELSE Deps[t]
  BY DepsAssumption, BehindHolds
<1> QED BY <1>1 DEF WaitingBehind

(* A step that gives a task an attempt is a start, a resume or a force start that goes on. *)
LEMMA ClaimsAre ==
    ASSUME SchedInv, [Next]_vars, NEW t \in Task, ~HasLive(t), HasLive(t)'
    PROVE  \E w \in waits : w.task = t /\ (StartGoesOn(w) \/ ResumeGoesOn(w) \/ ForceGoesOn(w))
<1>0. live \in [Task -> Attempt \cup {None}]
  BY DEF SchedInv, WorkInv, WorkTypes
<1>1. live' # live /\ ~(\E u : live' = [live EXCEPT ![u] = None])
  BY <1>0 DEF HasLive
<1>2. \A e \in ticks : ~TickMoves(e)
  BY <1>1 DEF TickMoves, QueueGoesOn, TickGoesOn
<1>3. ASSUME NEW a \in Attempt PROVE ~AttemptMoves(a) /\ ~Ask(a)
  <2>1. ~(WoundDown(a) \/ Opened(a) \/ Spawned(a) \/ RunnerGone(a) \/ Verdict(a) \/ Ask(a))
    BY <1>1 DEF WoundDown, Opened, Spawned, RunnerGone, Verdict, Ask
  <2>2. \A how : ~SpawnFails(a, how) /\ ~Decided(a, how) /\ ~Landed(a, how)
    BY <1>1 DEF SpawnFails, Decided, Landed
  <2> QED BY <2>1, <2>2 DEF AttemptMoves
<1>4. ~ResetComes /\ ~ReleaseStarts /\ ~(UNCHANGED vars)
  BY <1>1 DEF ResetComes, ReleaseStarts, vars
<1>5. ~UserMoves
  <2>1. ~BeginRun /\ ~JoinRun /\ ~HoldStarts
    BY <1>1 DEF BeginRun, JoinRun, HoldStarts
  <2>2. ~Stop
    BY DEF Stop, HasLive
  <2>3. ASSUME NEW u \in Task
        PROVE  ~(CancelTask(u) \/ RetryTask(u) \/ SkipTask(u) \/ CancelScheduledResume(u) \/ ForceStart(u)
                 \/ MarkTaskComplete(u) \/ MarkTaskIncomplete(u) \/ Answer(u))
    BY <1>1 DEF CancelTask, RetryTask, SkipTask, EndLive, CancelScheduledResume, ForceStart, MarkTaskComplete, MarkTaskIncomplete, Answer
  <2> QED BY <2>1, <2>2, <2>3 DEF UserMoves
<1>6. PICK w \in waits : GoesOn(w)
  BY <1>2, <1>3, <1>4, <1>5 DEF Next
<1>7. StartGoesOn(w) \/ ResumeGoesOn(w) \/ ForceGoesOn(w)
  <2>1. ~AfterVerdict(w) /\ ~LetGoOver(w) /\ ~ControlGoesOn(w) /\ \A landed : ~CompletedGoesOn(w, landed)
    BY <1>1 DEF AfterVerdict, LetGoOver, ControlGoesOn, CompletedGoesOn
  <2> QED BY <1>6, <2>1 DEF GoesOn
<1>8. w.task = t
  <2>1. live' = live \/ \E a : live' = [live EXCEPT ![w.task] = a]
    BY <1>7 DEF StartGoesOn, ResumeGoesOn, ForceGoesOn, StartAttempt
  <2> QED BY <1>0, <2>1 DEF HasLive
<1> QED BY <1>7, <1>8

(* A start's dependencies are done, and those a force start leaves undone can no longer be. *)
LEMMA DependentsWaitStep ==
    ASSUME SchedInv, [Next]_vars, NEW t \in Task, ~HasLive(t), HasLive(t)', attempt'[live'[t]].kind = "fresh",
           NEW u \in Deps[t], status[u] \notin Done
    PROVE  /\ \E w \in waits : w.task = t /\ w.do # "start" /\ ForceGoesOn(w)
           /\ u \in Of(status, {"failed"}) \cup Blocked(status)
<1>1. PICK w \in waits : w.task = t /\ (StartGoesOn(w) \/ ResumeGoesOn(w) \/ ForceGoesOn(w))
  BY ClaimsAre
<1>2. live' # live
  BY DEF HasLive
<1>3. CASE StartGoesOn(w)
  <2>1. status[t] = "pending" /\ t \notin Blocked(status) /\ WaitingBehind(status, t, Contains(queued, t)) = {}
    BY <1>1, <1>2, <1>3 DEF StartGoesOn, StillReady, Startable
  <2>2. Contains(queued, t) \in BOOLEAN
    BY DEF Contains
  <2>3. u \in Of(status, {"failed"}) \cup Blocked(status)
    BY <2>1, <2>2, NothingBehind
  <2> QED BY <2>1, <2>3, BlockedBehind
<1>4. CASE ResumeGoesOn(w)
  <2>1. ~HasLive(t) /\ ~Refused(t, w.gen) /\ Free # {} /\ StartAttempt(t, w.gen, "continue")
    BY <1>1, <1>2, <1>4 DEF ResumeGoesOn
  <2>2. w.gen \in Nat /\ ~SlotsFull
    BY <2>1 DEF SchedInv, RestTypes, WaitRecord, Refused
  <2>3. WorkInv /\ "continue" \in {"fresh", "continue"}
    BY DEF SchedInv
  <2>4. \E a \in Attempt : live' = [live EXCEPT ![t] = a] /\ attempt'[a].kind = "continue"
    BY <2>1, <2>2, <2>3, WorkStarts
  <2> QED BY <2>4 DEF SchedInv, WorkInv, WorkTypes
<1>5. CASE ForceGoesOn(w)
  <2>1. ForcedBehind(t) = {} /\ w.do \in {"force", "revive", "queuedforce"}
    BY <1>1, <1>2, <1>5 DEF ForceGoesOn
  <2>2. u \in Of(status, {"failed"}) \cup Blocked(status)
    BY <2>1, NothingBehind DEF ForcedBehind
  <2> QED BY <1>1, <1>5, <2>1, <2>2
<1> QED BY <1>1, <1>3, <1>4, <1>5
(* A tick takes back no completion. *)
LEMMA TickStands ==
    ASSUME NEW s, NEW q, NEW W, Tick(s, q, W), NEW t \in Task, s[t] = "completed"
    PROVE  status'[t] = "completed"
BY DEF Tick, Recovered

(* Only the user takes back what completed: what goes on after an await is about a task that is not complete. *)
LEMMA CompletionStandsStep ==
    ASSUME SchedInv, [Next]_vars, NEW t \in Task, status[t] = "completed", status'[t] # "completed"
    PROVE  MarkTaskIncomplete(t)
<1> USE DEF SchedInv
<1>0. status \in [Task -> Status] /\ ~HasLive(t) /\ t \notin completing /\ t \notin resumes
  BY DEF TasksRight, StatusTellsTheTruth, LandsAlone, LimitsRight
<1>1. /\ status' # status /\ ~Tick(status, queued, waits)
      /\ \A u, x : status' = [status EXCEPT ![u] = x] => u = t
      /\ \A W : ~Tick(status, queued, W)
      /\ \A u, x, W : Tick([status EXCEPT ![u] = x], queued, W) => u = t
  <2>1. ASSUME NEW u, NEW x, status' = [status EXCEPT ![u] = x] PROVE u = t
    BY <1>0, <2>1
  <2>2. ASSUME NEW W, Tick(status, queued, W) PROVE FALSE
    BY <2>2, TickStands
  <2>3. ASSUME NEW u, NEW x, NEW W, Tick([status EXCEPT ![u] = x], queued, W), u # t PROVE FALSE
    <3>1. [status EXCEPT ![u] = x][t] = "completed"
      BY <1>0, <2>3
    <3> QED BY <2>3, <3>1, TickStands
  <2> QED BY <2>1, <2>2, <2>3
<1>2. \A e \in ticks : ~TickMoves(e)
  BY <1>1 DEF TickMoves, QueueGoesOn, TickGoesOn
<1>3. ASSUME NEW w \in waits PROVE ~GoesOn(w)
  <2>1. ~AfterVerdict(w) /\ ~LetGoOver(w) /\ ~ControlGoesOn(w)
    BY <1>1 DEF AfterVerdict, LetGoOver, ControlGoesOn
  <2>2. ~StartGoesOn(w)
    BY <1>1 DEF StartGoesOn, StillReady, Startable
  <2>3. ~ResumeGoesOn(w)
    <3>1. w.task # t => ~ResumeGoesOn(w)
      BY <1>1 DEF ResumeGoesOn
    <3>2. w.task = t => ~ResumeGoesOn(w)
      BY <1>0, <1>1 DEF ResumeGoesOn
    <3> QED BY <3>1, <3>2
  <2>4. ~ForceGoesOn(w)
    <3>1. ForceGoesOn(w) => w.task # t
      BY DEF ForceGoesOn, WaitsRight, WaitRight, Forces
    <3> QED BY <1>1, <3>1 DEF ForceGoesOn, Moved
  <2>5. ASSUME NEW landed \in BOOLEAN PROVE ~CompletedGoesOn(w, landed)
    <3>1. CompletedGoesOn(w, landed) => w.task # t
      BY <1>0 DEF CompletedGoesOn, WaitsRight, WaitRight
    <3> QED BY <1>1, <3>1 DEF CompletedGoesOn, Moved
  <2> QED BY <2>1, <2>2, <2>3, <2>4, <2>5 DEF GoesOn
<1>4. ASSUME NEW a \in Attempt PROVE ~AttemptMoves(a) /\ ~Ask(a)
  <2>1. ~WoundDown(a) /\ ~RunnerGone(a) /\ ~Verdict(a)
    BY <1>1 DEF WoundDown, RunnerGone, Verdict
  <2>2. Current(a) => attempt[a].task # t
    BY <1>0, CurrentIs
  <2>3. attempt[a].at # "over" /\ ~Current(a) /\ live' = live => ~Abandon(a)
    BY <1>1, AbandonKeeps
  <2>4. ~Opened(a) /\ ~Spawned(a)
    BY <1>1, <2>3 DEF Opened, Spawned
  <2>5. ~Ask(a)
    BY <1>1, <2>2 DEF Ask
  <2>6. ASSUME NEW reset PROVE ~Current(a) \/ ~Pause(attempt[a].task, reset)
    BY <1>1, <2>2 DEF Pause
  <2>7. ASSUME NEW how \in {"failed", "held", "limited", "limited, with a reset"} PROVE ~SpawnFails(a, how)
    BY <1>1, <2>2, <2>3, <2>6 DEF SpawnFails
  <2>8. ASSUME NEW how \in {"passed", "failed", "limited", "limited, with a reset"} PROVE ~Decided(a, how)
    BY <1>1, <2>2, <2>6 DEF Decided
  <2>9. ASSUME NEW how \in {"completed", "conflict", "failed"} PROVE ~Landed(a, how)
    BY <1>1, <2>2 DEF Landed
  <2> QED BY <2>1, <2>4, <2>5, <2>7, <2>8, <2>9 DEF AttemptMoves
<1>5. ~ResetComes /\ ~ReleaseStarts /\ ~(UNCHANGED vars)
  BY <1>1 DEF ResetComes, ReleaseStarts, vars
<1>6. UserMoves
  BY <1>2, <1>3, <1>4, <1>5 DEF Next
<1>7. ~BeginRun
  <2> DEFINE s == [u \in Task |-> IF status[u] \in Done THEN status[u] ELSE "pending"]
  <2>1. BeginRun => Tick(s, <<>>, waits)
    BY DEF BeginRun
  <2>2. s[t] = "completed"
    BY DEF Done
  <2> HIDE DEF s
  <2> QED BY <2>1, <2>2, TickStands
<1>8. ~JoinRun
  <2> DEFINE fresh == ~Scheduling /\ run.from # "scheduling"
             s == [u \in Task |-> IF fresh /\ status[u] = "failed" /\ ~HasLive(u) THEN "pending" ELSE status[u]]
  <2>1. JoinRun => status' = s \/ Tick(s, queued, waits)
    BY DEF JoinRun
  <2>2. s[t] = "completed"
    OBVIOUS
  <2> HIDE DEF s
  <2> QED BY <2>1, <2>2, TickStands
<1>9. ~Stop
  <2> DEFINE s == [u \in Task |-> IF HasLive(u) THEN "pending" ELSE status[u]]
  <2>1. Stop => status' = Recovered(s)
    BY DEF Stop
  <2>2. s[t] = "completed"
    BY <1>0
  <2> HIDE DEF s
  <2> QED BY <2>1, <2>2 DEF Recovered
<1>10. ~HoldStarts
  BY <1>1 DEF HoldStarts
<1>11. ASSUME NEW u \in Task
       PROVE  ~(CancelTask(u) \/ RetryTask(u) \/ SkipTask(u) \/ CancelScheduledResume(u) \/ ForceStart(u) \/ MarkTaskComplete(u) \/ Answer(u))
  <2>1. ~CancelTask(u)
    BY <1>0, <1>1 DEF CancelTask, Moved
  <2>2. ~RetryTask(u)
    BY <1>1 DEF RetryTask, Moved
  <2>3. ~SkipTask(u)
    BY <1>1 DEF SkipTask, Moved, Done
  <2>4. ~CancelScheduledResume(u) /\ ~ForceStart(u) /\ ~MarkTaskComplete(u)
    BY <1>1 DEF CancelScheduledResume, ForceStart, MarkTaskComplete
  <2>5. ~Answer(u)
    BY <1>1 DEF Answer
  <2> QED BY <2>1, <2>2, <2>3, <2>4, <2>5
<1>12. ASSUME NEW u \in Task, MarkTaskIncomplete(u) PROVE u = t
  BY <1>1, <1>12 DEF MarkTaskIncomplete, Moved
<1> QED BY <1>6, <1>7, <1>8, <1>9, <1>10, <1>11, <1>12 DEF UserMoves

\* The plan's order holds across awaits, for every plan: what a task was claimed on is done, what a force
\* start leaves undone can no longer be, and no landing, verdict or run that comes late undoes a completion.
THEOREM OrderAlwaysHolds == Spec => OrderHolds
<1> DEFINE claimed == \A t \in Task : ~HasLive(t) /\ HasLive(t)' /\ attempt'[live'[t]].kind = "fresh" =>
             LET unmet == {u \in Deps[t] : status[u] \notin Done}
             IN  IF \E w \in waits : w.task = t /\ w.do # "start" /\ ForceGoesOn(w)
                 THEN unmet \subseteq Of(status, {"failed"}) \cup Blocked(status)
                 ELSE unmet = {}
           stands == \A t \in Task : status[t] = "completed" /\ status'[t] # "completed" => MarkTaskIncomplete(t)
<1>1. SchedInv /\ [Next]_vars => claimed
  BY DependentsWaitStep
<1>2. SchedInv /\ [Next]_vars => stands
  BY CompletionStandsStep
<1>3. Spec => [][claimed]_vars
  <2> HIDE DEF claimed
  <2> QED BY <1>1, SchedInvHolds, PTL DEF Spec
<1>4. Spec => [][stands]_vars
  <2> HIDE DEF stands
  <2> QED BY <1>2, SchedInvHolds, PTL DEF Spec
<1> QED BY <1>3, <1>4 DEF OrderHolds, DependentsWait, CompletionStands
-----------------------------------------------------------------------------
(* What a Stop holds, and the one thing that gets past it. *)

\* What the user asked for by name, or a reset resumes: it claims for as long as no Stop came since.
Explicit == Forces \cup {"resume"}

\* Nothing is at work, the run is over, and nothing that awaits will claim.
Quiet ==
    /\ \A t \in Task : ~HasLive(t)
    /\ run.kind \in {"idle", "finished"}
    /\ queued = <<>> /\ resumes = {}
    /\ \A e \in ticks : e.left = <<>>
    /\ \A w \in waits : w.do \in Explicit => w.gen < stops

\* No start is of a Stop still to come, and a stopped run is quiet.
StopInv ==
    /\ \A w \in waits : w.do \in Explicit => w.gen <= stops
    /\ stopped => Quiet

\* A step looks through the queue once, or leaves it and what loops over it alone.
PassesOnce ==
    \/ /\ queued' = queued /\ ticks' \subseteq ticks
       /\ \A w \in waits' :
            w \in waits \/ w.do \notin Explicit \/ (w.do = "resume" /\ w.task \in resumes /\ w.gen = stops')
    \/ \E q \in {queued, <<>>}, W \in SUBSET waits, after \in {"tick", "verdict"} :
         QueuePass(q, q, W, stops', after, ticks)

(* A step that leaves the queue and its loops alone, and starts nothing. *)
LEMMA PassesNone ==
    ASSUME queued' = queued, ticks' \subseteq ticks, \A w \in waits' : w \in waits \/ w.do \notin Explicit
    PROVE  PassesOnce
BY DEF PassesOnce

(* A tick is such a pass. *)
LEMMA TickPasses ==
    ASSUME NEW s, NEW q \in {queued, <<>>}, NEW W \in SUBSET waits, Tick(s, q, W)
    PROVE  PassesOnce
BY DEF Tick, PassesOnce

(* The record of a wait says what it was made of. *)
LEMMA AwaitIs ==
    ASSUME NEW do, NEW t, NEW gen
    PROVE  Await(do, t, gen).do = do /\ Await(do, t, gen).task = t /\ Await(do, t, gen).gen = gen
BY DEF Await

(* Only a Stop, a force start and the rest of a queue's loop do otherwise. *)
LEMMA StepsPass ==
    ASSUME SchedInv, [Next]_vars
    PROVE  \/ PassesOnce \/ Stop
           \/ \E t \in Task : ForceStart(t)
           \/ \E w \in waits : ForceGoesOn(w)
           \/ \E e \in ticks : QueueGoesOn(e)
<1> USE AwaitIs
<1>1. ASSUME NEW e \in ticks, TickGoesOn(e) PROVE PassesOnce
  BY <1>1, PassesNone DEF TickGoesOn, Explicit, Forces
<1>2. ASSUME NEW w \in waits, GoesOn(w), ~ForceGoesOn(w) PROVE PassesOnce
  <2>0. waits \ {w} \in SUBSET waits /\ queued \in {queued, <<>>}
    OBVIOUS
  <2>1. CASE StartGoesOn(w)
    BY <2>1, PassesNone DEF StartGoesOn
  <2>2. CASE AfterVerdict(w)
    <3>1. CASE Tick(status, queued, waits \ {w})
      BY <2>0, <3>1, TickPasses
    <3>2. CASE QueuePass(queued, queued, waits \ {w}, stops, "verdict", ticks)
      <4>1. stops' = stops
        BY <2>2 DEF AfterVerdict
      <4> QED BY <2>0, <3>2, <4>1 DEF PassesOnce
    <3> QED BY <2>2, <3>1, <3>2 DEF AfterVerdict
  <2>3. CASE LetGoOver(w)
    BY <2>0, <2>3, TickPasses DEF LetGoOver
  <2>4. CASE ResumeGoesOn(w)
    <3>1. \/ \E s : Tick(s, queued, waits \ {w})
          \/ waits' = waits \ {w} /\ UNCHANGED <<queued, ticks>>
      BY <2>4 DEF ResumeGoesOn
    <3> QED BY <2>0, <3>1, TickPasses, PassesNone
  <2>5. CASE ControlGoesOn(w)
    <3>1. \/ Tick(status, queued, waits \ {w})
          \/ waits' = waits \ {w} /\ UNCHANGED <<queued, ticks>>
      BY <2>5 DEF ControlGoesOn
    <3> QED BY <2>0, <3>1, TickPasses, PassesNone
  <2>6. ASSUME NEW landed \in BOOLEAN, CompletedGoesOn(w, landed) PROVE PassesOnce
    BY <2>0, <2>6, TickPasses DEF CompletedGoesOn
  <2> QED BY <1>2, <2>1, <2>2, <2>3, <2>4, <2>5, <2>6 DEF GoesOn
<1>3. ASSUME NEW a \in Attempt, AttemptMoves(a) \/ Ask(a) PROVE PassesOnce
  <2>1. ticks' = ticks /\ queued' = queued
    BY <1>3 DEF AttemptMoves, Ask, WoundDown, Opened, Spawned, RunnerGone, Verdict, SpawnFails, Decided, Landed
  <2>2. \A w \in waits' : w \in waits \/ w.do \in {"letgo", "verdict"}
    <3>1. CASE WoundDown(a) \/ Opened(a) \/ Spawned(a) \/ RunnerGone(a) \/ Verdict(a) \/ Ask(a)
      BY <3>1 DEF Ask, WoundDown, Opened, Spawned, RunnerGone, Verdict
    <3>2. ASSUME NEW how, SpawnFails(a, how) PROVE \A w \in waits' : w \in waits \/ w.do \in {"letgo", "verdict"}
      <4> DEFINE more == Await(IF how \in {"failed", "held"} THEN "letgo" ELSE "verdict", None, 0)
      <4>1. waits' = waits \/ waits' = waits \cup {more}
        BY <3>2, Zenon DEF SpawnFails
      <4>2. more.do \in {"letgo", "verdict"}
        OBVIOUS
      <4> HIDE DEF more
      <4> QED BY <4>1, <4>2
    <3>3. ASSUME NEW how, Decided(a, how) PROVE \A w \in waits' : w \in waits \/ w.do \in {"letgo", "verdict"}
      <4> DEFINE more == Await("verdict", None, 0)
      <4>1. waits' = waits \/ waits' = waits \cup {more}
        BY <3>3, Zenon DEF Decided
      <4>2. more.do = "verdict"
        OBVIOUS
      <4> HIDE DEF more
      <4> QED BY <4>1, <4>2
    <3>4. ASSUME NEW how, Landed(a, how) PROVE \A w \in waits' : w \in waits \/ w.do \in {"letgo", "verdict"}
      BY <3>4 DEF Landed
    <3> QED BY <1>3, <3>1, <3>2, <3>3, <3>4, Zenon DEF AttemptMoves
  <2> QED BY <2>1, <2>2, PassesNone DEF Explicit, Forces
<1>4. CASE ResetComes
  <2>1. /\ queued' = queued /\ ticks' = ticks /\ stops' = stops
        /\ waits' = waits \cup {Await("resume", t, stops) : t \in resumes}
    BY <1>4 DEF ResetComes
  <2>2. \A w \in waits' : w \in waits \/ (w.do = "resume" /\ w.task \in resumes /\ w.gen = stops')
    BY <2>1
  <2> QED BY <2>1, <2>2 DEF PassesOnce
<1>5. CASE ReleaseStarts
  BY <1>5, TickPasses DEF ReleaseStarts
<1>6. CASE UserMoves
  <2>1. CASE BeginRun
    BY <2>1, TickPasses DEF BeginRun
  <2>2. CASE JoinRun
    <3>1. \/ \E s : Tick(s, queued, waits)
          \/ UNCHANGED <<queued, ticks, waits>>
      BY <2>2 DEF JoinRun
    <3> QED BY <3>1, TickPasses, PassesNone
  <2>3. CASE HoldStarts
    BY <2>3, PassesNone DEF HoldStarts
  <2>4. ASSUME NEW t \in Task,
               CancelTask(t) \/ RetryTask(t) \/ SkipTask(t) \/ MarkTaskComplete(t) \/ Answer(t)
        PROVE  PassesOnce
    BY <2>4, PassesNone DEF CancelTask, RetryTask, SkipTask, MarkTaskComplete, Answer, Explicit, Forces
  <2>5. ASSUME NEW t \in Task, CancelScheduledResume(t) PROVE PassesOnce
    <3>1. Tick(status, queued, waits) /\ queued \in {queued, <<>>} /\ waits \in SUBSET waits
      BY <2>5, Zenon DEF CancelScheduledResume
    <3> QED BY <3>1, TickPasses
  <2>6. ASSUME NEW t \in Task, MarkTaskIncomplete(t) PROVE PassesOnce
    BY <2>6, TickPasses DEF MarkTaskIncomplete
  <2> QED BY <1>6, <2>1, <2>2, <2>3, <2>4, <2>5, <2>6 DEF UserMoves
<1>7. CASE UNCHANGED vars
  BY <1>7, PassesNone DEF vars
<1> QED BY <1>1, <1>2, <1>3, <1>4, <1>5, <1>6, <1>7 DEF Next, TickMoves

(* An empty queue makes no start, whatever else stands in its way. *)
LEMMA EmptyPass ==
    ASSUME NEW W, NEW gen, NEW after, NEW others, QueuePass(<<>>, <<>>, W, gen, after, others)
    PROVE  /\ queued' = <<>> /\ waits' = W
           /\ \A e \in ticks' : e \in others \/ e.left = <<>>
<1> DEFINE q == <<>>
           drops  == {t \in Task : Withdrawn(t)'}
           keeps  == {t \in Task : Unstartable(t)'} \cup {t \in ToSet(q) : ForcedBehind(t)' # {}}
           leaves == {t \in Task : LeftToScheduler(t)'}
           starts == {i \in DOMAIN q : q[i] \notin drops \cup keeps \cup leaves}
           first  == IF starts = {} THEN Len(q) + 1 ELSE Min(starts)
           gone   == {q[i] : i \in {j \in DOMAIN q : j = first \/ (j < first /\ q[j] \in drops \cup (leaves \ keeps))}}
           start  == IF starts = {} THEN {} ELSE {q[first]}
           left   == SubSeq(q, first + 1, Len(q))
           on     == IF start = {} THEN None ELSE q[first]
<1>1. /\ queued' = Dropped(q, gone)
      /\ ticks' = others \cup {[gen |-> gen, left |-> left, on |-> on, after |-> after]}
      /\ waits' = W \cup {Await("queuedforce", t, stops') : t \in start}
  BY DEF QueuePass
<1>2. starts = {} /\ Len(q) = 0 /\ DOMAIN q = {}
  OBVIOUS
<1>3. start = {} /\ first = 1
  BY <1>2
<1>4. left = <<>>
  BY <1>3
<1>5. Dropped(q, gone) = <<>>
  <2> HIDE DEF gone
  <2>1. {i \in DOMAIN q : q[i] \notin gone} = {}
    BY <1>2
  <2>2. Cardinality({}) = 0
    BY FS_EmptySet
  <2> QED BY <2>1, <2>2 DEF Dropped
<1> HIDE DEF q, gone, start, left, on
<1> QED BY <1>1, <1>3, <1>4, <1>5

(* While nothing is at work, and no start of this Stop waits, only the user's asking makes something to do. *)
LEMMA QuietStays ==
    ASSUME Quiet, PassesOnce,
           \A t \in Task : ~HasLive(t)', run'.kind \in {"idle", "finished"}, resumes' = {}, stops' = stops
    PROVE  Quiet'
<1>1. CASE /\ queued' = queued /\ ticks' \subseteq ticks
           /\ \A w \in waits' :
                w \in waits \/ w.do \notin Explicit \/ (w.do = "resume" /\ w.task \in resumes /\ w.gen = stops')
  BY <1>1 DEF Quiet, Explicit
<1>2. ASSUME NEW q \in {queued, <<>>}, NEW W \in SUBSET waits, NEW after \in {"tick", "verdict"},
             QueuePass(q, q, W, stops', after, ticks)
      PROVE  Quiet'
  <2>1. QueuePass(<<>>, <<>>, W, stops', after, ticks)
    BY <1>2 DEF Quiet
  <2>2. queued' = <<>> /\ waits' = W /\ \A e \in ticks' : e \in ticks \/ e.left = <<>>
    BY <2>1, EmptyPass
  <2> QED BY <2>2 DEF Quiet
<1> QED BY <1>1, <1>2 DEF PassesOnce

(* What the steps of a quiet run change: it ends or opens again, and no attempt of a task is there to move. *)
LEMMA QuietRun ==
    ASSUME SchedInv, Quiet
    PROVE  /\ \A left : RunHolding(run, left) = run
           /\ NextRunState(run, "continue") = run
           /\ \A after : SettledRun(after).kind \in {"idle", "finished"}
           /\ \A a \in Attempt : ~Current(a)
<1>1. run \in RunStates /\ run.kind \in {"idle", "finished"}
  BY DEF SchedInv, RestTypes, Quiet
<1>2. run.kind # "held" /\ run.kind # "endedOnFailure" /\ run.kind # "scheduling" /\ run.from = "none" /\ run = [kind |-> run.kind, from |-> run.from]
  BY <1>1 DEF RunStates
<1>3. run = Run(run.kind)
  BY <1>2 DEF Run
<1>5. NextRunState(run, "release") = run /\ NextRunState(run, "continue") = run
  BY <1>2, <1>3 DEF NextRunState, WhenFree
<1>6. NextRunState(run, "reopen") \in {Run("idle"), Run("finished")}
  <2> DEFINE reopened == NextRunState(run, "reopen")
  <2>1. reopened = IF run.kind = "finished" THEN Run("idle") ELSE Run(run.kind)
    BY <1>2 DEF NextRunState, WhenFree
  <2> HIDE DEF reopened
  <2>2. reopened \in {Run("idle"), Run("finished")}
    BY <1>1, <2>1
  <2> QED BY <2>2 DEF reopened
<1>7. ASSUME NEW after PROVE SettledRun(after).kind \in {"idle", "finished"}
  <2> DEFINE open == IF Remaining # {} THEN NextRunState(run, "reopen") ELSE run
             settled == SettledRun(after)
  <2>1. open \in {Run("idle"), Run("finished")}
    BY <1>1, <1>3, <1>6
  <2>2. open.kind \in {"idle", "finished"} /\ open.kind # "held"
    BY <2>1 DEF Run
  <2>3. NextRunState(open, "end finished") = Run("finished")
    BY <2>2 DEF NextRunState, WhenFree
  <2>4. settled = open \/ settled = NextRunState(open, "end finished")
    <3>1. open.kind # "scheduling"
      BY <2>2
    <3> QED BY <3>1, Zenon DEF SettledRun
  <2> HIDE DEF open, settled
  <2>5. settled.kind \in {"idle", "finished"}
    <3> DEFINE ended == NextRunState(open, "end finished")
    <3>1. ended = Run("finished") /\ (settled = open \/ settled = ended)
      BY <2>3, <2>4, Zenon
    <3> HIDE DEF ended
    <3> QED BY <2>2, <3>1 DEF Run
  <2> QED BY <2>5 DEF settled
<1>8. \A a \in Attempt : ~Current(a)
  BY CurrentIs DEF Quiet
<1> QED BY <1>5, <1>7, <1>8 DEF RunHolding

\* Nothing starts, the run stays over, and no Stop comes.
StaysOver ==
    /\ \A t \in Task : live'[t] = None
    /\ run'.kind \in {"idle", "finished"} /\ resumes' = {} /\ stops' = stops

(* What went on of a quiet run's own accord leaves it over. *)
LEMMA WaitsEndOver ==
    ASSUME SchedInv, Quiet, NEW w \in waits, GoesOn(w)
    PROVE  StaysOver /\ (ForceGoesOn(w) => PassesOnce)
<1> DEFINE t == w.task
<1>1. /\ \A u \in Task : live[u] = None
      /\ run.kind \in {"idle", "finished"} /\ ~Scheduling /\ resumes = {} /\ \A u : u \notin resumes
  BY DEF Quiet, HasLive, Scheduling
<1>2. w.do \in Explicit => w.gen # stops
  <2>1. w.gen \in Nat /\ stops \in Nat
    BY DEF SchedInv, RestTypes, WaitRecord
  <2> QED BY <2>1 DEF Quiet
<1>3. CASE StartGoesOn(w)
  BY <1>1, <1>3 DEF StartGoesOn, StaysOver, runVars, Forces, ForceGoesOn
<1>4. CASE AfterVerdict(w)
  <2>1. run' = run
    BY <1>4, QuietRun DEF AfterVerdict
  <2> QED BY <1>1, <1>4, <2>1 DEF AfterVerdict, StaysOver, ForceGoesOn
<1>5. CASE LetGoOver(w)
  BY <1>1, <1>5 DEF LetGoOver, StaysOver, runVars, ForceGoesOn
<1>6. CASE ResumeGoesOn(w)
  <2>1. UNCHANGED <<live, stops, runVars>> /\ w.do = "resume"
    BY <1>1, <1>6 DEF ResumeGoesOn
  <2> QED BY <1>1, <2>1 DEF StaysOver, runVars, ForceGoesOn
<1>7. CASE ControlGoesOn(w)
  <2>1. run' = run
    BY <1>7, QuietRun DEF ControlGoesOn
  <2> QED BY <1>1, <1>7, <2>1 DEF ControlGoesOn, StaysOver, ForceGoesOn
<1>8. CASE ForceGoesOn(w)
  <2>1. w.gen # stops
    BY <1>2, <1>8 DEF ForceGoesOn, Explicit, Forces
  <2>2. UNCHANGED <<runVars, live, stops, queued, ticks>> /\ waits' = waits \ {w}
    BY <1>8, <2>1 DEF ForceGoesOn
  <2>3. PassesOnce
    BY <2>2, PassesNone
  <2> QED BY <1>1, <2>2, <2>3 DEF StaysOver, runVars
<1>9. ASSUME NEW landed \in BOOLEAN, CompletedGoesOn(w, landed) PROVE StaysOver /\ ~ForceGoesOn(w)
  <2>1. run' = run
    BY <1>9, QuietRun DEF CompletedGoesOn
  <2> QED BY <1>1, <1>9, <2>1 DEF CompletedGoesOn, StaysOver, ForceGoesOn
<1> QED BY <1>3, <1>4, <1>5, <1>6, <1>7, <1>8, <1>9 DEF GoesOn

(* Nor does an attempt that a Stop took its task from. *)
LEMMA AttemptsEndOver ==
    ASSUME SchedInv, Quiet, NEW a \in Attempt, AttemptMoves(a) \/ Ask(a)
    PROVE  StaysOver
<1>1. UNCHANGED <<live, stops, runVars>>
  <2>1. ~Current(a)
    BY QuietRun
  <2>2. ~Ask(a) /\ ~Verdict(a)
    BY <2>1 DEF Ask, Verdict
  <2>3. \A how : SpawnFails(a, how) \/ Decided(a, how) \/ Landed(a, how) => UNCHANGED <<live, stops, runVars>>
    BY <2>1, Zenon DEF SpawnFails, Decided, Landed
  <2>4. WoundDown(a) \/ Opened(a) \/ Spawned(a) \/ RunnerGone(a) => UNCHANGED <<live, stops, runVars>>
    BY Zenon DEF WoundDown, Opened, Spawned, RunnerGone
  <2> QED BY <2>2, <2>3, <2>4, Zenon DEF AttemptMoves
<1> QED BY <1>1 DEF StaysOver, runVars, Quiet, HasLive

(* A step of a stopped run that asks for no start leaves it quiet. *)
LEMMA QuietSteps ==
    ASSUME SchedInv, Quiet, [Next]_vars, ~Stop, stopped' = TRUE
    PROVE  stopped => Quiet'
<1> SUFFICES ASSUME stopped PROVE Quiet'
  OBVIOUS
<1>0. /\ \A t \in Task : live[t] = None /\ ~HasLive(t)
      /\ run.kind \in {"idle", "finished"} /\ ~Scheduling /\ resumes = {}
      /\ live \in [Task -> Attempt \cup {None}]
  BY DEF Quiet, HasLive, SchedInv, WorkInv, WorkTypes, Scheduling
<1>1. /\ \A e \in ticks : ~QueueGoesOn(e)
      /\ \A t \in Task : ~ForceStart(t)
      /\ ~BeginRun /\ ~JoinRun
  BY Zenon DEF Quiet, QueueGoesOn, ForceStart, BeginRun, JoinRun
<1>2. PassesOnce
  BY <1>1, StepsPass, WaitsEndOver DEF GoesOn
<1>3. StaysOver
  <2>1. ASSUME NEW e \in ticks, TickMoves(e) PROVE StaysOver
    <3>1. TickGoesOn(e)
      BY <1>1, <2>1 DEF TickMoves
    <3>2. run' = SettledRun(e.after) /\ UNCHANGED <<resumes, stops, live>>
      BY <1>0, <3>1 DEF TickGoesOn
    <3> QED BY <1>0, <3>2, QuietRun DEF StaysOver
  <2>2. CASE ResetComes \/ ReleaseStarts
    BY <1>0, <2>2 DEF ResetComes, ReleaseStarts, StaysOver, runVars
  <2>3. CASE HoldStarts
    BY <1>0, <2>3 DEF HoldStarts, StaysOver, runVars
  <2>4. ASSUME NEW t \in Task, RetryTask(t) PROVE StaysOver
    BY <1>0, <2>4 DEF RetryTask, StaysOver, runVars, CancelResume
  <2>5. ASSUME NEW t \in Task, SkipTask(t) PROVE StaysOver
    BY <1>0, <2>5 DEF SkipTask, StaysOver, runVars, CancelResume, EndLive
  <2>6. ASSUME NEW t \in Task, CancelTask(t) \/ CancelScheduledResume(t) PROVE FALSE
    BY <1>0, <2>6, Zenon DEF CancelTask, CancelScheduledResume
  <2>7. ASSUME NEW t \in Task, MarkTaskComplete(t) \/ MarkTaskIncomplete(t) \/ Answer(t) PROVE StaysOver
    BY <1>0, <2>7 DEF MarkTaskComplete, MarkTaskIncomplete, Answer, StaysOver, runVars
  <2>8. CASE UNCHANGED vars
    BY <1>0, <2>8 DEF vars, runVars, StaysOver
  <2>9. UserMoves => StaysOver
    BY <1>1, <2>3, <2>4, <2>5, <2>6, <2>7 DEF UserMoves
  <2> QED BY <2>1, <2>2, <2>8, <2>9, WaitsEndOver, AttemptsEndOver DEF Next
<1> QED BY <1>2, <1>3, QuietStays DEF StaysOver, HasLive

(* The waits of a pass are those there were, and starts of no later Stop. *)
LEMMA GensStay ==
    ASSUME SchedInv, StopInv, [Next]_vars
    PROVE  \A w \in waits' : w.do \in Explicit => w.gen <= stops'
<1> USE AwaitIs
<1>0. stops \in Nat /\ \A w \in waits : w.gen \in Nat
  BY DEF SchedInv, RestTypes, WaitRecord
<1>1. stops' \in Nat /\ stops <= stops'
  <2>1. stops' = stops \/ stops' = stops + 1
    <3>1. \A e \in ticks : TickMoves(e) => stops' = stops
      BY DEF TickMoves, QueueGoesOn, TickGoesOn
    <3>2. \A w \in waits : GoesOn(w) => stops' = stops
      BY Zenon DEF GoesOn, StartGoesOn, AfterVerdict, LetGoOver, ResumeGoesOn, ControlGoesOn, ForceGoesOn, CompletedGoesOn
    <3>3. \A a \in Attempt : AttemptMoves(a) \/ Ask(a) => stops' = stops
      BY Zenon DEF AttemptMoves, Ask, WoundDown, Opened, Spawned, RunnerGone, Verdict, SpawnFails, Decided, Landed
    <3>4. ResetComes \/ ReleaseStarts \/ UNCHANGED vars => stops' = stops
      BY DEF ResetComes, ReleaseStarts, vars
    <3>5. UserMoves => stops' = stops \/ Stop
      BY Zenon DEF UserMoves, BeginRun, JoinRun, HoldStarts, CancelTask, RetryTask, SkipTask, CancelScheduledResume,
             ForceStart, MarkTaskComplete, MarkTaskIncomplete, Answer
    <3>6. Stop => stops' = stops + 1
      BY DEF Stop
    <3> QED BY <3>1, <3>2, <3>3, <3>4, <3>5, <3>6 DEF Next
  <2> QED BY <1>0, <2>1
<1>2. SUFFICES \A w \in waits' : w \in waits \/ w.do \notin Explicit \/ w.gen = stops'
  BY <1>0, <1>1 DEF StopInv
<1>3. ASSUME NEW left, NEW q, NEW W \in SUBSET waits, NEW gen, NEW after, NEW others, QueuePass(left, q, W, gen, after, others)
      PROVE  \A w \in waits' : w \in waits \/ w.gen = stops'
  <2>1. \E start : waits' = W \cup {Await("queuedforce", t, stops') : t \in start}
    BY <1>3, Zenon DEF QueuePass
  <2> QED BY <2>1
<1>4. CASE PassesOnce
  BY <1>3, <1>4 DEF PassesOnce
<1>5. CASE Stop
  BY <1>5 DEF Stop
<1>6. ASSUME NEW t \in Task, ForceStart(t) PROVE \A w \in waits' : w \in waits \/ w.gen = stops'
  BY <1>6 DEF ForceStart
<1>7. ASSUME NEW w \in waits, ForceGoesOn(w) PROVE waits' \subseteq waits
  BY <1>7, Zenon DEF ForceGoesOn
<1>8. ASSUME NEW e \in ticks, QueueGoesOn(e) PROVE \A w \in waits' : w \in waits \/ w.gen = stops'
  BY <1>3, <1>8, Zenon DEF QueueGoesOn
<1> QED BY <1>4, <1>5, <1>6, <1>7, <1>8, StepsPass

(* Every step keeps it, when no Stop comes while a queue's loop has starts left to make. *)
LEMMA StopInvKeeps ==
    ASSUME SchedInv, StopInv, [Next]_vars, Stop => \A e \in ticks : e.left = <<>>
    PROVE  StopInv'
<1>1. \A w \in waits' : w.do \in Explicit => w.gen <= stops'
  BY GensStay
<1>2. ASSUME Stop PROVE Quiet'
  <2>1. /\ stops' = stops + 1 /\ run' = NextRunState(run, "stop") /\ live' = [t \in Task |-> None]
        /\ queued' = <<>> /\ resumes' = {} /\ UNCHANGED <<ticks, waits>>
    BY <1>2 DEF Stop
  <2>2. run' = Run("idle")
    BY <2>1 DEF NextRunState, WhenHeld, WhenFree
  <2>3. stops \in Nat /\ \A w \in waits : w.gen \in Nat /\ (w.do \in Explicit => w.gen <= stops)
    BY DEF SchedInv, RestTypes, WaitRecord, StopInv
  <2>4. \A w \in waits' : w.do \in Explicit => w.gen < stops'
    BY <2>1, <2>3
  <2> QED BY <1>2, <2>1, <2>2, <2>4 DEF Quiet, HasLive, Run
<1>3. ASSUME ~Stop, stopped' PROVE Quiet'
  <2>1. stopped
    <3>1. \A e \in ticks : TickMoves(e) => stopped' = stopped
      BY DEF TickMoves, QueueGoesOn, TickGoesOn
    <3>2. \A w \in waits : GoesOn(w) => stopped' = stopped
      BY Zenon DEF GoesOn, StartGoesOn, AfterVerdict, LetGoOver, ResumeGoesOn, ControlGoesOn, ForceGoesOn, CompletedGoesOn
    <3>3. \A a \in Attempt : AttemptMoves(a) \/ Ask(a) => stopped' = stopped
      BY Zenon DEF AttemptMoves, Ask, WoundDown, Opened, Spawned, RunnerGone, Verdict, SpawnFails, Decided, Landed
    <3>4. ResetComes \/ ReleaseStarts \/ UNCHANGED vars => stopped' = stopped
      BY DEF ResetComes, ReleaseStarts, vars
    <3>5. BeginRun \/ JoinRun \/ (\E t \in Task : ForceStart(t)) => ~stopped'
      BY DEF BeginRun, JoinRun, ForceStart
    <3>6. \A t \in Task : CancelTask(t) \/ RetryTask(t) \/ SkipTask(t) \/ CancelScheduledResume(t)
                          \/ MarkTaskComplete(t) \/ MarkTaskIncomplete(t) \/ Answer(t) => stopped' = stopped
      BY Zenon DEF CancelTask, RetryTask, SkipTask, CancelScheduledResume, MarkTaskComplete, MarkTaskIncomplete, Answer
    <3>7. UserMoves => stopped' = stopped
      BY <1>3, <3>5, <3>6 DEF UserMoves, HoldStarts
    <3> QED BY <1>3, <3>1, <3>2, <3>3, <3>4, <3>7 DEF Next
  <2>2. Quiet /\ stopped' = TRUE
    BY <1>3, <2>1 DEF StopInv
  <2> QED BY <1>3, <2>1, <2>2, QuietSteps
<1> QED BY <1>1, <1>2, <1>3 DEF StopInv

(* It holds at first, and it is what StopHolds needs. *)
LEMMA StopInvEnds == (Init => StopInv) /\ (StopInv => StopHolds)
<1>1. Init => StopInv
  BY DEF Init, StopInv
<1>2. StopInv => StopHolds
  BY DEF StopInv, Quiet, StopHolds, LiveTasks
<1> QED BY <1>1, <1>2

\* No Stop comes while a queue's loop, past the start it awaits, has more starts to make.
StopsBetween == [][Stop => \A e \in ticks : e.left = <<>>]_vars

\* After the user's Stop nothing is at work until they ask for a start, for every plan and whatever awaited when
\* it came: starts of the run, resumes, force starts, retries, skips, verdicts and landings. What startQueued's
\* loop had left to start is the one exception, and it is a real one: its later starts take the new stopGeneration.
THEOREM StopKeepsOut == Spec /\ StopsBetween => []StopHolds
<1> DEFINE between == Stop => \A e \in ticks : e.left = <<>>
<1>1. SchedInv /\ StopInv /\ [Next]_vars /\ [between]_vars => StopInv'
  <2> SUFFICES ASSUME SchedInv, StopInv, [Next]_vars, [between]_vars PROVE StopInv'
    OBVIOUS
  <2>1. CASE between
    BY <2>1, StopInvKeeps
  <2>2. CASE UNCHANGED vars
    <3>1. stops' = stops
      BY <2>2 DEF vars
    <3>2. ~Stop
      <4>1. stops \in Nat
        BY DEF SchedInv, RestTypes
      <4> QED BY <3>1, <4>1 DEF Stop
    <3> QED BY <3>2, StopInvKeeps
  <2> QED BY <2>1, <2>2
<1>2. StopsBetween <=> [][between]_vars
  BY DEF StopsBetween
<1> HIDE DEF between
<1>3. Spec /\ [][between]_vars => []StopInv
  BY <1>1, SchedInvHolds, StopInvEnds, PTL DEF Spec
<1> QED BY <1>2, <1>3, StopInvEnds, PTL

\* No task waits in the queue, no loop over it has any left, and no force start is under way.
Unforced ==
    /\ queued = <<>> /\ \A e \in ticks : e.left = <<>>
    /\ \A w \in waits : w.do \notin Forces

(* Where nobody asks for a force start, the queue stays empty. *)
LEMMA UnforcedKeeps ==
    ASSUME "force" \notin Controls, SchedInv, Unforced, [Next]_vars
    PROVE  Unforced'
<1>1. /\ \A t \in Task : ~ForceStart(t)
      /\ \A w \in waits : ~ForceGoesOn(w)
      /\ \A e \in ticks : ~QueueGoesOn(e)
  BY DEF ForceStart, Asks, Control, ForceGoesOn, QueueGoesOn, Unforced, Forces
<1>2. CASE Stop
  BY <1>2 DEF Stop, Unforced
<1>3. CASE /\ queued' = queued /\ ticks' \subseteq ticks
           /\ \A w \in waits' :
                w \in waits \/ w.do \notin Explicit \/ (w.do = "resume" /\ w.task \in resumes /\ w.gen = stops')
  BY <1>3 DEF Unforced, Explicit, Forces
<1>4. ASSUME NEW q \in {queued, <<>>}, NEW W \in SUBSET waits, NEW after \in {"tick", "verdict"},
             QueuePass(q, q, W, stops', after, ticks)
      PROVE  Unforced'
  <2>1. QueuePass(<<>>, <<>>, W, stops', after, ticks)
    BY <1>4 DEF Unforced
  <2>2. queued' = <<>> /\ waits' = W /\ \A e \in ticks' : e \in ticks \/ e.left = <<>>
    BY <2>1, EmptyPass
  <2> QED BY <2>2 DEF Unforced
<1> QED BY <1>1, <1>2, <1>3, <1>4, StepsPass DEF PassesOnce

\* Where nobody asks for a force start, nothing is at work after a Stop until the user asks for a start, with
\* no exception: whatever a run, its resets, retries, skips and landings left awaiting comes to nothing.
THEOREM StopHoldsUnforced ==
    ASSUME "force" \notin Controls
    PROVE  Spec => []StopHolds
<1>1. Init => Unforced
  BY DEF Init, Unforced
<1>2. SchedInv /\ Unforced /\ [Next]_vars => Unforced'
  BY UnforcedKeeps
<1>3. SchedInv /\ StopInv /\ Unforced /\ [Next]_vars => StopInv'
  BY StopInvKeeps DEF Unforced
<1> QED BY <1>1, <1>2, <1>3, SchedInvHolds, StopInvEnds, PTL DEF Spec
-----------------------------------------------------------------------------
(* What a scheduler at rest has left. *)

\* Something is under way that ticks as it ends, or starts a task that is ready.
Owes ==
    \/ LiveTasks # {}
    \/ \E e \in ticks : e.after = "tick" /\ e.gen = stops
    \/ \E w \in waits : \/ w.do \in {"letgo", "verdict", "skipped", "completed"}
                        \/ w.do = "retried" /\ w.gen = stops
                        \/ w.do = "start" /\ w.gen = stops /\ w.task \in Task /\ Startable(w.task)

\* What a tick that ends finds when it goes on to nothing.
NothingToDo == Ready = {} /\ (~planning => Remaining # {} /\ ~AllDoneOrStuck)

\* A run that goes on owes a tick, or the last one found nothing to do and nothing changed
\* since. What resumes at a reset is not landing, so a resume is refused only for want of a slot.
RestInv ==
    /\ Scheduling => Owes \/ NothingToDo
    /\ resumes \cap completing = {}

(* A task that neither failed nor is blocked waits for the same, queued or not. *)
LEMMA WaitsAlike ==
    ASSUME NEW s, NEW t \in Task, s[t] = "pending", t \notin Blocked(s), NEW past \in BOOLEAN
    PROVE  WaitingBehind(s, t, past) = {} <=> WaitingBehind(s, t, FALSE) = {}
<1>1. ASSUME NEW b \in BOOLEAN, WaitingBehind(s, t, b) = {} PROVE \A u \in Deps[t] : s[u] \in Done
  BY <1>1, NothingBehind, BlockedBehind
<1>2. ASSUME \A u \in Deps[t] : s[u] \in Done PROVE WaitingBehind(s, t, TRUE) = WaitingBehind(s, t, FALSE)
  <2> DEFINE blocked == Blocked(s)
  <2>1. \A u \in blocked : s[u] = "pending"
    BY DEF Blocked, Of
  <2>2. Deps[t] \cap blocked = {}
    BY <1>2, <2>1 DEF Done
  <2>3. Deps[t] \in SUBSET Task
    BY DepsAssumption
  <2> HIDE DEF blocked
  <2>4. Behind(Deps[t], blocked) = Deps[t]
    <3>1. Behind(Deps[t], blocked) \subseteq Deps[t]
      BY <2>2, <2>3 DEF Behind
    <3> QED BY <2>3, <3>1, BehindHolds
  <2>5. Behind(Deps[t], Blocked(s)) = Deps[t]
    BY <2>4 DEF blocked
  <2>6. {u \in Deps[t] : s[u] \notin Done} = {}
    BY <1>2
  <2>7. {u \in Deps[t] : s[u] \notin Done /\ u \notin Of(s, {"failed"}) \cup Blocked(s)} = {}
    BY <1>2
  <2> QED BY <2>5, <2>6, <2>7 DEF WaitingBehind
<1> QED BY <1>1, <1>2

\* Startable, short of the queue.
Unqueued(t) ==
    /\ status[t] = "pending"
    /\ t \notin completing
    /\ onHold[t] = "no"
    /\ t \notin Blocked(status)
    /\ WaitingBehind(status, t, FALSE) = {}
    /\ Of(status, {"limited"}) = {}
    /\ ~planning

(* The queue makes nothing startable, and keeps nothing from it. *)
LEMMA QueueAside ==
    ASSUME NEW t \in Task
    PROVE  (Startable(t) <=> Unqueued(t)) /\ (Startable(t)' <=> Unqueued(t)')
<1>1. Contains(queued, t) \in BOOLEAN /\ Contains(queued', t) \in BOOLEAN
  BY DEF Contains
<1>2. Startable(t) <=> Unqueued(t)
  BY <1>1, WaitsAlike DEF Startable, Unqueued
<1>3. Startable(t)' <=> Unqueued(t)'
  BY <1>1, WaitsAlike DEF Startable, Unqueued
<1> QED BY <1>2, <1>3

(* A step that changes no status, no landing, no hold of a planner's and no attempt of a task leaves the same ready,
   whatever it queues: a hold that a force start takes off is of a task that waits behind others. *)
LEMMA ReadyStays ==
    ASSUME UNCHANGED <<status, completing, planning, live>>,
           \A t \in Task : onHold'[t] = onHold[t] \/ WaitingBehind(status, t, TRUE) # {}
    PROVE  /\ \A t \in Task : Startable(t)' <=> Startable(t)
           /\ LiveTasks' = LiveTasks /\ (NothingToDo' <=> NothingToDo)
<1>1. ASSUME NEW t \in Task PROVE Startable(t)' <=> Startable(t)
  <2>1. onHold'[t] = onHold[t] => (Unqueued(t)' <=> Unqueued(t))
    BY DEF Unqueued
  <2>2. WaitingBehind(status, t, TRUE) # {} => ~Unqueued(t) /\ ~Unqueued(t)'
    BY WaitsAlike DEF Unqueued
  <2> QED BY <2>1, <2>2, QueueAside
<1>2. LiveTasks' = LiveTasks
  BY DEF LiveTasks, HasLive
<1>3. Ready' = Ready
  <2>1. {t \in Task : Startable(t)}' = {t \in Task : Startable(t)}
    BY <1>1
  <2> QED BY <1>2, <2>1 DEF Ready
<1>4. Remaining' = Remaining /\ (AllDoneOrStuck' <=> AllDoneOrStuck)
  BY DEF Remaining, AllDoneOrStuck
<1> QED BY <1>1, <1>2, <1>3, <1>4 DEF NothingToDo

(* A tick that begins is owed. *)
LEMMA TickOwes ==
    ASSUME NEW s, NEW q, NEW W, Tick(s, q, W)
    PROVE  Owes'
<1>1. PICK left, on : ticks' = ticks \cup {[gen |-> stops', left |-> left, on |-> on, after |-> "tick"]}
  BY DEF Tick, QueuePass
<1> DEFINE e == [gen |-> stops', left |-> left, on |-> on, after |-> "tick"]
<1>2. e \in ticks' /\ e.after = "tick" /\ e.gen = stops'
  BY <1>1
<1> QED BY <1>2 DEF Owes

\* A step leaves alone what is owed and what is ready.
LeavesOwed ==
    /\ UNCHANGED <<status, completing, planning, live, stops>>
    /\ Scheduling' => Scheduling
    /\ \A t \in Task : onHold'[t] = onHold[t] \/ WaitingBehind(status, t, TRUE) # {}
    /\ \A e \in ticks : e.after = "tick" /\ e.gen = stops => \E f \in ticks' : f.after = "tick" /\ f.gen = stops
    /\ \A w \in waits : w.do \in {"letgo", "verdict", "skipped", "completed", "retried", "start"} => w \in waits'

(* Such a step owes what was owed. *)
LEMMA OwedStays ==
    ASSUME RestInv, LeavesOwed, resumes' \subseteq resumes
    PROVE  RestInv'
<1>1. /\ \A t \in Task : Startable(t)' <=> Startable(t)
      /\ LiveTasks' = LiveTasks /\ (NothingToDo' <=> NothingToDo)
  BY ReadyStays DEF LeavesOwed
<1>2. ASSUME Owes PROVE Owes'
  <2>1. CASE LiveTasks # {}
    BY <1>1, <2>1 DEF Owes
  <2>2. CASE \E e \in ticks : e.after = "tick" /\ e.gen = stops
    BY <2>2 DEF Owes, LeavesOwed
  <2>3. CASE \E w \in waits : \/ w.do \in {"letgo", "verdict", "skipped", "completed"}
                              \/ w.do = "retried" /\ w.gen = stops
                              \/ w.do = "start" /\ w.gen = stops /\ w.task \in Task /\ Startable(w.task)
    BY <1>1, <2>3 DEF Owes, LeavesOwed
  <2> QED BY <1>2, <2>1, <2>2, <2>3 DEF Owes
<1>3. resumes' \cap completing' = {}
  BY DEF RestInv, LeavesOwed
<1> QED BY <1>1, <1>2, <1>3 DEF RestInv, LeavesOwed

(* A step that leaves the run owing a tick. *)
LEMMA OwedNow ==
    ASSUME RestInv, Owes' \/ ~Scheduling',
           \/ resumes' \subseteq resumes /\ completing' \subseteq completing
           \/ resumes' \cap completing' = {}
    PROVE  RestInv'
BY DEF RestInv

(* What a claim leaves at work. *)
LEMMA ClaimOwes ==
    ASSUME SchedInv, NEW t \in Task, Free # {}, NEW gen, NEW kind, StartAttempt(t, gen, kind)
    PROVE  Owes'
<1> DEFINE a == CHOOSE b \in Free : TRUE
<1>1. a \in Attempt /\ a # None
  BY NoneAssumption DEF Free
<1>2. live' = [live EXCEPT ![t] = a] /\ live \in [Task -> Attempt \cup {None}]
  BY DEF StartAttempt, SchedInv, WorkInv, WorkTypes
<1> HIDE DEF a
<1>3. t \in LiveTasks'
  BY <1>1, <1>2 DEF LiveTasks, HasLive
<1> QED BY <1>3 DEF Owes

(* A wait that goes on with a tick is owed until it does. *)
LEMMA WaitOwes ==
    ASSUME NEW w \in waits', \/ w.do \in {"letgo", "verdict", "skipped", "completed"}
                             \/ w.do = "retried" /\ w.gen = stops'
    PROVE  Owes'
BY DEF Owes

(* The loop over a queue leaves its tick owed. *)
LEMMA QueueGoesOnRests ==
    ASSUME SchedInv, RestInv, NEW e \in ticks, QueueGoesOn(e)
    PROVE  RestInv'
<1>1. /\ UNCHANGED <<runVars, status, onHold, completing, planning, stops, live>>
      /\ QueuePass(e.left, queued, waits, e.gen, e.after, ticks \ {e})
  BY DEF QueueGoesOn
<1>2. waits \subseteq waits'
  BY <1>1 DEF QueuePass
<1>3. \A f \in ticks : f.after = "tick" /\ f.gen = stops => \E g \in ticks' : g.after = "tick" /\ g.gen = stops
  <2>1. PICK left, on : ticks' = (ticks \ {e}) \cup {[gen |-> e.gen, left |-> left, on |-> on, after |-> e.after]}
    BY <1>1 DEF QueuePass
  <2> DEFINE rest == [gen |-> e.gen, left |-> left, on |-> on, after |-> e.after]
  <2>2. rest \in ticks' /\ rest.after = e.after /\ rest.gen = e.gen /\ \A f \in ticks : f = e \/ f \in ticks'
    BY <2>1
  <2> HIDE DEF rest
  <2> QED BY <2>2
<1>4. LeavesOwed /\ resumes' \subseteq resumes
  BY <1>1, <1>2, <1>3 DEF LeavesOwed, runVars, Scheduling
<1> QED BY <1>4, OwedStays

(* settleRun opens no run to the scheduler, and leaves one to it with nothing at work only where something is left to do. *)
LEMMA SettledOpen ==
    ASSUME NEW after, SettledRun(after).kind = "scheduling"
    PROVE  run.kind = "scheduling" /\ (LiveTasks = {} => Remaining # {} /\ ~AllDoneOrStuck)
<1> DEFINE open == IF Remaining # {} THEN NextRunState(run, "reopen") ELSE run
           finished == NextRunState(open, "end finished")
           failed == NextRunState(open, "end failed")
           settled == SettledRun(after)
<1>1. open.kind = "scheduling" => run.kind = "scheduling"
  <2> DEFINE reopened == NextRunState(run, "reopen")
  <2>1. reopened.kind = "scheduling" => run.kind = "scheduling"
    <3>1. CASE run.kind = "held"
      BY <3>1 DEF NextRunState, WhenHeld, Held
    <3>2. CASE run.kind # "held"
      BY <3>2 DEF NextRunState, WhenFree, Run
    <3> QED BY <3>1, <3>2
  <2> HIDE DEF reopened
  <2>2. open = reopened \/ open = run
    BY DEF reopened
  <2> QED BY <2>1, <2>2
<1>2. open.kind = "held" \/ (finished = Run("finished") /\ failed = Run("endedOnFailure"))
  <2> HIDE DEF open
  <2>1. open.kind # "held" => finished = Run("finished")
    BY DEF NextRunState, WhenFree
  <2>2. open.kind # "held" => failed = Run("endedOnFailure")
    BY DEF NextRunState, WhenFree
  <2> HIDE DEF finished, failed
  <2> QED BY <2>1, <2>2
<1>3. /\ settled = open \/ (open.kind # "held" /\ settled \in {finished, failed})
      /\ settled = open => LiveTasks # {} \/ open.kind # "scheduling" \/ (Remaining # {} /\ ~AllDoneOrStuck) \/ finished = open \/ failed = open
  <2>1. settled = IF LiveTasks # {} \/ open.kind = "held" THEN open
                  ELSE IF open.kind # "scheduling" THEN (IF after = "verdict" /\ Remaining = {} THEN finished ELSE open)
                  ELSE IF Remaining = {} THEN finished ELSE IF AllDoneOrStuck THEN failed ELSE open
    BY Zenon DEF SettledRun
  <2> HIDE DEF open, finished, failed, settled
  <2> QED BY <2>1
<1> HIDE DEF open, finished, failed
<1>4. settled.kind = "scheduling"
  OBVIOUS
<1> HIDE DEF settled
<1>5. settled = open
  BY <1>2, <1>3, <1>4 DEF Run
<1> QED BY <1>1, <1>2, <1>3, <1>4, <1>5 DEF Run

(* A tick that ends starts what is ready, or leaves nothing to do. *)
LEMMA TickGoesOnRests ==
    ASSUME SchedInv, RestInv, NEW e \in ticks, TickGoesOn(e)
    PROVE  RestInv'
<1>1. /\ ticks' = ticks \ {e}
      /\ UNCHANGED <<resumes, armed, status, onHold, queued, completing, planning, stops, live, attempt>>
  BY DEF TickGoesOn
<1>2. \/ run' = SettledRun(e.after) /\ waits' = waits
         /\ (e.after = "verdict" \/ ~Scheduling \/ (~planning /\ Ready = {} /\ LiveTasks = {}))
      \/ run' = run /\ waits' = waits \cup {Await("start", t, e.gen) : t \in Ready}
         /\ e.after # "verdict" /\ Scheduling /\ ~(~planning /\ Ready = {} /\ LiveTasks = {})
  BY DEF TickGoesOn
<1>3. Scheduling' => Scheduling
  <2>1. SettledRun(e.after).kind = "scheduling" => run.kind = "scheduling"
    BY SettledOpen
  <2> QED BY <1>2, <2>1 DEF Scheduling
<1>4. CASE e.after # "tick" \/ e.gen # stops
  <2>1. \A f \in ticks : f.after = "tick" /\ f.gen = stops => f \in ticks'
    BY <1>1, <1>4
  <2>2. waits \subseteq waits'
    BY <1>2
  <2>3. LeavesOwed
    BY <1>1, <1>3, <2>1, <2>2 DEF LeavesOwed
  <2> QED BY <1>1, <2>3, OwedStays
<1>5. CASE e.after = "tick" /\ e.gen = stops
  <2>0. /\ \A t \in Task : Startable(t)' <=> Startable(t)
        /\ LiveTasks' = LiveTasks /\ (NothingToDo' <=> NothingToDo)
    BY <1>1, ReadyStays
  <2>1. ASSUME Scheduling' PROVE Owes' \/ NothingToDo'
    <3>1. CASE LiveTasks # {}
      BY <2>0, <3>1 DEF Owes
    <3>2. CASE LiveTasks = {} /\ Ready # {} /\ ~planning
      <4>1. PICK t \in Ready : TRUE
        BY <3>2
      <4>2. t \in Task /\ Startable(t)
        BY DEF Ready
      <4>3. Await("start", t, stops) \in waits'
        BY <1>2, <1>3, <1>5, <2>1, <3>2
      <4> QED BY <1>1, <2>0, <4>2, <4>3, AwaitIs DEF Owes
    <3>3. CASE LiveTasks = {} /\ planning
      <4>1. \A t \in Task : ~Startable(t)
        BY <3>3 DEF Startable
      <4>2. Ready = {}
        BY <4>1 DEF Ready
      <4> QED BY <2>0, <3>3, <4>2 DEF NothingToDo
    <3>4. CASE LiveTasks = {} /\ Ready = {} /\ ~planning
      <4>1. run' = SettledRun(e.after)
        BY <1>2, <3>4
      <4>2. Remaining # {} /\ ~AllDoneOrStuck
        BY <1>3, <2>1, <3>4, <4>1, SettledOpen DEF Scheduling
      <4> QED BY <2>0, <3>4, <4>2 DEF NothingToDo
    <3> QED BY <3>1, <3>2, <3>3, <3>4
  <2> QED BY <1>1, <2>1 DEF RestInv
<1> QED BY <1>4, <1>5

(* A start that goes on claims when its task is ready, and else leaves what is owed. *)
LEMMA StartGoesOnRests ==
    ASSUME SchedInv, RestInv, NEW w \in waits, StartGoesOn(w)
    PROVE  RestInv'
<1> DEFINE t == w.task
<1>1. /\ w.do = "start" /\ waits' = waits \ {w} /\ t \in Task
      /\ UNCHANGED <<runVars, onHold, queued, completing, planning, stops, ticks>>
  BY DEF StartGoesOn, SchedInv, WaitsRight, WaitRight
<1>2. CASE Scheduling /\ StillReady(t) /\ ~Refused(t, w.gen)
  <2>1. Free # {} /\ StartAttempt(t, w.gen, "fresh")
    BY <1>2 DEF StartGoesOn
  <2>2. Owes'
    BY <1>1, <2>1, ClaimOwes
  <2> QED BY <1>1, <2>2, OwedNow DEF runVars
<1>3. CASE ~(Scheduling /\ StillReady(t) /\ ~Refused(t, w.gen))
  <2>1. UNCHANGED <<live, attempt, status>>
    BY <1>3 DEF StartGoesOn
  <2>2. /\ \A u \in Task : Startable(u)' <=> Startable(u)
        /\ LiveTasks' = LiveTasks /\ (NothingToDo' <=> NothingToDo)
    BY <1>1, <2>1, ReadyStays
  <2>3. ASSUME Scheduling, LiveTasks = {}, w.gen = stops, Startable(t) PROVE FALSE
    <3>1. Cardinality(LiveTasks) < MaxParallel
      BY <2>3, FS_EmptySet, MaxParallelAssumption
    <3>2. ~SlotsFull /\ ~HasLive(t)
      BY <1>1, <2>3, <3>1, MaxParallelAssumption, FS_EmptySet DEF SlotsFull, LiveTasks
    <3>3. t \notin completing
      BY <2>3 DEF Startable
    <3> QED BY <1>3, <2>3, <3>2, <3>3 DEF StillReady, Refused
  <2>4. ASSUME Owes, Scheduling PROVE Owes'
    <3>1. CASE LiveTasks # {}
      BY <2>2, <3>1 DEF Owes
    <3>2. CASE \E e \in ticks : e.after = "tick" /\ e.gen = stops
      BY <1>1, <3>2 DEF Owes
    <3>3. CASE LiveTasks = {} /\ \E v \in waits : \/ v.do \in {"letgo", "verdict", "skipped", "completed"}
                                                  \/ v.do = "retried" /\ v.gen = stops
                                                  \/ v.do = "start" /\ v.gen = stops /\ v.task \in Task /\ Startable(v.task)
      <4>1. PICK v \in waits : \/ v.do \in {"letgo", "verdict", "skipped", "completed"}
                               \/ v.do = "retried" /\ v.gen = stops
                               \/ v.do = "start" /\ v.gen = stops /\ v.task \in Task /\ Startable(v.task)
        BY <3>3
      <4>2. v # w
        BY <1>1, <2>3, <2>4, <3>3, <4>1
      <4>3. v \in waits'
        BY <1>1, <4>2
      <4> QED BY <1>1, <2>2, <4>1, <4>3 DEF Owes
    <3> QED BY <2>4, <3>1, <3>2, <3>3 DEF Owes
  <2> QED BY <1>1, <2>2, <2>4 DEF RestInv, runVars, Scheduling
<1> QED BY <1>2, <1>3

(* What else awaits goes on: with a tick, a claim, or nothing owed of it. *)
LEMMA WaitsRest ==
    ASSUME SchedInv, RestInv, NEW w \in waits, GoesOn(w)
    PROVE  RestInv'
<1> DEFINE t == w.task
<1>1. CASE StartGoesOn(w)
  BY <1>1, StartGoesOnRests
<1>2. CASE AfterVerdict(w)
  <2>1. UNCHANGED <<resumes, completing>>
    BY <1>2 DEF AfterVerdict
  <2>2. Owes' \/ ~Scheduling'
    BY <1>2, TickOwes DEF AfterVerdict, Scheduling
  <2> QED BY <2>1, <2>2, OwedNow
<1>3. CASE LetGoOver(w)
  <2>1. UNCHANGED <<resumes, completing>> /\ Owes'
    BY <1>3, TickOwes DEF LetGoOver, runVars
  <2> QED BY <2>1, OwedNow
<1>4. CASE ResumeGoesOn(w)
  <2> DEFINE goesOn == t \in resumes /\ ~HasLive(t)
             starts == goesOn /\ ~Refused(t, w.gen)
             restarts == starts /\ run.from = "scheduling" /\ resumes = {t}
  <2>1. w.do = "resume" /\ UNCHANGED <<completing, planning, stops>> /\ t \in Task
    BY <1>4 DEF ResumeGoesOn, SchedInv, WaitsRight, WaitRight
  <2>2. CASE starts
    <3>1. Free # {} /\ StartAttempt(t, w.gen, "continue") /\ resumes' = resumes \ {t}
      BY <1>4, <2>2 DEF ResumeGoesOn
    <3>2. Owes'
      BY <2>1, <3>1, ClaimOwes
    <3> QED BY <2>1, <3>1, <3>2, OwedNow
  <2>3. CASE ~starts
    <3>1. /\ UNCHANGED <<live, attempt, onHold, status, queued, ticks>> /\ waits' = waits \ {w}
          /\ IF goesOn /\ w.gen = stops THEN CancelResume(t) ELSE UNCHANGED runVars
      BY <1>4, <2>3 DEF ResumeGoesOn
    <3>2. CASE goesOn /\ w.gen = stops
      <4>1. SlotsFull
        BY <2>3, <3>2 DEF Refused, RestInv
      <4>2. LiveTasks # {}
        BY <4>1, FS_EmptySet, MaxParallelAssumption DEF SlotsFull
      <4>3. LiveTasks' = LiveTasks
        BY <3>1 DEF LiveTasks, HasLive
      <4>4. resumes' \subseteq resumes
        BY <3>1, <3>2 DEF CancelResume, runVars
      <4>5. Owes'
        BY <4>2, <4>3 DEF Owes
      <4> QED BY <2>1, <4>4, <4>5, OwedNow
    <3>3. CASE ~(goesOn /\ w.gen = stops)
      <4>1. LeavesOwed /\ resumes' \subseteq resumes
        BY <2>1, <3>1, <3>3 DEF LeavesOwed, runVars, Scheduling
      <4> QED BY <4>1, OwedStays
    <3> QED BY <3>2, <3>3
  <2> QED BY <2>2, <2>3
<1>5. CASE ControlGoesOn(w)
  <2>1. UNCHANGED <<resumes, completing, onHold, planning, stops, live>> /\ w.do \in {"retried", "skipped"}
    BY <1>5 DEF ControlGoesOn
  <2>2. CASE w.gen = stops \/ w.do = "skipped"
    <3>1. Owes'
      BY <1>5, <2>2, TickOwes DEF ControlGoesOn
    <3> QED BY <2>1, <3>1, OwedNow
  <2>3. CASE ~(w.gen = stops \/ w.do = "skipped")
    <3>1. waits' = waits \ {w} /\ UNCHANGED <<status, queued, ticks>> /\ run' = run
      BY <1>5, <2>3 DEF ControlGoesOn
    <3>2. LiveTasks' = LiveTasks /\ (NothingToDo' <=> NothingToDo) /\ \A u \in Task : Startable(u)' <=> Startable(u)
      BY <2>1, <3>1, ReadyStays
    <3>3. w.do = "retried" /\ w.gen # stops
      BY <2>1, <2>3
    <3>4. Owes => Owes'
      BY <2>1, <3>1, <3>2, <3>3 DEF Owes
    <3> QED BY <2>1, <3>1, <3>2, <3>4 DEF RestInv, Scheduling
  <2> QED BY <2>2, <2>3
<1>6. CASE ForceGoesOn(w)
  <2>1. w.do \in Forces /\ waits' = waits \ {w} /\ t \in Task /\ UNCHANGED <<completing, planning, stops, ticks>>
    BY <1>6 DEF ForceGoesOn, Forces, SchedInv, WaitsRight, WaitRight
  <2>2. \/ /\ Free # {} /\ StartAttempt(t, w.gen, "fresh") /\ CancelResume(t)
        \/ /\ UNCHANGED <<runVars, live, attempt, status>>
           /\ UNCHANGED onHold \/ (ForcedBehind(t) # {} /\ onHold' = [onHold EXCEPT ![t] = "no"])
    BY <1>6 DEF ForceGoesOn, Enqueued
  <2>3. CASE Free # {} /\ StartAttempt(t, w.gen, "fresh") /\ CancelResume(t)
    <3>1. Owes'
      BY <2>1, <2>3, ClaimOwes
    <3>2. resumes' \subseteq resumes
      BY <2>3 DEF CancelResume, runVars
    <3> QED BY <2>1, <3>1, <3>2, OwedNow
  <2>4. CASE /\ UNCHANGED <<runVars, live, attempt, status>>
             /\ UNCHANGED onHold \/ (ForcedBehind(t) # {} /\ onHold' = [onHold EXCEPT ![t] = "no"])
    <3>1. \A u \in Task : onHold'[u] = onHold[u] \/ WaitingBehind(status, u, TRUE) # {}
      BY <2>1, <2>4 DEF ForcedBehind, SchedInv, RestTypes
    <3>2. LeavesOwed /\ resumes' \subseteq resumes
      BY <2>1, <2>4, <3>1 DEF LeavesOwed, runVars, Scheduling, Forces
    <3> QED BY <3>2, OwedStays
  <2> QED BY <2>2, <2>3, <2>4
<1>7. ASSUME NEW landed \in BOOLEAN, CompletedGoesOn(w, landed) PROVE RestInv'
  <2>1. completing' \subseteq completing /\ resumes' \subseteq resumes /\ Owes'
    BY <1>7, TickOwes DEF CompletedGoesOn
  <2> QED BY <2>1, OwedNow
<1> QED BY <1>1, <1>2, <1>3, <1>4, <1>5, <1>6, <1>7 DEF GoesOn

(* What an attempt comes to is owed a tick. *)
LEMMA AttemptsRest ==
    ASSUME SchedInv, RestInv, NEW a \in Attempt, AttemptMoves(a) \/ Ask(a)
    PROVE  RestInv'
<1> DEFINE t == attempt[a].task
<1>1. ASSUME UNCHANGED <<runVars, onHold, completing, planning, stops, ticks, waits, live, status>> PROVE RestInv'
  <2>1. LeavesOwed /\ resumes' \subseteq resumes
    BY <1>1 DEF LeavesOwed, runVars, Scheduling
  <2> QED BY <2>1, OwedStays
<1>2. CASE WoundDown(a) \/ RunnerGone(a) \/ Verdict(a)
  BY <1>1, <1>2 DEF WoundDown, RunnerGone, Verdict
<1>3. CASE Ask(a)
  <2>1. t \in LiveTasks /\ UNCHANGED <<live, runVars, completing>>
    BY <1>3, CurrentIs DEF Ask, LiveTasks
  <2>2. Owes'
    BY <2>1 DEF Owes, LiveTasks, HasLive
  <2> QED BY <2>1, <2>2, OwedNow DEF runVars
<1>4. ASSUME ~Current(a), Abandon(a), live' = live, attempt[a].at \in {"opening", "spawning"}, completing' = completing
      PROVE  status' = status
  BY <1>4, AbandonKeeps DEF SchedInv
<1>5. CASE Opened(a) \/ Spawned(a)
  <2>1. /\ UNCHANGED <<runVars, onHold, completing, planning, stops, ticks, waits, live>>
        /\ attempt[a].at \in {"opening", "spawning"}
        /\ UNCHANGED status \/ (~Current(a) /\ Abandon(a))
    BY <1>5 DEF Opened, Spawned
  <2> QED BY <1>1, <1>4, <2>1
<1>6. ASSUME resumes' \subseteq resumes \cup {t}, UNCHANGED <<completing, stops>>, Current(a),
             NEW w \in waits', w.do \in {"letgo", "verdict"}
      PROVE  RestInv'
  <2>1. t \notin completing
    BY <1>6, CurrentIs
  <2>2. Owes'
    BY <1>6, WaitOwes
  <2>3. resumes' \cap completing' = {}
    BY <1>6, <2>1 DEF RestInv
  <2> QED BY <2>2, <2>3, OwedNow
<1>7. \A reset \in BOOLEAN : Pause(t, reset) => resumes' \subseteq resumes \cup {t}
  BY DEF Pause, runVars
<1>8. ASSUME NEW how, SpawnFails(a, how) PROVE RestInv'
  <2> DEFINE more == Await(IF how \in {"failed", "held"} THEN "letgo" ELSE "verdict", None, 0)
  <2>1. CASE ~Current(a)
    <3>1. /\ UNCHANGED <<runVars, onHold, completing, planning, stops, ticks, waits, live>>
          /\ attempt[a].at \in {"opening", "spawning"} /\ Abandon(a)
      BY <1>8, <2>1, Zenon DEF SpawnFails
    <3> QED BY <1>1, <1>4, <2>1, <3>1
  <2>2. CASE Current(a)
    <3>1. /\ waits' = waits \cup {more} /\ UNCHANGED <<completing, stops>>
          /\ UNCHANGED runVars \/ \E reset \in BOOLEAN : Pause(t, reset)
      <4>1. (how = "limited, with a reset") \in BOOLEAN
        BY Zenon
      <4> QED BY <1>8, <2>2, <4>1, Zenon DEF SpawnFails
    <3>2. more.do \in {"letgo", "verdict"}
      BY AwaitIs
    <3> HIDE DEF more
    <3>3. resumes' \subseteq resumes \cup {t}
      BY <1>7, <3>1 DEF runVars
    <3> QED BY <1>6, <2>2, <3>1, <3>2, <3>3
  <2> QED BY <2>1, <2>2
<1>9. ASSUME NEW how, Decided(a, how) PROVE RestInv'
  <2> DEFINE more == Await("verdict", None, 0)
  <2>1. CASE ~Current(a) \/ how = "passed"
    <3>1. UNCHANGED <<runVars, onHold, completing, planning, stops, ticks, waits, live, status>>
      BY <1>9, <2>1, Zenon DEF Decided
    <3> QED BY <1>1, <3>1
  <2>2. CASE Current(a) /\ how # "passed"
    <3>1. /\ waits' = waits \cup {more} /\ UNCHANGED <<completing, stops>>
          /\ UNCHANGED runVars \/ \E reset \in BOOLEAN : Pause(t, reset)
      <4>1. (how = "limited, with a reset") \in BOOLEAN
        BY Zenon
      <4> QED BY <1>9, <2>2, <4>1, Zenon DEF Decided
    <3>2. more.do \in {"letgo", "verdict"}
      BY AwaitIs
    <3> HIDE DEF more
    <3>3. resumes' \subseteq resumes \cup {t}
      BY <1>7, <3>1 DEF runVars
    <3> QED BY <1>6, <2>2, <3>1, <3>2, <3>3
  <2> QED BY <2>1, <2>2
<1>10. ASSUME NEW how, Landed(a, how) PROVE RestInv'
  <2>1. CASE ~Current(a)
    BY <1>1, <1>10, <2>1 DEF Landed
  <2>2. CASE Current(a)
    <3>1. Await("verdict", None, 0) \in waits' /\ resumes' = resumes /\ UNCHANGED <<completing, stops>>
      BY <1>10, <2>2 DEF Landed, runVars
    <3> QED BY <1>6, <2>2, <3>1, AwaitIs
  <2> QED BY <2>1, <2>2
<1> QED BY <1>2, <1>3, <1>5, <1>8, <1>9, <1>10, Zenon DEF AttemptMoves

(* Whatever the user asks for leaves a tick owed, or nothing less to do. *)
LEMMA AsksRest ==
    ASSUME SchedInv, RestInv, UserMoves
    PROVE  RestInv'
<1>1. CASE BeginRun
  <2>1. resumes' = {} /\ Owes'
    BY <1>1, TickOwes DEF BeginRun
  <2> QED BY <2>1, OwedNow
<1>2. CASE JoinRun
  <2>1. UNCHANGED <<resumes, completing>>
    BY <1>2 DEF JoinRun
  <2>2. CASE HeldRun
    <3>1. run' = NextRunState(run, "join")
      BY <1>2, <2>2 DEF JoinRun
    <3>2. run' = Held("scheduling")
      BY <2>2, <3>1 DEF HeldRun, NextRunState, WhenHeld
    <3>3. ~Scheduling'
      BY <3>2 DEF Scheduling, Held
    <3> QED BY <2>1, <3>3, OwedNow
  <2>3. CASE ~HeldRun
    <3>1. Owes'
      BY <1>2, <2>3, TickOwes DEF JoinRun
    <3> QED BY <2>1, <3>1, OwedNow
  <2> QED BY <2>2, <2>3
<1>3. CASE Stop
  <2>1. run' = NextRunState(run, "stop") /\ resumes' = {}
    BY <1>3 DEF Stop
  <2>2. run' = Run("idle")
    BY <2>1 DEF NextRunState, WhenHeld, WhenFree
  <2> QED BY <2>1, <2>2, OwedNow DEF Scheduling, Run
<1>4. CASE HoldStarts
  <2>1. planning' = TRUE /\ UNCHANGED <<runVars, completing>>
    BY <1>4 DEF HoldStarts
  <2>2. Ready' = {}
    <3>1. \A t \in Task : ~Startable(t)'
      BY <2>1 DEF Startable
    <3> QED BY <3>1 DEF Ready
  <2>3. NothingToDo'
    BY <2>1, <2>2 DEF NothingToDo
  <2> QED BY <2>1, <2>3 DEF RestInv, runVars
<1>5. ASSUME NEW t \in Task, CancelTask(t) PROVE RestInv'
  <2>1. Await("letgo", None, 0) \in waits' /\ UNCHANGED <<runVars, completing>>
    BY <1>5 DEF CancelTask
  <2>2. Owes'
    BY <2>1, AwaitIs, WaitOwes
  <2> QED BY <2>1, <2>2, OwedNow DEF runVars
<1>6. ASSUME NEW t \in Task, RetryTask(t) \/ SkipTask(t) PROVE RestInv'
  <2>1. /\ Await("retried", t, stops') \in waits' \/ Await("skipped", t, stops') \in waits'
        /\ resumes' \subseteq resumes /\ completing' = completing
    BY <1>6 DEF RetryTask, SkipTask, CancelResume, runVars
  <2>2. Owes'
    BY <2>1, AwaitIs, WaitOwes
  <2> QED BY <2>1, <2>2, OwedNow
<1>7. ASSUME NEW t \in Task, CancelScheduledResume(t) PROVE RestInv'
  <2>1. Tick(status, queued, waits) /\ CancelResume(t) /\ completing' = completing
    BY <1>7, Zenon DEF CancelScheduledResume
  <2>2. resumes' \subseteq resumes /\ Owes'
    BY <2>1, TickOwes DEF CancelResume, runVars
  <2> QED BY <2>1, <2>2, OwedNow
<1>8. ASSUME NEW t \in Task, ForceStart(t) PROVE RestInv'
  <2>1. /\ UNCHANGED <<runVars, status, completing, planning, stops, live, ticks>> /\ waits \subseteq waits'
        /\ UNCHANGED onHold \/ (ForcedBehind(t) # {} /\ onHold' = [onHold EXCEPT ![t] = "no"])
    BY <1>8 DEF ForceStart, Enqueued
  <2>2. \A u \in Task : onHold'[u] = onHold[u] \/ WaitingBehind(status, u, TRUE) # {}
    BY <2>1 DEF ForcedBehind, SchedInv, RestTypes
  <2>3. LeavesOwed /\ resumes' \subseteq resumes
    BY <2>1, <2>2 DEF LeavesOwed, runVars, Scheduling
  <2> QED BY <2>3, OwedStays
<1>9. ASSUME NEW t \in Task, MarkTaskComplete(t) PROVE RestInv'
  <2>1. ~Scheduling' /\ resumes' = {}
    BY <1>9 DEF MarkTaskComplete, AdvancesOnItsOwn, StartsPending, runVars, Scheduling
  <2> QED BY <2>1, OwedNow
<1>10. ASSUME NEW t \in Task, MarkTaskIncomplete(t) PROVE RestInv'
  <2>1. UNCHANGED <<runVars, completing>> /\ Owes'
    BY <1>10, TickOwes DEF MarkTaskIncomplete
  <2> QED BY <2>1, OwedNow DEF runVars
<1>11. ASSUME NEW t \in Task, Answer(t) PROVE RestInv'
  <2>1. t \in LiveTasks /\ UNCHANGED <<live, runVars, completing>>
    BY <1>11 DEF Answer, LiveTasks, SchedInv, TasksRight, StatusTellsTheTruth
  <2>2. Owes'
    BY <2>1 DEF Owes, LiveTasks, HasLive
  <2> QED BY <2>1, <2>2, OwedNow DEF runVars
<1> QED BY <1>1, <1>2, <1>3, <1>4, <1>5, <1>6, <1>7, <1>8, <1>9, <1>10, <1>11 DEF UserMoves

(* Every step keeps it. *)
LEMMA RestInvKeeps ==
    ASSUME SchedInv, RestInv, [Next]_vars
    PROVE  RestInv'
<1>1. ASSUME NEW e \in ticks, TickMoves(e) PROVE RestInv'
  BY <1>1, QueueGoesOnRests, TickGoesOnRests DEF TickMoves
<1>2. CASE ResetComes
  <2>1. /\ UNCHANGED <<run, resumes, status, onHold, completing, planning, stops, live, ticks>> /\ waits \subseteq waits'
    BY <1>2 DEF ResetComes
  <2>2. LeavesOwed /\ resumes' \subseteq resumes
    BY <2>1 DEF LeavesOwed, Scheduling
  <2> QED BY <2>2, OwedStays
<1>3. CASE ReleaseStarts
  <2>1. UNCHANGED <<runVars, completing>> /\ Owes'
    BY <1>3, TickOwes DEF ReleaseStarts
  <2> QED BY <2>1, OwedNow DEF runVars
<1>4. CASE UNCHANGED vars
  <2>1. LeavesOwed /\ resumes' \subseteq resumes
    BY <1>4 DEF vars, runVars, LeavesOwed, Scheduling
  <2> QED BY <2>1, OwedStays
<1> QED BY <1>1, <1>2, <1>3, <1>4, WaitsRest, AttemptsRest, AsksRest DEF Next

\* A scheduler with nothing under way has nothing it could start, and something is left that the user may
\* answer: for every plan, whatever starts, landings, resets, Stops, skips and planner's turns came between, in
\* any order, each change that could make a task ready has ticked, or still will.
THEOREM RestsAlwaysRightly == Spec => []RestsRightly
<1>1. Init => RestInv
  BY DEF Init, RestInv, Scheduling, Run
<1>2. SchedInv /\ RestInv /\ [Next]_vars => RestInv'
  BY RestInvKeeps
<1>3. RestInv => RestsRightly
  BY DEF RestInv, RestsRightly, NoMissedStart, RestsOnUser, AtRest, Owes, NothingToDo
<1> QED BY <1>1, <1>2, <1>3, SchedInvHolds, PTL DEF Spec
=============================================================================
