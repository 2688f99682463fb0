--------------------------- MODULE PlanTurnsProofs ---------------------------
(***************************************************************************)
(* What a planner's turn takes from the others and what it writes, that an *)
(* input is in the list or the transcript and never in both, that whoever  *)
(* waits for an answer waits for something, and that a wake-up stays in    *)
(* the list, for any turns, inputs and number of plans. The lemmas are     *)
(* about the handlers: which turn, slot and hold each leaves behind, given *)
(* what it found (first part), where each leaves the inputs (second part), *)
(* what it leaves their callers waiting for (third part), and whom it      *)
(* takes from the list (fourth part). PlanTurnsStates defines the words.   *)
(***************************************************************************)
EXTENDS PlanTurnsStates, WellFoundedInduction, TLAPS

-----------------------------------------------------------------------------
LEMMA AlikeSelf == ASSUME NEW s, Shaped(s) PROVE Alike(s, s)
BY DEF Alike, SameTurns

LEMMA AlikeTrans == ASSUME NEW s, NEW r, NEW q, Alike(s, r), Alike(r, q) PROVE Alike(s, q)
BY DEF Alike, SameTurns

\* A field of the list, the pause, the gate or the callers is none of theirs.
LEMMA SetPlan ==
  ASSUME NEW s, NEW r, Alike(s, r), NEW v
  PROVE  /\ Alike(s, [r EXCEPT !.plan.pending = v]) /\ Alike(s, [r EXCEPT !.plan.forced = v])
         /\ Alike(s, [r EXCEPT !.plan.limit = v]) /\ Alike(s, [r EXCEPT !.plan.paused = v])
         /\ Alike(s, [r EXCEPT !.plan.kept = v]) /\ Alike(s, [r EXCEPT !.plan.failures = v])
<1>1. Alike(s, [r EXCEPT !.plan.pending = v])
  BY DEF Alike, SameTurns, Shaped, PlanShaped
<1>2. Alike(s, [r EXCEPT !.plan.forced = v])
  BY DEF Alike, SameTurns, Shaped, PlanShaped
<1>3. Alike(s, [r EXCEPT !.plan.limit = v])
  BY DEF Alike, SameTurns, Shaped, PlanShaped
<1>4. Alike(s, [r EXCEPT !.plan.paused = v])
  BY DEF Alike, SameTurns, Shaped, PlanShaped
<1>5. Alike(s, [r EXCEPT !.plan.kept = v])
  BY DEF Alike, SameTurns, Shaped, PlanShaped
<1>6. Alike(s, [r EXCEPT !.plan.failures = v])
  BY DEF Alike, SameTurns, Shaped, PlanShaped
<1> QED
  BY <1>1, <1>2, <1>3, <1>4, <1>5, <1>6

LEMMA SetLane ==
  ASSUME NEW s, NEW r, Alike(s, r), NEW v
  PROVE  /\ Alike(s, [r EXCEPT !.lane.detecting = v]) /\ Alike(s, [r EXCEPT !.lane.awaitingSlot = v])
         /\ Alike(s, [r EXCEPT !.lane.quiet = v]) /\ Alike(s, [r EXCEPT !.lane.restored = v])
         /\ Alike(s, [r EXCEPT !.lane.reportWake = v]) /\ Alike(s, [r EXCEPT !.lane.caller = v])
         /\ Alike(s, [r EXCEPT !.lane.withdrawn = v]) /\ Alike(s, [r EXCEPT !.lane.asked = v])
<1>1. Alike(s, [r EXCEPT !.lane.detecting = v])
  BY DEF Alike, SameTurns, Shaped, LaneShaped
<1>2. Alike(s, [r EXCEPT !.lane.awaitingSlot = v])
  BY DEF Alike, SameTurns, Shaped, LaneShaped
<1>3. Alike(s, [r EXCEPT !.lane.quiet = v])
  BY DEF Alike, SameTurns, Shaped, LaneShaped
<1>4. Alike(s, [r EXCEPT !.lane.restored = v])
  BY DEF Alike, SameTurns, Shaped, LaneShaped
<1>5. Alike(s, [r EXCEPT !.lane.reportWake = v])
  BY DEF Alike, SameTurns, Shaped, LaneShaped
<1>6. Alike(s, [r EXCEPT !.lane.caller = v])
  BY DEF Alike, SameTurns, Shaped, LaneShaped
<1>7. Alike(s, [r EXCEPT !.lane.withdrawn = v])
  BY DEF Alike, SameTurns, Shaped, LaneShaped
<1>8. Alike(s, [r EXCEPT !.lane.asked = v])
  BY DEF Alike, SameTurns, Shaped, LaneShaped
<1> QED
  BY <1>1, <1>2, <1>3, <1>4, <1>5, <1>6, <1>7, <1>8

LEMMA SetTalk ==
  ASSUME NEW s, NEW r, Alike(s, r), NEW v
  PROVE  /\ Alike(s, [r EXCEPT !.talk.room = v]) /\ Alike(s, [r EXCEPT !.talk.known = v])
         /\ Alike(s, [r EXCEPT !.talk.moved = v]) /\ Alike(s, [r EXCEPT !.talk.opening = NoOpening])
         /\ Alike(s, [r EXCEPT !.talk.opening.held = v]) /\ Alike(s, [r EXCEPT !.talk.opening.forced = v])
<1>1. Alike(s, [r EXCEPT !.talk.room = v])
  BY DEF Alike, SameTurns, Shaped, TalkShaped
<1>2. Alike(s, [r EXCEPT !.talk.known = v])
  BY DEF Alike, SameTurns, Shaped, TalkShaped
<1>3. Alike(s, [r EXCEPT !.talk.moved = v])
  BY DEF Alike, SameTurns, Shaped, TalkShaped
<1>4. Alike(s, [r EXCEPT !.talk.opening = NoOpening])
  BY DEF Alike, SameTurns, Shaped, TalkShaped, NoOpening
<1>5. Alike(s, [r EXCEPT !.talk.opening.held = v])
  BY DEF Alike, SameTurns, Shaped, TalkShaped
<1>6. Alike(s, [r EXCEPT !.talk.opening.forced = v])
  BY DEF Alike, SameTurns, Shaped, TalkShaped
<1> QED
  BY <1>1, <1>2, <1>3, <1>4, <1>5, <1>6

LEMMA TellAlike == ASSUME NEW s, NEW r, Alike(s, r), NEW X, NEW what PROVE Alike(s, Tell(r, X, what))
BY SetLane DEF Tell

LEMMA TakeAlike == ASSUME NEW s, NEW r, Alike(s, r), NEW X PROVE Alike(s, Take(r, X))
<1> DEFINE q == [r EXCEPT !.plan.pending = Without(@, X)]
<1>1. Alike(s, q)
  BY SetPlan
<1> DEFINE f == q.plan.forced \ X
<1>2. Take(r, X) = [q EXCEPT !.plan.forced = f]
  BY DEF Take
<1> HIDE DEF q, f
<1>3. Alike(s, [q EXCEPT !.plan.forced = f])
  BY <1>1, SetPlan
<1> QED
  BY <1>2, <1>3

LEMMA DropWithdrawnAlike == ASSUME NEW s, NEW r, Alike(s, r) PROVE Alike(s, DropWithdrawn(r))
BY TellAlike, TakeAlike DEF DropWithdrawn

LEMMA RefuseAlike == ASSUME NEW s, NEW r, Alike(s, r) PROVE Alike(s, Refuse(r))
BY TellAlike, TakeAlike DEF Refuse

LEMMA CountedAlike == ASSUME NEW s, NEW r, Alike(s, r), NEW e, NEW how PROVE Alike(s, Counted(r, e, how))
<1> DEFINE q == [r EXCEPT !.lane.asked = @ \/ (how = "failed" /\ e.late)]
           f == CASE how = "answered" -> 0
                  [] how = "failed" -> IF q.plan.failures = 0 THEN 1 ELSE 2
                  [] how = "limited" /\ r.plan.limit = "held" -> 2
                  [] OTHER -> q.plan.failures
<1>1. Alike(s, q)
  BY SetLane
<1>2. Counted(r, e, how) = IF ~IsWakeUp(e) THEN r ELSE [q EXCEPT !.plan.failures = f]
  BY DEF Counted
<1> HIDE DEF q, f
<1>3. Alike(s, [q EXCEPT !.plan.failures = f])
  BY <1>1, SetPlan
<1> QED
  BY <1>2, <1>3

LEMMA EndWaitingAlike == ASSUME NEW s, NEW r, Alike(s, r), NEW why PROVE Alike(s, EndWaiting(r, why))
<1> DEFINE q == Tell(r, Elems(r.talk.opening.held) \union {r.talk.opening.input}, why)
<1>1. Alike(s, q)
  BY TellAlike
<1>2. EndWaiting(r, why) = IF r.talk.opening.at \notin {"probe", "slot"} THEN r ELSE [q EXCEPT !.talk.opening = NoOpening]
  BY DEF EndWaiting
<1> HIDE DEF q
<1>3. Alike(s, [q EXCEPT !.talk.opening = NoOpening])
  BY <1>1, SetTalk
<1> QED
  BY <1>2, <1>3

LEMMA StopQueuedAlike == ASSUME NEW s, NEW r, Alike(s, r) PROVE Alike(s, StopQueued(r))
<1>1. Alike(s, DropPause(r))
  <2> DEFINE X == Elems(r.plan.pending) \intersect User
             q1 == Tell(Take(r, X), X, "stopped")
             q2 == [q1 EXCEPT !.plan.paused = FALSE]
             q3 == [q2 EXCEPT !.plan.kept = {}]
             q4 == [q3 EXCEPT !.lane.asked = FALSE]
             q5 == [q4 EXCEPT !.lane.quiet = @ \/ Elems(r.plan.pending) # X]
  <2>1. Alike(s, q1)
    BY TellAlike, TakeAlike
  <2>2. Alike(s, q2)
    <3> HIDE DEF q1
    <3> QED
      BY <2>1, SetPlan
  <2>3. Alike(s, q3)
    <3> HIDE DEF q2
    <3> QED
      BY <2>2, SetPlan
  <2>4. Alike(s, q4)
    <3> HIDE DEF q3
    <3> QED
      BY <2>3, SetLane
  <2>5. Alike(s, q5)
    <3> HIDE DEF q4
    <3> QED
      BY <2>4, SetLane
  <2>6. DropPause(r) = q5
    <3>1. Shaped(q1)
      BY <2>1 DEF Alike
    <3>2. DropPause(r) = [q1 EXCEPT !.plan.paused = FALSE, !.plan.kept = {}, !.lane.asked = FALSE,
                                    !.lane.quiet = @ \/ Elems(r.plan.pending) # X]
      BY DEF DropPause
    <3> HIDE DEF q1, X
    <3> QED
      BY <3>1, <3>2 DEF Shaped, PlanShaped, LaneShaped
  <2> QED
    BY <2>5, <2>6
<1>2. ASSUME NEW X, NEW a, NEW b
      PROVE  Alike(s, [Tell(Take(r, X), X, "stopped") EXCEPT !.lane.asked = a, !.lane.quiet = @ \/ b])
  <2> DEFINE q1 == Tell(Take(r, X), X, "stopped")
             q2 == [q1 EXCEPT !.lane.asked = a]
             q3 == [q2 EXCEPT !.lane.quiet = @ \/ b]
  <2>1. Alike(s, q1)
    BY TellAlike, TakeAlike
  <2>2. Alike(s, q2)
    <3> HIDE DEF q1
    <3> QED
      BY <2>1, SetLane
  <2>3. Alike(s, q3)
    <3> HIDE DEF q2
    <3> QED
      BY <2>2, SetLane
  <2> QED
    BY <2>3, Zenon
<1> QED
  BY <1>1, <1>2, Zenon DEF StopQueued

-----------------------------------------------------------------------------
LEMMA IdleShape == TurnIsRecord(Idle) /\ Idle.at = "free"
BY DEF TurnIsRecord, Idle

\* A turn's record is replaced.
LEMMA PutTurn ==
  ASSUME NEW s, Shaped(s), NEW t \in Turn, NEW n, TurnIsRecord(n)
  PROVE  ButTurn(s, [s EXCEPT !.talk.turn[t] = n], t) /\ [s EXCEPT !.talk.turn[t] = n].talk.turn[t] = n
<1> DEFINE k == [s EXCEPT !.talk.turn[t] = n]
<1>1. /\ k.plan = s.plan /\ k.lane = s.lane /\ k.talk.live = s.talk.live
      /\ k.talk.lease = s.talk.lease /\ k.talk.able = s.talk.able /\ k.talk.opening = s.talk.opening
      /\ k.talk.turn = [s.talk.turn EXCEPT ![t] = n]
  BY DEF Shaped, TalkShaped
<1>2. k.talk.turn[t] = n /\ \A u \in Turn \ {t} : k.talk.turn[u] = s.talk.turn[u]
  BY <1>1 DEF Shaped, TalkShaped
<1>3. k.talk.turn = [u \in Turn |-> k.talk.turn[u]]
  BY <1>1 DEF Shaped, TalkShaped
<1>4. \A u \in Turn : TurnIsRecord(k.talk.turn[u])
  BY <1>2 DEF Shaped, TalkShaped
<1>5. k \in [plan : {k.plan}, lane : {k.lane}, talk : {k.talk}]
  BY DEF Shaped
<1>6. k.talk \in [live : Turn \union {None}, turn : {k.talk.turn}, opening : {k.talk.opening}, lease : BOOLEAN,
                  room : {k.talk.room}, known : {k.talk.known}, able : BOOLEAN, moved : {k.talk.moved}]
  BY DEF Shaped, TalkShaped
<1> HIDE DEF k
<1>7. Shaped(k)
  BY <1>1, <1>3, <1>4, <1>5, <1>6 DEF Shaped, TalkShaped
<1> QED
  BY <1>1, <1>2, <1>7 DEF k, ButTurn

LEMMA WithSlotSays ==
  ASSUME NEW s, Shaped(s)
  PROVE  LET r == WithSlot(s)
         IN  /\ Shaped(r) /\ r.plan = s.plan /\ r.lane = s.lane /\ r.talk.lease
             /\ r.talk.live = s.talk.live /\ r.talk.turn = s.talk.turn /\ r.talk.able = s.talk.able
             /\ r.talk.opening = s.talk.opening
BY DEF WithSlot, Shaped, TalkShaped

LEMMA NextTurnIsFree ==
  ASSUME NEW s, Shaped(s), FreeTurns(s) # {}
  PROVE  NextTurn(s) \in Turn /\ s.talk.turn[NextTurn(s)].at = "free"
BY IdleShape DEF NextTurn, FreeTurns

LEMMA ClaimedTakes ==
  ASSUME NEW s, Shaped(s), FreeTurns(s) # {}, s.talk.live = None,
         NEW k \in {"reply", "opening", "compaction"}, NEW ids, NEW retry \in BOOLEAN
  PROVE  /\ Claims(s, Claimed(s, k, ids, retry), NextTurn(s), k)
         /\ Claimed(s, k, ids, retry).lane = s.lane
<1> DEFINE t == NextTurn(s)
           n == [Idle EXCEPT !.at = "talking", !.kind = k, !.gen = s.plan.gen, !.ids = ids,
                             !.retry = retry, !.hold = k = "reply"]
           w == WithSlot(s)
           c == [w EXCEPT !.talk.live = t, !.talk.turn[t] = n]
<1>1. TurnIsRecord(n) /\ n.at = "talking" /\ n.kind = k /\ n.gen = s.plan.gen /\ ~n.aborted /\ ~n.dropped
      /\ (n.hold <=> k = "reply")
  BY DEF Idle, TurnIsRecord, Shaped, PlanShaped
<1>2. /\ Shaped(w) /\ w.plan = s.plan /\ w.lane = s.lane /\ w.talk.lease
      /\ w.talk.live = s.talk.live /\ w.talk.turn = s.talk.turn /\ w.talk.able = s.talk.able
      /\ w.talk.opening = s.talk.opening
  BY WithSlotSays
<1>3. t \in Turn /\ s.talk.turn[t].at = "free"
  BY NextTurnIsFree
<1>4. Claimed(s, k, ids, retry) = c
  BY DEF Claimed
<1> HIDE DEF t, n, w
<1>5. /\ c.plan = w.plan /\ c.lane = w.lane /\ c.talk.live = t /\ c.talk.lease = w.talk.lease
      /\ c.talk.able = w.talk.able /\ c.talk.opening = w.talk.opening /\ c.talk.turn = [w.talk.turn EXCEPT ![t] = n]
      /\ c.talk.turn[t] = n /\ \A u \in Turn \ {t} : c.talk.turn[u] = w.talk.turn[u]
  BY <1>2, <1>3 DEF Shaped, TalkShaped
<1>6. Shaped(c)
  BY <1>1, <1>2, <1>3 DEF Shaped, TalkShaped
<1> HIDE DEF c
<1> QED
  BY <1>1, <1>2, <1>3, <1>4, <1>5, <1>6 DEF Claims, t

LEMMA RunOpens ==
  ASSUME NEW s, Shaped(s), FreeTurns(s) # {}, s.talk.live = None, s.lane.running = None,
         NEW ids, NEW retry \in BOOLEAN
  PROVE  Opens(s, Run(s, ids, retry))
<1> DEFINE t == NextTurn(s)
           c == Claimed(s, "reply", ids, retry)
           r == [c EXCEPT !.lane.running = t]
<1>1. Claims(s, c, t, "reply") /\ c.lane = s.lane
  BY ClaimedTakes
<1>2. Run(s, ids, retry) = r
  BY DEF Run
<1>3. t \in Turn
  BY <1>1 DEF Claims
<1> HIDE DEF c, t
<1>4. r.lane.running = t /\ Claims(s, r, t, "reply")
  BY <1>1, <1>3 DEF Claims, Shaped, LaneShaped
<1> QED
  BY <1>2, <1>3, <1>4 DEF Opens

LEMMA AlikeOpens == ASSUME NEW s, NEW q, NEW r, Alike(s, q), Opens(q, r) PROVE Opens(s, r)
<1>1. PICK t \in Turn : r.lane.running = t /\ Claims(q, r, t, "reply")
  BY DEF Opens
<1>2. Claims(s, r, t, "reply")
  BY <1>1 DEF Claims, Alike, SameTurns
<1> QED
  BY <1>1, <1>2 DEF Opens, Alike, SameTurns

LEMMA PumpGoes == ASSUME NEW s, NEW p, Alike(s, p) PROVE Pumps(s, Pump(p))
<1> DEFINE q == DropWithdrawn(p)
           batch == LiveBatch(q)
           a == [q EXCEPT !.lane.awaitingSlot = FALSE]
<1>1. Alike(s, q)
  BY DropWithdrawnAlike
<1> HIDE DEF q
<1>2. Alike(s, [q EXCEPT !.lane.detecting = TRUE]) /\ Alike(s, [q EXCEPT !.lane.awaitingSlot = TRUE]) /\ Alike(s, a)
  BY <1>1, SetLane
<1>3. Alike(s, Refuse(q))
  BY <1>1, RefuseAlike
<1>4. ASSUME Due(p) PROVE Opens(s, Run(a, batch, FALSE))
  <2> HIDE DEF a, batch
  <2>1. p.lane.running = None /\ p.talk.live = None /\ FreeTurns(p) # {}
    BY <1>4 DEF Due
  <2>2. Shaped(a) /\ a.lane.running = None /\ a.talk.live = None /\ FreeTurns(a) # {}
    BY <1>2, <2>1 DEF Alike, SameTurns, FreeTurns
  <2>3. Opens(a, Run(a, batch, FALSE))
    BY <2>2, RunOpens
  <2> QED
    BY <1>2, <2>3, AlikeOpens
<1>5. Pump(p) \in {p, q, [q EXCEPT !.lane.detecting = TRUE], Refuse(q), [q EXCEPT !.lane.awaitingSlot = TRUE]}
      \/ (Due(p) /\ Pump(p) = Run(a, batch, FALSE))
  BY DEF Pump, q
<1> HIDE DEF a, batch
<1> QED
  BY <1>1, <1>2, <1>3, <1>4, <1>5 DEF Pumps

-----------------------------------------------------------------------------
LEMMA AlikeOwn == ASSUME NEW D, NEW s, NEW r, Own(s, D), Alike(s, r) PROVE Own(r, D)
<1>1. HoldsOwn(r) /\ SlotOwn(r)
  BY DEF Own, HoldsOwn, SlotOwn, Alike, SameTurns
<1>2. LiveOwn(r)
  BY DEF Own, LiveOwn, Alike, SameTurns
<1>3. FlightOwn(r) /\ TailOwn(r)
  BY DEF Own, FlightOwn, TailOwn, Alike, SameTurns
<1>4. TickOwn(r, D) /\ DayOwn(r, D)
  BY DEF Own, TickOwn, DayOwn, Alike, SameTurns
<1> QED
  BY <1>1, <1>2, <1>3, <1>4 DEF Own, Alike

LEMMA OpensOwn == ASSUME NEW D, NEW s, NEW r, Own(s, D), Opens(s, r), InputAssumption PROVE Own(r, D)
<1>1. PICK t \in Turn : r.lane.running = t /\ Claims(s, r, t, "reply")
  BY DEF Opens
<1>2. s.lane.running = None /\ s.talk.live = None /\ s.lane.tails = {} /\ r.lane.tails = {} /\ None \notin Turn
  BY <1>1 DEF Opens, Claims, Own, TickOwn, InputAssumption
<1>3. HoldsOwn(r) /\ SlotOwn(r)
  BY <1>1, <1>2 DEF Own, HoldsOwn, SlotOwn, Claims
<1>4. LiveOwn(r) /\ FlightOwn(r) /\ TailOwn(r)
  BY <1>1, <1>2 DEF Own, LiveOwn, FlightOwn, TailOwn, Claims
<1>5. TickOwn(r, D) /\ DayOwn(r, D)
  BY <1>1, <1>2 DEF Own, TickOwn, DayOwn, Claims
<1> QED
  BY <1>1, <1>3, <1>4, <1>5 DEF Own, Claims

LEMMA TakesOwn ==
  ASSUME NEW D, NEW s, NEW r, Own(s, D), NEW k \in {"opening", "compaction"}, Takes(s, r, k),
         s.lane.running = None, InputAssumption
  PROVE  Own(r, D)
<1>1. PICK t \in Turn : Claims(s, r, t, k)
  BY DEF Takes
<1>2. s.talk.live = None /\ s.lane.tails = {} /\ r.lane.tails = {} /\ r.lane.running = None /\ None \notin Turn
  BY <1>1 DEF Takes, Claims, Own, TickOwn, InputAssumption
<1> QED
  BY <1>1, <1>2 DEF Claims, Own, HoldsOwn, SlotOwn, LiveOwn, FlightOwn, TailOwn, TickOwn, DayOwn

LEMMA PumpOwn ==
  ASSUME NEW D, NEW s, Own(s, D), NEW p, Alike(s, p), InputAssumption
  PROVE  Own(Pump(p), D)
BY PumpGoes, AlikeOwn, OpensOwn DEF Pumps

LEMMA PumpWrites == ASSUME NEW s, NEW p, Alike(s, p) PROVE Writes(s, Pump(p), {})
<1>1. ASSUME NEW r, Alike(s, r) PROVE Writes(s, r, {})
  BY <1>1 DEF Writes, Alike, SameTurns
<1>2. ASSUME NEW r, Opens(s, r) PROVE Writes(s, r, {})
  <2>1. PICK t \in Turn : r.lane.running = t /\ Claims(s, r, t, "reply")
    BY <1>2 DEF Opens
  <2> QED
    BY <2>1 DEF Writes, Claims
<1> QED
  BY <1>1, <1>2, PumpGoes DEF Pumps

-----------------------------------------------------------------------------
LEMMA FlagsOwn == ASSUME NEW D, NEW s, NEW r, Own(s, D), SameButFlags(s, r), InputAssumption PROVE Own(r, D)
<1>1. HoldsOwn(r) /\ SlotOwn(r)
  BY DEF Own, HoldsOwn, SlotOwn, SameButFlags
<1>2. s.talk.live \in Turn \union {None} /\ s.lane.running \in Turn \union {None}
  BY DEF Own, Shaped, TalkShaped, LaneShaped
<1>3. LiveOwn(r)
  BY <1>2 DEF Own, LiveOwn, SameButFlags
<1>4. FlightOwn(r) /\ TailOwn(r)
  BY <1>2, SMTT(40) DEF Own, FlightOwn, TailOwn, SameButFlags
<1>5. TickOwn(r, D) /\ DayOwn(r, D)
  BY DEF Own, TickOwn, DayOwn, SameButFlags
<1> QED
  BY <1>1, <1>3, <1>4, <1>5 DEF Own, SameButFlags

LEMMA SetFlag ==
  ASSUME NEW s, Shaped(s), NEW t \in Turn, NEW b \in BOOLEAN
  PROVE  /\ WithFlag(s, [s EXCEPT !.talk.turn[t].aborted = b], t)
         /\ WithFlag(s, [s EXCEPT !.talk.turn[t].forceStopped = b], t)
         /\ WithFlag(s, [s EXCEPT !.talk.turn[t].late = b], t)
         /\ WithFlag(s, [s EXCEPT !.talk.turn[t].checking = b], t)
         /\ TurnDropped(s, [s EXCEPT !.talk.turn[t].dropped = TRUE], t)
         /\ HoldGone(s, [s EXCEPT !.talk.turn[t].hold = FALSE], t)
         /\ TurnHung(s, [s EXCEPT !.talk.turn[t].kind = "hung"], t)
<1>0. TurnIsRecord(s.talk.turn[t])
  BY DEF Shaped, TalkShaped
<1> DEFINE Put(n) == [s EXCEPT !.talk.turn[t] = n]
           o == s.talk.turn[t]
           n1 == [o EXCEPT !.aborted = b]
           n2 == [o EXCEPT !.forceStopped = b]
           n3 == [o EXCEPT !.late = b]
           n4 == [o EXCEPT !.checking = b]
           n5 == [o EXCEPT !.dropped = TRUE]
           n6 == [o EXCEPT !.hold = FALSE]
           n7 == [o EXCEPT !.kind = "hung"]
           Same(n) == n.at = o.at /\ n.kind = o.kind /\ n.gen = o.gen
<1>1. ASSUME NEW n, TurnIsRecord(n) PROVE ButTurn(s, Put(n), t) /\ Put(n).talk.turn[t] = n
  BY <1>1, PutTurn
<1>2. TurnIsRecord(n1) /\ Same(n1) /\ n1.dropped = o.dropped /\ n1.hold = o.hold
  BY <1>0 DEF TurnIsRecord
<1>3. TurnIsRecord(n2) /\ Same(n2) /\ n2.dropped = o.dropped /\ n2.hold = o.hold
  BY <1>0 DEF TurnIsRecord
<1>4. TurnIsRecord(n3) /\ Same(n3) /\ n3.dropped = o.dropped /\ n3.hold = o.hold
  BY <1>0 DEF TurnIsRecord
<1>5. TurnIsRecord(n4) /\ Same(n4) /\ n4.dropped = o.dropped /\ n4.hold = o.hold
  BY <1>0 DEF TurnIsRecord
<1>6. TurnIsRecord(n5) /\ Same(n5) /\ n5.dropped /\ n5.hold = o.hold
  BY <1>0 DEF TurnIsRecord
<1>7. TurnIsRecord(n6) /\ Same(n6) /\ n6.dropped = o.dropped /\ ~n6.hold /\ n6.aborted = o.aborted
  BY <1>0 DEF TurnIsRecord
<1>8. TurnIsRecord(n7) /\ n7.at = o.at /\ n7.kind = "hung" /\ n7.dropped = o.dropped /\ n7.hold = o.hold
  BY <1>0 DEF TurnIsRecord
<1>9. /\ [s EXCEPT !.talk.turn[t].aborted = b] = Put(n1) /\ [s EXCEPT !.talk.turn[t].forceStopped = b] = Put(n2)
      /\ [s EXCEPT !.talk.turn[t].late = b] = Put(n3) /\ [s EXCEPT !.talk.turn[t].checking = b] = Put(n4)
      /\ [s EXCEPT !.talk.turn[t].dropped = TRUE] = Put(n5) /\ [s EXCEPT !.talk.turn[t].hold = FALSE] = Put(n6)
      /\ [s EXCEPT !.talk.turn[t].kind = "hung"] = Put(n7)
  OBVIOUS
<1> HIDE DEF Put, n1, n2, n3, n4, n5, n6, n7
<1> HIDE DEF Same
<1>10. ASSUME NEW n, TurnIsRecord(n), Same(n) PROVE SameTurn(s, Put(n), t)
  BY <1>1, <1>10 DEF SameTurn, Same
<1>11. ASSUME NEW n, TurnIsRecord(n), Same(n), n.dropped = o.dropped, n.hold = o.hold PROVE WithFlag(s, Put(n), t)
  BY <1>1, <1>10, <1>11 DEF WithFlag
<1>12. TurnDropped(s, Put(n5), t)
  BY <1>1, <1>10, <1>6 DEF TurnDropped
<1>13. HoldGone(s, Put(n6), t)
  BY <1>1, <1>10, <1>7 DEF HoldGone
<1>14. TurnHung(s, Put(n7), t)
  BY <1>1, <1>8 DEF TurnHung
<1>15. WithFlag(s, Put(n1), t) /\ WithFlag(s, Put(n2), t) /\ WithFlag(s, Put(n3), t) /\ WithFlag(s, Put(n4), t)
  BY <1>2, <1>3, <1>4, <1>5, <1>11
<1> QED
  BY <1>9, <1>12, <1>13, <1>14, <1>15

LEMMA FlagOwn ==
  ASSUME NEW D, NEW s, Own(s, D), NEW t \in Turn, NEW b \in BOOLEAN, InputAssumption
  PROVE  /\ Own([s EXCEPT !.talk.turn[t].aborted = b], D) /\ Own([s EXCEPT !.talk.turn[t].forceStopped = b], D)
         /\ Own([s EXCEPT !.talk.turn[t].late = b], D) /\ Own([s EXCEPT !.talk.turn[t].checking = b], D)
         /\ Own([s EXCEPT !.talk.turn[t].hold = FALSE], D)
<1>1. ASSUME NEW r, WithFlag(s, r, t) \/ HoldGone(s, r, t) PROVE Own(r, D)
  <2>1. \A u \in Turn :
            (r.talk.turn[u].dropped <=> s.talk.turn[u].dropped) /\ (r.talk.turn[u].hold => s.talk.turn[u].hold)
    <3> SUFFICES ASSUME NEW u \in Turn
                 PROVE  (r.talk.turn[u].dropped <=> s.talk.turn[u].dropped) /\ (r.talk.turn[u].hold => s.talk.turn[u].hold)
      OBVIOUS
    <3>1. CASE u = t
      BY <1>1, <3>1 DEF WithFlag, HoldGone
    <3>2. CASE u # t
      BY <1>1, <3>2 DEF WithFlag, HoldGone, ButTurn
    <3> QED
      BY <3>1, <3>2
  <2>2. ButTurn(s, r, t) /\ SameTurn(s, r, t)
    BY <1>1 DEF WithFlag, HoldGone
  <2>3. \A u \in Turn : TurnIsRecord(r.talk.turn[u]) /\ TurnIsRecord(s.talk.turn[u])
    BY <2>2 DEF ButTurn, Own, Shaped, TalkShaped
  <2>4. SameButFlags(s, r)
    <3>1. \A u \in Turn :
              /\ r.talk.turn[u].at = s.talk.turn[u].at /\ r.talk.turn[u].kind = s.talk.turn[u].kind
              /\ r.talk.turn[u].gen = s.talk.turn[u].gen /\ r.talk.turn[u].dropped = s.talk.turn[u].dropped
      <4> SUFFICES ASSUME NEW u \in Turn
                   PROVE  /\ r.talk.turn[u].at = s.talk.turn[u].at /\ r.talk.turn[u].kind = s.talk.turn[u].kind
                          /\ r.talk.turn[u].gen = s.talk.turn[u].gen /\ r.talk.turn[u].dropped = s.talk.turn[u].dropped
        OBVIOUS
      <4>1. r.talk.turn[u].dropped \in BOOLEAN /\ s.talk.turn[u].dropped \in BOOLEAN
        BY <2>3 DEF TurnIsRecord
      <4>2. CASE u = t
        BY <2>1, <2>2, <4>1, <4>2 DEF SameTurn
      <4>3. CASE u # t
        BY <2>2, <4>3 DEF ButTurn
      <4> QED
        BY <4>2, <4>3
    <3> QED
      BY <2>1, <2>2, <3>1 DEF ButTurn, SameButFlags
  <2> QED
    BY <2>4, FlagsOwn
<1>2. Shaped(s)
  BY DEF Own
<1> DEFINE r1 == [s EXCEPT !.talk.turn[t].aborted = b]
           r2 == [s EXCEPT !.talk.turn[t].forceStopped = b]
           r3 == [s EXCEPT !.talk.turn[t].late = b]
           r4 == [s EXCEPT !.talk.turn[t].checking = b]
           r5 == [s EXCEPT !.talk.turn[t].hold = FALSE]
<1>3. WithFlag(s, r1, t) /\ WithFlag(s, r2, t) /\ WithFlag(s, r3, t) /\ WithFlag(s, r4, t) /\ HoldGone(s, r5, t)
  BY <1>2, SetFlag
<1> HIDE DEF r1, r2, r3, r4, r5
<1>4. Own(r1, D) /\ Own(r2, D) /\ Own(r3, D) /\ Own(r4, D) /\ Own(r5, D)
  BY <1>1, <1>3
<1> QED
  BY <1>4 DEF r1, r2, r3, r4, r5

LEMMA StopLiveOwn ==
  ASSUME NEW D, NEW s, Own(s, D), InputAssumption
  PROVE  LET r == StopLive(s)
         IN  Own(r, D) /\ r.plan = s.plan /\ r.lane = s.lane /\ r.talk.opening = s.talk.opening
<1>1. CASE s.talk.live = None
  BY <1>1 DEF StopLive
<1>2. CASE s.talk.live # None
  <2> DEFINE r == [s EXCEPT !.talk.turn[s.talk.live].aborted = TRUE]
  <2>1. s.talk.live \in Turn /\ Shaped(s)
    BY <1>2 DEF Own, Shaped, TalkShaped
  <2>2. Own(r, D) /\ ButTurn(s, r, s.talk.live)
    BY <2>1, FlagOwn, SetFlag DEF WithFlag
  <2>3. StopLive(s) = r
    BY <1>2 DEF StopLive
  <2> HIDE DEF r
  <2> QED
    BY <2>2, <2>3 DEF ButTurn
<1> QED
  BY <1>1, <1>2

-----------------------------------------------------------------------------
LEMMA EndTurnLeaseSays ==
  ASSUME NEW s, Shaped(s), NEW free
  PROVE  LET r == EndTurnLease(s, free)
         IN  /\ Shaped(r) /\ r.plan = s.plan /\ r.lane = s.lane /\ ~r.talk.lease
             /\ r.talk.live = s.talk.live /\ r.talk.turn = s.talk.turn /\ r.talk.able = s.talk.able
             /\ r.talk.opening = s.talk.opening
BY DEF EndTurnLease, Shaped, TalkShaped

LEMMA DropLetsGo == ASSUME NEW s, Shaped(s), InputAssumption PROVE LetsGo(s, Drop(s))
<1>1. CASE s.talk.live = None
  BY <1>1 DEF LetsGo, Drop, Shaped, TalkShaped, TurnIsRecord, InputAssumption
<1>2. CASE s.talk.live # None
  <2> DEFINE l == s.talk.live
             p == [s EXCEPT !.talk.live = None]
             o == [p EXCEPT !.talk.turn[l].dropped = TRUE]
             k == [o EXCEPT !.talk.turn[l].aborted = TRUE]
  <2>1. l \in Turn
    BY <1>2 DEF Shaped, TalkShaped
  <2>3. /\ Shaped(p) /\ p.plan = s.plan /\ p.lane = s.lane /\ p.talk.live = None /\ p.talk.lease = s.talk.lease
        /\ p.talk.able = s.talk.able /\ p.talk.opening = s.talk.opening /\ p.talk.turn = s.talk.turn
    BY DEF Shaped, TalkShaped
  <2>4. Drop(s) = IF s.lane.running = None THEN EndTurnLease(k, TRUE) ELSE k
    BY <1>2 DEF Drop
  <2> HIDE DEF p
  <2>5. TurnDropped(p, o, l)
    BY <2>1, <2>3, SetFlag
  <2> HIDE DEF o
  <2>6. WithFlag(o, k, l)
    BY <2>1, <2>5, SetFlag DEF TurnDropped, ButTurn
  <2> HIDE DEF k
  <2>7. \A t \in Turn : LET n == k.talk.turn[t]
                           u == s.talk.turn[t]
                       IN  /\ n.at = u.at /\ n.kind = u.kind /\ n.gen = u.gen /\ (n.hold <=> u.hold)
                           /\ n.dropped <=> u.dropped \/ t = l
                           /\ t # l => n = u
    <3> SUFFICES ASSUME NEW t \in Turn
                 PROVE  LET n == k.talk.turn[t]
                            u == s.talk.turn[t]
                        IN  /\ n.at = u.at /\ n.kind = u.kind /\ n.gen = u.gen /\ (n.hold <=> u.hold)
                            /\ n.dropped <=> u.dropped \/ t = l
                            /\ t # l => n = u
      OBVIOUS
    <3>1. CASE t = l
      BY <2>3, <2>5, <2>6, <3>1 DEF TurnDropped, WithFlag, SameTurn
    <3>2. CASE t # l
      BY <2>3, <2>5, <2>6, <3>2 DEF TurnDropped, WithFlag, ButTurn
    <3> QED
      BY <3>1, <3>2
  <2>9. /\ Shaped(k) /\ k.plan = s.plan /\ k.lane = s.lane /\ k.talk.live = None
        /\ k.talk.able = s.talk.able /\ k.talk.opening = s.talk.opening /\ k.talk.lease = s.talk.lease
    BY <2>3, <2>5, <2>6 DEF TurnDropped, WithFlag, ButTurn
  <2>10. s.lane.running # None => LetsGo(s, k)
    BY <1>2, <2>7, <2>9 DEF LetsGo
  <2>8. CASE s.lane.running = None
    <3> DEFINE r == EndTurnLease(k, TRUE)
    <3>1. /\ Shaped(r) /\ r.plan = k.plan /\ r.lane = k.lane /\ ~r.talk.lease
          /\ r.talk.live = k.talk.live /\ r.talk.turn = k.talk.turn /\ r.talk.able = k.talk.able
          /\ r.talk.opening = k.talk.opening
      BY <2>6, EndTurnLeaseSays DEF WithFlag, ButTurn
    <3> HIDE DEF r
    <3>2. LetsGo(s, r)
      BY <1>2, <2>7, <2>8, <2>9, <3>1 DEF LetsGo
    <3> QED
      BY <2>4, <2>8, <3>2 DEF r
  <2> QED
    BY <2>4, <2>8, <2>10
<1> QED
  BY <1>1, <1>2

LEMMA AbandonClears ==
  ASSUME NEW s, Shaped(s), HoldsOwn(s), LiveOwn(s), NEW d, LetsGo(s, d), InputAssumption
  PROVE  Cleared(s, Abandon(d))
<1> DEFINE k == IF d.lane.running = None THEN d ELSE [d EXCEPT !.talk.turn[d.lane.running].hold = FALSE]
           e == EndTurnLease(k, TRUE)
           X == Waiting(d, Elems(d.plan.pending) \union Taken(d))
           f == Tell(e, X, "discarded")
           g == [f EXCEPT !.lane.running = None, !.lane.quiet = FALSE, !.lane.restored = FALSE, !.lane.reportWake = FALSE]
<1>1. Shaped(d) /\ d.lane.running \in Turn \union {None}
  BY DEF LetsGo, Shaped, LaneShaped
<1>2. /\ Shaped(k) /\ k.plan = d.plan /\ k.lane = d.lane /\ k.talk.live = d.talk.live
      /\ k.talk.able = d.talk.able /\ k.talk.opening = d.talk.opening
      /\ \A t \in Turn : k.talk.turn[t].at = d.talk.turn[t].at /\ (k.talk.turn[t].dropped <=> d.talk.turn[t].dropped)
      /\ \A t \in Turn : (k.talk.turn[t].hold => d.talk.turn[t].hold /\ t # d.lane.running)
      /\ \A t \in Turn : t # d.lane.running => k.talk.turn[t] = d.talk.turn[t]
  <2>1. CASE d.lane.running = None
    BY <1>1, <2>1, SMTT(40) DEF InputAssumption
  <2>2. CASE d.lane.running # None
    <3> DEFINE l == d.lane.running
    <3>1. k = [d EXCEPT !.talk.turn[l].hold = FALSE] /\ l \in Turn
      BY <1>1, <2>2
    <3> HIDE DEF k
    <3>2. HoldGone(d, k, l)
      BY <1>1, <3>1, SetFlag
    <3> QED
      BY <3>1, <3>2, ZenonT(40) DEF HoldGone, ButTurn, SameTurn
  <2> QED
    BY <2>1, <2>2
<1> HIDE DEF k
<1>3. /\ Shaped(e) /\ e.plan = k.plan /\ e.lane = k.lane /\ ~e.talk.lease
      /\ e.talk.live = k.talk.live /\ e.talk.turn = k.talk.turn /\ e.talk.able = k.talk.able
      /\ e.talk.opening = k.talk.opening
  BY <1>2, EndTurnLeaseSays
<1>4. Abandon(d) = g
  BY DEF Abandon, k
<1> HIDE DEF e, X
<1>5. Shaped(f) /\ f.plan = e.plan /\ f.talk = e.talk /\ f.lane.tails = e.lane.tails
  BY <1>3 DEF Tell, Shaped, LaneShaped
<1> HIDE DEF f
<1>6. Shaped(g) /\ g.plan = f.plan /\ g.talk = f.talk /\ g.lane.tails = f.lane.tails /\ g.lane.running = None
  BY <1>5 DEF Shaped, LaneShaped
<1> HIDE DEF g
<1>7. \A t \in Turn : ~g.talk.turn[t].hold /\ (g.talk.turn[t].at = "talking" => g.talk.turn[t].dropped)
  BY <1>2, <1>3, <1>5, <1>6 DEF LetsGo, HoldsOwn, LiveOwn
<1>8. FreeTurns(s) \subseteq FreeTurns(g)
  <2> SUFFICES ASSUME NEW t \in FreeTurns(s) PROVE t \in FreeTurns(g)
    OBVIOUS
  <2>1. t \in Turn /\ s.talk.turn[t] = Idle /\ s.lane.running # t /\ t # None
    BY DEF FreeTurns, InputAssumption
  <2>2. t # s.talk.live
    BY <2>1, IdleShape DEF LiveOwn
  <2>3. g.talk.turn[t] = Idle
    BY <1>2, <1>3, <1>5, <1>6, <2>1, <2>2 DEF LetsGo
  <2> QED
    BY <1>6, <2>1, <2>3 DEF FreeTurns
<1> QED
  BY <1>2, <1>3, <1>4, <1>5, <1>6, <1>7, <1>8 DEF Cleared, LetsGo

-----------------------------------------------------------------------------
LEMMA VacantOwn ==
  ASSUME NEW D, NEW s, Vacant(s), ~s.talk.lease, "ticks" \notin D \/ s.talk.opening.at = "none"
  PROVE  Own(s, D)
BY DEF Vacant, Own, HoldsOwn, SlotOwn, LiveOwn, FlightOwn, TailOwn, TickOwn, DayOwn

LEMMA VacantTakes ==
  ASSUME NEW D, NEW s, Vacant(s), NEW r, NEW k \in {"opening", "compaction"}, Takes(s, r, k),
         "ticks" \notin D, InputAssumption
  PROVE  Own(r, D)
<1>1. PICK t \in Turn : Claims(s, r, t, k)
  BY DEF Takes
<1>2. r.lane.tails = {} /\ r.lane.running = None /\ None \notin Turn
  BY <1>1 DEF Takes, Claims, Vacant, InputAssumption
<1> QED
  BY <1>1, <1>2 DEF Claims, Vacant, Own, HoldsOwn, SlotOwn, LiveOwn, FlightOwn, TailOwn, TickOwn, DayOwn

LEMMA VacantPlan ==
  ASSUME NEW s, Vacant(s), NEW p, PlanShaped(p)
  PROVE  VacantOn(s, [s EXCEPT !.plan = p], p)
BY DEF VacantOn, Vacant, Shaped

\* The queue's own fields and the gate, once the turns are gone.
LEMMA VacantSets ==
  ASSUME NEW s, Vacant(s), NEW v
  PROVE  /\ VacantOn(s, [s EXCEPT !.lane.asked = v], s.plan)
         /\ VacantOn(s, [s EXCEPT !.lane.restored = v], s.plan)
         /\ VacantOn(s, [s EXCEPT !.lane.reportWake = v], s.plan)
<1>2. VacantOn(s, [s EXCEPT !.lane.asked = v], s.plan)
  BY DEF VacantOn, Vacant, Shaped, LaneShaped
<1>3. VacantOn(s, [s EXCEPT !.lane.restored = v], s.plan)
  BY DEF VacantOn, Vacant, Shaped, LaneShaped
<1>4. VacantOn(s, [s EXCEPT !.lane.reportWake = v], s.plan)
  BY DEF VacantOn, Vacant, Shaped, LaneShaped
<1> QED
  BY <1>2, <1>3, <1>4

LEMMA VacantTalk ==
  ASSUME NEW s, Vacant(s), NEW i, NEW v
  PROVE  /\ VacantStill(s, [s EXCEPT !.talk.lease = TRUE])
         /\ VacantStill(s, [s EXCEPT !.talk.moved = v]) /\ [s EXCEPT !.talk.moved = v].talk.lease = s.talk.lease
         /\ VacantStill(s, [s EXCEPT !.talk.opening = [NoOpening EXCEPT !.at = "open", !.input = i]])
<1>1. VacantStill(s, [s EXCEPT !.talk.lease = TRUE])
  BY DEF VacantStill, Vacant, Shaped, TalkShaped
<1>2. VacantStill(s, [s EXCEPT !.talk.moved = v])
  BY DEF VacantStill, Vacant, Shaped, TalkShaped
<1>3. [s EXCEPT !.talk.moved = v].talk.lease = s.talk.lease
  BY DEF Vacant, Shaped, TalkShaped
<1>4. VacantStill(s, [s EXCEPT !.talk.opening = [NoOpening EXCEPT !.at = "open", !.input = i]])
  BY DEF VacantStill, Vacant, Shaped, TalkShaped, NoOpening
<1> QED
  BY <1>1, <1>2, <1>3, <1>4

LEMMA FreshPlanShaped ==
  ASSUME NEW n \in Nat, NEW goal, NEW waiting
  PROVE  PlanShaped(FreshPlan(n, goal, waiting)) /\ FreshPlan(n, goal, waiting).gen = n
BY DEF FreshPlan, PlanShaped

LEMMA ForcedShaped ==
  ASSUME NEW p, PlanShaped(p), NEW X
  PROVE  PlanShaped([p EXCEPT !.forced = X]) /\ [p EXCEPT !.forced = X].gen = p.gen
BY DEF PlanShaped

\* Letting all go clears: what is dropped, then abandoned.
LEMMA LettingGoVacates ==
  ASSUME NEW s, Shaped(s), HoldsOwn(s), LiveOwn(s), s.lane.tails = {}, InputAssumption
  PROVE  LET r == Abandon(Drop(s))
         IN  /\ Vacant(r) /\ ~r.talk.lease /\ r.plan = s.plan /\ r.talk.opening = s.talk.opening
             /\ FreeTurns(s) \subseteq FreeTurns(r)
<1> DEFINE r == Abandon(Drop(s))
<1>1. Cleared(s, r)
  BY DropLetsGo, AbandonClears
<1> HIDE DEF r
<1>2. Vacant(r)
  BY <1>1 DEF Cleared, Vacant
<1> QED
  BY <1>1, <1>2 DEF Cleared, r

LEMMA OpenGoalOwn ==
  ASSUME NEW D, NEW s, Own(s, D), FreeTurns(s) # {}, "ticks" \notin D, InputAssumption
  PROVE  Own(OpenGoal(s), D) /\ Renews(s, OpenGoal(s))
<1> DEFINE i == s.talk.opening.input
           held == s.talk.opening.held
           ahead == Those(held, s.talk.opening.forced)
           w == WithSlot(s)
           x == [w EXCEPT !.talk.lease = FALSE]
           a == Abandon(Drop(x))
           p == FreshPlan(s.plan.gen + 1, i, ahead \o Without(held, Elems(ahead)))
           b1 == [a EXCEPT !.plan = p]
           p2 == [b1.plan EXCEPT !.forced = Elems(ahead)]
           b2 == [b1 EXCEPT !.plan = p2]
           b3 == [b2 EXCEPT !.lane.asked = TRUE]
           b4 == [b3 EXCEPT !.talk.lease = TRUE]
           b5 == [b4 EXCEPT !.talk.moved = FALSE]
           b6 == [b5 EXCEPT !.talk.opening = [NoOpening EXCEPT !.at = "open", !.input = i]]
           c == Claimed(b6, "opening", {i}, FALSE)
<1>1. /\ Shaped(s) /\ HoldsOwn(s) /\ LiveOwn(s) /\ s.lane.tails = {} /\ s.plan.gen \in Nat
  BY DEF Own, TickOwn, Shaped, PlanShaped
<1>2. /\ Shaped(w) /\ w.plan = s.plan /\ w.lane = s.lane /\ w.talk.live = s.talk.live /\ w.talk.turn = s.talk.turn
  BY <1>1, WithSlotSays
<1>0. OpenGoal(s) = c
  BY DEF OpenGoal
<1> HIDE DEF w, ahead
<1>3. /\ Shaped(x) /\ x.plan = s.plan /\ x.lane = s.lane /\ x.talk.live = s.talk.live /\ x.talk.turn = s.talk.turn
  BY <1>2 DEF Shaped, TalkShaped
<1> HIDE DEF x
<1>4. HoldsOwn(x) /\ LiveOwn(x) /\ x.lane.tails = {} /\ FreeTurns(x) = FreeTurns(s)
  BY <1>1, <1>3 DEF HoldsOwn, LiveOwn, FreeTurns
<1>5. Vacant(a) /\ FreeTurns(s) \subseteq FreeTurns(a)
  BY <1>3, <1>4, LettingGoVacates
<1> HIDE DEF a
<1>6. PlanShaped(p) /\ p.gen = s.plan.gen + 1
  <2>1. s.plan.gen + 1 \in Nat
    BY <1>1
  <2> QED
    BY <2>1, FreshPlanShaped
<1> HIDE DEF p
<1>7. Vacant(b1) /\ b1.plan = p /\ b1.talk = a.talk
  BY <1>5, <1>6, VacantPlan DEF VacantOn
<1> HIDE DEF b1
<1>8. PlanShaped(p2) /\ p2.gen = s.plan.gen + 1
  BY <1>6, <1>7, ForcedShaped
<1> HIDE DEF p2
<1>9. Vacant(b2) /\ b2.plan = p2 /\ b2.talk = b1.talk
  BY <1>7, <1>8, VacantPlan DEF VacantOn
<1> HIDE DEF b2
<1>10. Vacant(b3) /\ b3.plan = b2.plan /\ b3.talk = b2.talk
  BY <1>8, <1>9, VacantSets DEF VacantOn
<1> HIDE DEF b3
<1>11. Vacant(b4) /\ b4.plan = b3.plan /\ b4.talk.turn = b3.talk.turn
  BY <1>10, VacantTalk DEF VacantStill
<1> HIDE DEF b4
<1>12. Vacant(b5) /\ b5.plan = b4.plan /\ b5.talk.turn = b4.talk.turn
  BY <1>11, VacantTalk DEF VacantStill
<1> HIDE DEF b5
<1>13. Vacant(b6) /\ b6.plan = b5.plan /\ b6.talk.turn = b5.talk.turn
  BY <1>12, VacantTalk DEF VacantStill
<1> HIDE DEF b6
<1>14. FreeTurns(b6) # {}
  BY <1>5, <1>7, <1>9, <1>10, <1>11, <1>12, <1>13 DEF FreeTurns, Vacant, InputAssumption
<1>15. Claims(b6, c, NextTurn(b6), "opening") /\ c.lane = b6.lane
  BY <1>13, <1>14, ClaimedTakes DEF Vacant
<1> HIDE DEF c
<1>16. Takes(b6, c, "opening") /\ c.plan.gen = s.plan.gen + 1
  BY <1>8, <1>9, <1>10, <1>11, <1>12, <1>13, <1>15 DEF Takes, Claims
<1>17. Own(c, D)
  BY <1>13, <1>16, VacantTakes
<1> QED
  BY <1>0, <1>16, <1>17 DEF Renews

LEMMA EndWaitingAt ==
  ASSUME NEW s, Shaped(s), NEW why
  PROVE  Alike(s, EndWaiting(s, why)) /\ EndWaiting(s, why).talk.opening.at \in {s.talk.opening.at, "none"}
BY AlikeSelf, EndWaitingAlike DEF Alike, SameTurns

LEMMA ThroughGateOwn ==
  ASSUME NEW D, NEW s, Own(s, D), FreeTurns(s) # {}, "ticks" \notin D, InputAssumption
  PROVE  LET r == ThroughGate(s) IN Own(r, D) /\ (r.plan.gen # s.plan.gen \/ r.plan.heard = s.plan.heard)
<1>1. Shaped(s) /\ s.plan.gen \in Nat
  BY DEF Own, Shaped, PlanShaped
<1>2. Own(EndWaiting(s, "refused"), D) /\ EndWaiting(s, "refused").plan.heard = s.plan.heard
  BY <1>1, EndWaitingAt, AlikeOwn DEF Alike, SameTurns
<1>3. Own(OpenGoal(s), D) /\ OpenGoal(s).plan.gen # s.plan.gen
  <2>1. Own(OpenGoal(s), D) /\ Renews(s, OpenGoal(s))
    BY OpenGoalOwn
  <2> QED
    BY <1>1, <2>1 DEF Renews
<1>4. LET r == [s EXCEPT !.talk.opening.at = "slot"] IN Own(r, D) /\ r.plan = s.plan
  <2> DEFINE r == [s EXCEPT !.talk.opening.at = "slot"]
  <2>1. /\ Shaped(r) /\ r.plan = s.plan /\ r.lane = s.lane /\ r.talk.live = s.talk.live
        /\ r.talk.turn = s.talk.turn /\ r.talk.lease = s.talk.lease /\ r.talk.able = s.talk.able
    BY <1>1 DEF Shaped, TalkShaped
  <2> HIDE DEF r
  <2>2. HoldsOwn(r) /\ SlotOwn(r) /\ LiveOwn(r) /\ FlightOwn(r) /\ TailOwn(r)
    BY <2>1 DEF Own, HoldsOwn, SlotOwn, LiveOwn, FlightOwn, TailOwn
  <2>3. TickOwn(r, D) /\ DayOwn(r, D)
    BY <2>1 DEF Own, TickOwn, DayOwn
  <2> QED
    BY <2>1, <2>2, <2>3 DEF Own, r
<1>5. ThroughGate(s) \in {s, EndWaiting(s, "refused"), OpenGoal(s), [s EXCEPT !.talk.opening.at = "slot"]}
  BY DEF ThroughGate
<1> QED
  BY <1>2, <1>3, <1>4, <1>5

LEMMA LoadOwn ==
  ASSUME NEW D, NEW s, Own(s, D), "ticks" \notin D, InputAssumption, NEW saved, NEW X, NEW wakes
  PROVE  Own(Loaded(s, saved, X, wakes), D) /\ Loaded(s, saved, X, wakes).plan.gen # s.plan.gen
<1> DEFINE e == EndWaiting(s, "discarded")
           a == Abandon(Drop(e))
           f == Tell(a, X, "kept")
           p == FreshPlan(s.plan.gen + 1, None, saved)
           b1 == [f EXCEPT !.plan = p]
           b2 == [b1 EXCEPT !.lane.restored = TRUE]
           b3 == [b2 EXCEPT !.lane.asked = FALSE]
           b4 == [b3 EXCEPT !.lane.reportWake = wakes]
           b5 == [b4 EXCEPT !.talk.moved = FALSE]
<1>0. Loaded(s, saved, X, wakes) = b5
  BY DEF Loaded
<1>1. Shaped(s) /\ s.plan.gen \in Nat /\ s.lane.tails = {}
  BY DEF Own, Shaped, PlanShaped, TickOwn
<1>2. Own(e, D) /\ e.lane.tails = {}
  BY <1>1, EndWaitingAt, AlikeOwn DEF Alike, SameTurns
<1> HIDE DEF e
<1>3. Vacant(a) /\ ~a.talk.lease
  BY <1>2, LettingGoVacates DEF Own
<1> HIDE DEF a
<1>4. Vacant(f) /\ f.talk = a.talk
  BY <1>3 DEF Tell, Vacant, Shaped, LaneShaped
<1> HIDE DEF f
<1>5. PlanShaped(p) /\ p.gen = s.plan.gen + 1
  <2>1. s.plan.gen + 1 \in Nat
    BY <1>1
  <2> QED
    BY <2>1, FreshPlanShaped
<1> HIDE DEF p
<1>6. Vacant(b1) /\ b1.plan = p /\ b1.talk = a.talk
  BY <1>4, <1>5, VacantPlan DEF VacantOn
<1> HIDE DEF b1
<1>7. Vacant(b2) /\ b2.plan = p /\ b2.talk = a.talk
  BY <1>5, <1>6, VacantSets DEF VacantOn
<1> HIDE DEF b2
<1>8. Vacant(b3) /\ b3.plan = p /\ b3.talk = a.talk
  BY <1>5, <1>7, VacantSets DEF VacantOn
<1> HIDE DEF b3
<1>9. Vacant(b4) /\ b4.plan = p /\ b4.talk = a.talk
  BY <1>5, <1>8, VacantSets DEF VacantOn
<1> HIDE DEF b4
<1>10. Vacant(b5) /\ b5.plan = p /\ ~b5.talk.lease
  BY <1>3, <1>9, VacantTalk DEF VacantStill
<1> HIDE DEF b5
<1>11. Own(b5, D) /\ b5.plan.gen # s.plan.gen
  BY <1>1, <1>5, <1>10, VacantOwn
<1> QED
  BY <1>0, <1>11

-----------------------------------------------------------------------------
LEMMA CallOverAlike ==
  ASSUME NEW s, NEW q, NEW r, NEW t \in Turn, NEW X, CallOver(s, q, t, X), Alike(q, r)
  PROVE  CallOver(s, r, t, X)
BY DEF CallOver, Alike, SameTurns, Writes

LEMMA LandedWrites ==
  ASSUME NEW s, NEW q, Alike(s, q), NEW r
  PROVE  LandsIn(s, Landed(q, r), r.ids)
<1> DEFINE k0 == Take(q, r.ids)
           k1 == [k0 EXCEPT !.plan.heard = k0.plan.heard \union r.ids]
           k2 == [k1 EXCEPT !.plan.paused = k0.plan.paused /\ ~r.retry]
           k3 == [k2 EXCEPT !.plan.kept = IF r.retry THEN {} ELSE k0.plan.kept]
<1>1. Alike(s, k0)
  BY TakeAlike
<1> HIDE DEF k0
<1>0. Landed(q, r) = k3
  <2>1. Landed(q, r) = [k0 EXCEPT !.plan.heard = @ \union r.ids, !.plan.paused = @ /\ ~r.retry,
                                  !.plan.kept = IF r.retry THEN {} ELSE @]
    BY DEF Landed, k0
  <2>2. Shaped(k0)
    BY <1>1 DEF Alike
  <2> QED
    BY <2>1, <2>2 DEF Shaped, PlanShaped
<1>2. LandsIn(s, k1, r.ids)
  BY <1>1 DEF LandsIn, Alike, SameTurns, Shaped, PlanShaped
<1> HIDE DEF k1
<1>3. LandsIn(s, k2, r.ids)
  BY <1>2 DEF LandsIn, Shaped, PlanShaped
<1> HIDE DEF k2
<1>4. LandsIn(s, k3, r.ids)
  BY <1>3 DEF LandsIn, Shaped, PlanShaped
<1> HIDE DEF k3
<1> QED
  BY <1>0, <1>4

LEMMA OverSays ==
  ASSUME NEW s, Shaped(s), NEW t \in Turn, NEW how, NEW wait
  PROVE  CallOver(s, Over(s, t, how, wait), t,
                  IF how = "answered" /\ s.talk.turn[t].kind # "compaction" THEN s.talk.turn[t].ids ELSE {})
<1> DEFINE r == s.talk.turn[t]
           n == [Idle EXCEPT !.checking = r.checking, !.hold = r.hold]
           q0 == [s EXCEPT !.talk.turn[t] = n]
           q == [q0 EXCEPT !.talk.live = IF @ = t THEN None ELSE @]
           X == IF how = "answered" /\ r.kind # "compaction" THEN r.ids ELSE {}
           unread == ~(r.ids \subseteq s.plan.heard)
           a1 == [q EXCEPT !.plan.limit = wait]
           a2 == [a1 EXCEPT !.talk.moved = FALSE]
           b1 == [q EXCEPT !.plan.paused = TRUE]
           b2 == [b1 EXCEPT !.plan.kept = r.ids]
           p == CASE how = "answered" /\ r.kind # "compaction" -> Landed(q, r)
                  [] how = "limited" /\ unread -> a2
                  [] how = "paused" -> b2
                  [] OTHER -> q
<1>0. Over(s, t, how, wait) = Counted(p, r, how)
  BY DEF Over
<1>1. TurnIsRecord(r)
  BY DEF Shaped, TalkShaped
<1>2. TurnIsRecord(n) /\ n.at = "free" /\ ~n.aborted /\ n.hold = r.hold
  BY <1>1 DEF TurnIsRecord, Idle
<1> HIDE DEF n
<1>3. ButTurn(s, q0, t) /\ q0.talk.turn[t] = n
  BY <1>2, PutTurn
<1> HIDE DEF q0
<1>4. /\ Shaped(q) /\ q.plan = s.plan /\ q.lane = s.lane /\ q.talk.live = IF s.talk.live = t THEN None ELSE s.talk.live
      /\ q.talk.lease = s.talk.lease /\ q.talk.able = s.talk.able /\ q.talk.opening = s.talk.opening
      /\ q.talk.turn = q0.talk.turn
  BY <1>3 DEF ButTurn, Shaped, TalkShaped
<1> HIDE DEF q
<1>5. CallOver(s, q, t, {})
  BY <1>2, <1>3, <1>4 DEF CallOver, Writes, ButTurn
<1>6. ASSUME how = "answered", r.kind # "compaction" PROVE CallOver(s, p, t, X)
  <2>1. LandsIn(q, Landed(q, r), r.ids)
    BY <1>4, AlikeSelf, LandedWrites
  <2>2. p = Landed(q, r) /\ X = r.ids
    BY <1>6
  <2>3. ASSUME NEW k, NEW Y, LandsIn(q, k, Y) PROVE CallOver(s, k, t, Y)
    BY <1>5, <2>3 DEF LandsIn, CallOver, Writes
  <2> HIDE DEF p, X
  <2> QED
    BY <2>1, <2>2, <2>3
<1>7. ASSUME ~(how = "answered" /\ r.kind # "compaction") PROVE CallOver(s, p, t, X)
  <2>1. Alike(q, q)
    BY <1>4, AlikeSelf
  <2>2. Alike(q, a1) /\ Alike(q, b1)
    BY <2>1, SetPlan
  <2> HIDE DEF a1, b1
  <2>3. Alike(q, a2) /\ Alike(q, b2)
    BY <2>2, SetPlan, SetTalk
  <2>4. p \in {q, a2, b2} /\ X = {}
    BY <1>7
  <2> HIDE DEF p, X, a2, b2
  <2> QED
    BY <1>5, <2>1, <2>3, <2>4, CallOverAlike
<1>8. CallOver(s, p, t, X)
  BY <1>6, <1>7
<1> HIDE DEF p
<1>9. Alike(p, Counted(p, r, how))
  BY <1>8, AlikeSelf, CountedAlike DEF CallOver
<1> QED
  BY <1>0, <1>8, <1>9, CallOverAlike

-----------------------------------------------------------------------------
LEMMA LetGoSays ==
  ASSUME NEW D, NEW s, NEW t, Ending(s, t, D), NEW e, InputAssumption
  PROVE  LET g == LetGo(s, t, e)
         IN  /\ Shaped(g) /\ Writes(s, g, {}) /\ g.lane.running = t /\ g.talk.live = None /\ g.lane.tails = {e}
             /\ g.talk.lease /\ ~(g.talk.turn[t].at = "talking" /\ g.talk.turn[t].kind = "reply")
             /\ \A u \in Turn : ~g.talk.turn[u].hold /\ (g.talk.turn[u].at = "talking" => g.talk.turn[u].dropped)
             /\ "ticks" \in D => g.talk.opening.at = "none"
<1> DEFINE q == Take(s, Dropped(e))
           unpaused == e.retry /\ (Interrupted(e) \/ ForceStopped(e))
           ahead == Those(q.plan.pending, q.plan.forced)
           g1 == [q EXCEPT !.plan.pending = IF ForceStopped(e) THEN ahead \o Without(@, Elems(ahead)) ELSE @]
           g2 == [g1 EXCEPT !.plan.paused = q.plan.paused /\ ~unpaused]
           g3 == [g2 EXCEPT !.plan.kept = IF unpaused THEN {} ELSE q.plan.kept]
           g4 == [g3 EXCEPT !.talk.turn[t].hold = FALSE]
           g5 == [g4 EXCEPT !.lane.tails = q.lane.tails \union {e}]
<1>1. Alike(s, q)
  BY AlikeSelf, TakeAlike DEF Ending
<1>0. LetGo(s, t, e) = g5
  <2>1. LetGo(s, t, e) =
          [q EXCEPT !.plan.pending = IF ForceStopped(e) THEN ahead \o Without(@, Elems(ahead)) ELSE @,
                    !.plan.paused = @ /\ ~unpaused, !.plan.kept = IF unpaused THEN {} ELSE @,
                    !.talk.turn[t].hold = FALSE, !.lane.tails = @ \union {e}]
    BY DEF LetGo
  <2>2. Shaped(q)
    BY <1>1 DEF Alike
  <2> HIDE DEF q, ahead, unpaused
  <2> QED
    BY <2>1, <2>2 DEF Shaped, PlanShaped, LaneShaped
<1> HIDE DEF q, ahead, unpaused
<1>2. Alike(s, g1)
  BY <1>1, SetPlan
<1> HIDE DEF g1
<1>3. Alike(s, g2)
  BY <1>2, SetPlan
<1> HIDE DEF g2
<1>4. Alike(s, g3)
  BY <1>3, SetPlan
<1> HIDE DEF g3
<1>5. HoldGone(g3, g4, t)
  BY <1>4, SetFlag DEF Alike, Ending
<1> HIDE DEF g4
<1>6. /\ Shaped(g5) /\ g5.plan = g4.plan /\ g5.talk = g4.talk /\ g5.lane.running = g4.lane.running
      /\ g5.lane.tails = q.lane.tails \union {e}
  BY <1>5 DEF HoldGone, ButTurn, Shaped, LaneShaped
<1> HIDE DEF g5
<1>7. /\ g5.plan.gen = s.plan.gen /\ g5.plan.heard = s.plan.heard /\ g5.lane.running = t /\ g5.talk.live = None
      /\ g5.lane.tails = {e} /\ g5.talk.lease /\ ("ticks" \in D => g5.talk.opening.at = "none")
  <2>1. /\ g5.plan = g3.plan /\ g5.lane.running = g3.lane.running /\ g5.talk.live = g3.talk.live
        /\ g5.talk.lease = g3.talk.lease /\ g5.talk.opening = g3.talk.opening /\ g5.lane.tails = q.lane.tails \union {e}
    BY <1>5, <1>6 DEF HoldGone, ButTurn
  <2>2. q.lane.tails = {}
    BY <1>1 DEF Alike, SameTurns, Ending
  <2>3. g3.talk.opening.at \in {s.talk.opening.at, "none"}
    BY <1>4 DEF Alike, SameTurns
  <2>4. "ticks" \in D => g5.talk.opening.at = "none"
    BY <2>1, <2>3 DEF Ending
  <2> QED
    BY <1>4, <2>1, <2>2, <2>4 DEF Alike, SameTurns, Ending
<1>8. \A u \in Turn \ {t} : g5.talk.turn[u] = s.talk.turn[u]
  BY <1>4, <1>5, <1>6 DEF Alike, SameTurns, HoldGone, ButTurn
<1>9. LET n == g5.talk.turn[t]
          o == s.talk.turn[t]
      IN  n.at = o.at /\ n.kind = o.kind /\ ~n.hold /\ (n.dropped <=> o.dropped) /\ (n.aborted <=> o.aborted)
  BY <1>4, <1>5, <1>6 DEF Alike, SameTurns, HoldGone, SameTurn
<1>10. \A u \in Turn : ~g5.talk.turn[u].hold /\ (g5.talk.turn[u].at = "talking" => g5.talk.turn[u].dropped)
  BY <1>8, <1>9 DEF Ending
<1>11. Writes(s, g5, {})
  BY <1>7, <1>8, <1>9 DEF Writes
<1> QED
  BY <1>0, <1>6, <1>7, <1>9, <1>10, <1>11 DEF Ending

LEMMA SettledOwn ==
  ASSUME NEW D, NEW g, Shaped(g), NEW e, g.talk.live = None, g.lane.tails = {e}, NEW free,
         \A u \in Turn : ~g.talk.turn[u].hold /\ (g.talk.turn[u].at = "talking" => g.talk.turn[u].dropped),
         "ticks" \in D => g.talk.opening.at = "none", InputAssumption
  PROVE  Own(Settled(g, e, free), D) /\ Writes(g, Settled(g, e, free), {})
<1> DEFINE q1 == [g EXCEPT !.lane.running = None]
           q2 == [q1 EXCEPT !.lane.tails = g.lane.tails \ {e}]
           q == EndTurnLease(q2, free)
           early == IF e.how \in {"limited", "paused"} THEN e.ids \intersect User ELSE {}
           stays == IF ForceStopped(e) \/ Kept(e) THEN e.ids \intersect Elems(q.plan.pending) ELSE {}
           heard == Waiting(q, e.ids \ (early \union stays))
           noticed == IF e.how = "failed" /\ ~e.retry THEN (e.ids \intersect User) \ stays ELSE {}
           told == Waiting(q, early)
           p == Tell(Tell(Tell(q, noticed, "failed"), heard, e.how), told, "kept")
<1>0. Settled(g, e, free) = Pump(p)
  BY DEF Settled
<1>1. /\ Shaped(q1) /\ q1.plan = g.plan /\ q1.talk = g.talk /\ q1.lane.running = None /\ q1.lane.tails = {e}
  BY DEF Shaped, LaneShaped
<1> HIDE DEF q1
<1>2. /\ Shaped(q2) /\ q2.plan = g.plan /\ q2.talk = g.talk /\ q2.lane.running = None /\ q2.lane.tails = {}
  BY <1>1 DEF Shaped, LaneShaped
<1> HIDE DEF q2
<1>3. /\ Shaped(q) /\ q.plan = q2.plan /\ q.lane = q2.lane /\ ~q.talk.lease
      /\ q.talk.live = q2.talk.live /\ q.talk.turn = q2.talk.turn /\ q.talk.opening = q2.talk.opening
  BY <1>2, EndTurnLeaseSays
<1> HIDE DEF q, early, stays, heard, noticed, told
<1>4. Vacant(q)
  BY <1>2, <1>3 DEF Vacant
<1>5. Own(q, D)
  BY <1>2, <1>3, <1>4, VacantOwn
<1>6. Alike(q, p)
  BY <1>3, AlikeSelf, TellAlike
<1> HIDE DEF p
<1>7. Own(Pump(p), D) /\ Writes(q, Pump(p), {})
  BY <1>5, <1>6, PumpOwn, PumpWrites
<1>8. Writes(g, Pump(p), {})
  BY <1>2, <1>3, <1>7 DEF Writes
<1> QED
  BY <1>0, <1>7, <1>8

LEMMA EndedOwn ==
  ASSUME NEW s, NEW t, Ending(s, t, day), NEW r, NEW how, NEW free, InputAssumption
  PROVE  Own(Ended(s, t, r, how, free), day) /\ Writes(s, Ended(s, t, r, how, free), {})
<1> DEFINE e == [how |-> how, ids |-> r.ids, forceStopped |-> r.forceStopped, retry |-> r.retry]
           g == LetGo(s, t, e)
<1>0. Ended(s, t, r, how, free) = IF "ticks" \in day THEN g ELSE Settled(g, e, free)
  BY DEF Ended
<1> HIDE DEF e
<1>1. /\ Shaped(g) /\ Writes(s, g, {}) /\ g.lane.running = t /\ g.talk.live = None /\ g.lane.tails = {e}
      /\ g.talk.lease /\ ~(g.talk.turn[t].at = "talking" /\ g.talk.turn[t].kind = "reply")
      /\ \A u \in Turn : ~g.talk.turn[u].hold /\ (g.talk.turn[u].at = "talking" => g.talk.turn[u].dropped)
      /\ "ticks" \in day => g.talk.opening.at = "none"
  BY LetGoSays
<1> HIDE DEF g
<1>2. t \in Turn /\ t # None
  BY DEF Ending, InputAssumption
<1>3. CASE "ticks" \in day
  <2>1. HoldsOwn(g) /\ SlotOwn(g) /\ LiveOwn(g) /\ FlightOwn(g) /\ TailOwn(g)
    BY <1>1, <1>2 DEF HoldsOwn, SlotOwn, LiveOwn, FlightOwn, TailOwn
  <2>2. TickOwn(g, day) /\ DayOwn(g, day)
    BY <1>1, <1>2, <1>3 DEF TickOwn, DayOwn
  <2> QED
    BY <1>0, <1>1, <1>3, <2>1, <2>2 DEF Own
<1>4. CASE "ticks" \notin day
  <2>1. Own(Settled(g, e, free), day) /\ Writes(g, Settled(g, e, free), {})
    BY <1>1, SettledOwn
  <2>2. Writes(s, Settled(g, e, free), {})
    BY <1>1, <2>1 DEF Writes
  <2> QED
    BY <1>0, <1>4, <2>1, <2>2
<1> QED
  BY <1>3, <1>4

-----------------------------------------------------------------------------
LEMMA NowFields == Now.plan = plan /\ Now.lane = lane /\ Now.talk = talk
BY DEF Now

LEMMA QuietStep ==
  ASSUME OwnInv, NEW r, Becomes(r), Quiet(Now, r), day' = day
  PROVE  OwnInv' /\ Landing
<1>1. Now' = r
  BY DEF Becomes, Now, Quiet, Own, Shaped
<1>2. Own(Now', day')
  BY <1>1 DEF Quiet
<1>3. OwnInv'
  BY <1>2 DEF OwnInv
<1>4. Landing
  BY NowFields DEF Landing, Quiet, Becomes
<1> QED
  BY <1>3, <1>4

LEMMA QuietAlike == ASSUME NEW s, Own(s, day), NEW r, Alike(s, r) PROVE Quiet(s, r)
BY AlikeOwn DEF Quiet, Alike, SameTurns

LEMMA QuietPump ==
  ASSUME NEW s, Own(s, day), NEW p, Alike(s, p), InputAssumption PROVE Quiet(s, Pump(p))
BY PumpOwn, PumpWrites DEF Quiet, Writes

LEMMA LiftedAlike == ASSUME NEW s, NEW r, Alike(s, r) PROVE Alike(s, Lifted(r))
BY SetPlan DEF Lifted

LEMMA AdmitQuiet ==
  ASSUME NEW s, Own(s, day), NEW i, NEW force, InputAssumption
  PROVE  Quiet(s, Admit(s, i, force))
<1> DEFINE l == Lifted(s)
           q1 == [l EXCEPT !.lane.restored = FALSE]
           q2 == [q1 EXCEPT !.lane.quiet = FALSE]
           q3 == [q2 EXCEPT !.lane.asked = TRUE]
           q4 == [q3 EXCEPT !.plan.pending = Enlisted(l.plan.pending, i, force, s.plan.forced \union Taken(s))]
           q5 == [q4 EXCEPT !.plan.forced = IF force THEN l.plan.forced \union {i} ELSE l.plan.forced]
           what == IF i \in User /\ (Holds(q5) \/ q5.plan.paused) THEN "kept" ELSE "waiting"
<1>1. Alike(s, l)
  BY AlikeSelf, LiftedAlike DEF Own
<1>0. Admit(s, i, force) = Pump(Tell(q5, {i}, what))
  <2> DEFINE q == [l EXCEPT !.lane.restored = FALSE, !.lane.quiet = FALSE, !.lane.asked = TRUE,
                  !.plan.pending = Enlisted(@, i, force, s.plan.forced \union Taken(s)),
                  !.plan.forced = IF force THEN @ \union {i} ELSE @]
  <2>1. Admit(s, i, force) = Pump(Tell(q, {i}, IF i \in User /\ (Holds(q) \/ q.plan.paused) THEN "kept" ELSE "waiting"))
    BY DEF Admit
  <2>2. Shaped(l)
    BY <1>1 DEF Alike
  <2> HIDE DEF l
  <2>3. q = q5
    BY <2>2 DEF Shaped, PlanShaped, LaneShaped
  <2> HIDE DEF q, q5
  <2> QED
    BY <2>1, <2>3
<1> HIDE DEF l
<1>2. Alike(s, q1)
  BY <1>1, SetLane
<1> HIDE DEF q1
<1>3. Alike(s, q2)
  BY <1>2, SetLane
<1> HIDE DEF q2
<1>4. Alike(s, q3)
  BY <1>3, SetLane
<1> HIDE DEF q3
<1>5. Alike(s, q4)
  BY <1>4, SetPlan
<1> HIDE DEF q4
<1>6. Alike(s, q5)
  BY <1>5, SetPlan
<1> HIDE DEF q5, what
<1>7. Alike(s, Tell(q5, {i}, what))
  BY <1>6, TellAlike
<1> QED
  BY <1>0, <1>7, QuietPump

LEMMA HeldAlike ==
  ASSUME NEW s, NEW r, Alike(s, r), NEW h, NEW X
  PROVE  Alike(s, [r EXCEPT !.talk.opening.held = h, !.talk.opening.forced = X])
<1> DEFINE q == [r EXCEPT !.talk.opening.held = h]
<1>1. Alike(s, q)
  BY SetTalk
<1>2. [r EXCEPT !.talk.opening.held = h, !.talk.opening.forced = X] = [q EXCEPT !.talk.opening.forced = X]
  OBVIOUS
<1> HIDE DEF q
<1>3. Alike(s, [q EXCEPT !.talk.opening.forced = X])
  BY <1>1, SetTalk
<1> QED
  BY <1>2, <1>3

LEMMA QuietSend == ASSUME OwnInv, DaysGo, NEW i, Send(i) PROVE OwnInv' /\ Landing
<1> DEFINE a == Tell(Now, {i}, "waiting")
<1>1. Alike(Now, Now) /\ InputAssumption /\ Own(Now, day) /\ day' = day
  BY AlikeSelf DEF OwnInv, Own, DaysGo, Send, May
<1>2. Alike(Now, a) /\ Alike(Now, Tell(Now, {i}, "busy"))
  BY <1>1, TellAlike
<1>3. ASSUME NEW r, Becomes(r), Alike(Now, r) PROVE OwnInv' /\ Landing
  BY <1>1, <1>3, QuietAlike, QuietStep
<1>4. CASE Becomes([a EXCEPT !.talk.opening.held = Append(@, i)])
  <2> HIDE DEF a
  <2>1. Alike(Now, [a EXCEPT !.talk.opening.held = Append(@, i)])
    BY <1>2, SetTalk
  <2> QED
    BY <1>3, <1>4, <2>1
<1>5. CASE Becomes(Tell(Now, {i}, "busy"))
  BY <1>2, <1>3, <1>5
<1>6. CASE Becomes(Admit(Now, i, FALSE))
  BY <1>1, <1>6, AdmitQuiet, QuietStep
<1> QED
  BY <1>4, <1>5, <1>6 DEF Send

LEMMA QuietDeliver == ASSUME OwnInv, DaysGo, NEW i, Deliver(i) PROVE OwnInv' /\ Landing
<1> DEFINE a == Tell(Now, {i}, "kept")
<1>1. Alike(Now, Now) /\ InputAssumption /\ Own(Now, day) /\ day' = day
  BY AlikeSelf DEF OwnInv, Own, DaysGo, Deliver, May
<1>2. Alike(Now, a)
  BY <1>1, TellAlike
<1>3. CASE Becomes([a EXCEPT !.plan.pending = Append(@, i)])
  <2> HIDE DEF a
  <2>1. Alike(Now, [a EXCEPT !.plan.pending = Append(@, i)])
    BY <1>2, SetPlan
  <2> QED
    BY <1>1, <1>3, <2>1, QuietAlike, QuietStep
<1>4. CASE Becomes(Admit(Now, i, FALSE))
  BY <1>1, <1>4, AdmitQuiet, QuietStep
<1> QED
  BY <1>3, <1>4 DEF Deliver

LEMMA QuietForce == ASSUME OwnInv, DaysGo, NEW i, ForceSend(i) PROVE OwnInv' /\ Landing
<1> DEFINE a == Tell(Now, {i}, "waiting")
<1>1. Alike(Now, Now) /\ InputAssumption /\ Own(Now, day) /\ day' = day
  BY AlikeSelf DEF OwnInv, Own, DaysGo, ForceSend, Acts
<1>2. Alike(Now, a)
  BY <1>1, TellAlike
<1>3. CASE Becomes([a EXCEPT !.talk.opening.held = Append(@, i), !.talk.opening.forced = @ \union {i}])
  <2> HIDE DEF a
  <2>1. Alike(Now, [a EXCEPT !.talk.opening.held = Append(@, i), !.talk.opening.forced = @ \union {i}])
    BY <1>2, HeldAlike
  <2> QED
    BY <1>1, <1>3, <2>1, QuietAlike, QuietStep
<1>4. CASE Becomes(Admit(Now, i, FALSE))
  BY <1>1, <1>4, AdmitQuiet, QuietStep
<1>5. ASSUME LET s == StopLive(Admit(Now, i, TRUE))
             IN  Becomes(IF ~Speaks(s) THEN s
                         ELSE [s EXCEPT !.talk.turn[s.lane.running].forceStopped = TRUE])
      PROVE  OwnInv' /\ Landing
  <2> DEFINE b == Admit(Now, i, TRUE)
             s == StopLive(b)
             r == [s EXCEPT !.talk.turn[s.lane.running].forceStopped = TRUE]
  <2>1. Quiet(Now, b)
    BY <1>1, AdmitQuiet, ZenonT(60)
  <2> HIDE DEF b
  <2>2. Own(s, day) /\ s.plan = b.plan
    BY <1>1, <2>1, StopLiveOwn, SMTT(40) DEF Quiet
  <2> HIDE DEF s
  <2>3. ASSUME Speaks(s) PROVE Own(r, day) /\ r.plan = s.plan
    <3>1. s.lane.running \in Turn /\ Shaped(s)
      BY <2>2, <2>3 DEF Speaks, Own, Shaped, LaneShaped
    <3>2. Own(r, day) /\ WithFlag(s, r, s.lane.running)
      BY <1>1, <2>2, <3>1, FlagOwn, SetFlag
    <3> QED
      BY <3>2, ZenonT(40) DEF WithFlag, ButTurn
  <2>4. Becomes(IF ~Speaks(s) THEN s ELSE r)
    BY <1>5 DEF s, b
  <2> HIDE DEF r
  <2>5. Quiet(Now, IF ~Speaks(s) THEN s ELSE r)
    BY <2>1, <2>2, <2>3 DEF Quiet
  <2> QED
    BY <1>1, <2>4, <2>5, QuietStep
<1> QED
  BY <1>3, <1>4, <1>5 DEF ForceSend

LEMMA QuietWithdraw == ASSUME OwnInv, DaysGo, NEW i, Withdraw(i) PROVE OwnInv' /\ Landing
<1> DEFINE s == [Now EXCEPT !.lane.withdrawn = @ \union {i}]
           r == [s EXCEPT !.talk.turn[s.lane.running].aborted = TRUE]
<1>1. Alike(Now, Now) /\ InputAssumption /\ Own(Now, day) /\ day' = day
  BY AlikeSelf DEF OwnInv, Own, DaysGo, Withdraw, Acts
<1>2. Alike(Now, s)
  BY <1>1, SetLane
<1>3. Becomes(IF i \in Taken(s) /\ Speaks(s) THEN r ELSE s)
  BY DEF Withdraw
<1> HIDE DEF s
<1>4. Own(s, day) /\ Quiet(Now, s)
  BY <1>1, <1>2, QuietAlike DEF Quiet
<1>5. ASSUME Speaks(s) PROVE Own(r, day) /\ r.plan = s.plan
  <2>1. s.lane.running \in Turn /\ Shaped(s)
    BY <1>4, <1>5 DEF Speaks, Own, Shaped, LaneShaped
  <2>2. Own(r, day) /\ WithFlag(s, r, s.lane.running)
    BY <1>1, <1>4, <2>1, FlagOwn, SetFlag
  <2> QED
    BY <2>2, ZenonT(40) DEF WithFlag, ButTurn
<1> HIDE DEF r
<1>6. Quiet(Now, IF i \in Taken(s) /\ Speaks(s) THEN r ELSE s)
  BY <1>4, <1>5 DEF Quiet
<1> QED
  BY <1>1, <1>3, <1>6, QuietStep

\* A goal begins at its gate.
LEMMA StartsAtGate ==
  ASSUME OwnInv, DaysGo, NEW i, StartPlanning(i)
  PROVE  LET a == Tell(EndWaiting(Now, "discarded"), {i}, "waiting")
             s == [a EXCEPT !.talk.opening = [NoOpening EXCEPT !.at = "probe", !.input = i]]
         IN  Own(s, day) /\ FreeTurns(s) # {} /\ s.plan.gen = plan.gen /\ s.plan.heard = plan.heard
<1> DEFINE e == EndWaiting(Now, "discarded")
           a == Tell(e, {i}, "waiting")
           s == [a EXCEPT !.talk.opening = [NoOpening EXCEPT !.at = "probe", !.input = i]]
<1>1. /\ Alike(Now, Now) /\ InputAssumption /\ Own(Now, day) /\ Spare /\ "ticks" \notin day
  BY AlikeSelf DEF OwnInv, Own, DaysGo, TicksAlone, StartPlanning, Acts
<1>2. Alike(Now, a)
  BY <1>1, EndWaitingAlike, TellAlike
<1> HIDE DEF a
<1>4. Own(a, day) /\ FreeTurns(a) # {} /\ a.plan.gen = plan.gen /\ a.plan.heard = plan.heard
  BY <1>1, <1>2, AlikeOwn, NowFields DEF Alike, SameTurns, Spare, FreeTurns
<1>5. /\ Shaped(s) /\ s.plan = a.plan /\ s.lane = a.lane /\ s.talk.live = a.talk.live
      /\ s.talk.turn = a.talk.turn /\ s.talk.lease = a.talk.lease /\ s.talk.able = a.talk.able
  BY <1>4 DEF Own, Shaped, TalkShaped, NoOpening
<1> HIDE DEF s
<1>6. HoldsOwn(s) /\ SlotOwn(s) /\ LiveOwn(s) /\ FlightOwn(s) /\ TailOwn(s)
  BY <1>4, <1>5 DEF Own, HoldsOwn, SlotOwn, LiveOwn, FlightOwn, TailOwn
<1>7. TickOwn(s, day) /\ DayOwn(s, day)
  BY <1>1, <1>4, <1>5 DEF Own, TickOwn, DayOwn
<1>8. Own(s, day) /\ FreeTurns(s) # {}
  BY <1>4, <1>5, <1>6, <1>7 DEF Own, FreeTurns
<1> QED
  BY <1>4, <1>5, <1>8 DEF s, a

LEMMA QuietStart == ASSUME OwnInv, DaysGo, NEW i, StartPlanning(i) PROVE OwnInv' /\ Landing
<1> DEFINE a == Tell(EndWaiting(Now, "discarded"), {i}, "waiting")
           s == [a EXCEPT !.talk.opening = [NoOpening EXCEPT !.at = "probe", !.input = i]]
<1>1. InputAssumption /\ day' = day /\ "ticks" \notin day /\ Becomes(ThroughGate(s))
  BY DEF OwnInv, DaysGo, TicksAlone, StartPlanning, Acts
<1>2. Own(s, day) /\ FreeTurns(s) # {} /\ s.plan.gen = plan.gen /\ s.plan.heard = plan.heard
  BY StartsAtGate
<1> HIDE DEF s
<1>3. Quiet(s, ThroughGate(s))
  BY <1>1, <1>2, ThroughGateOwn DEF Quiet
<1>4. Quiet(Now, ThroughGate(s))
  BY <1>2, <1>3, NowFields DEF Quiet
<1> QED
  BY <1>1, <1>4, QuietStep

LEMMA QuietStop == ASSUME OwnInv, DaysGo, AbortPlannerTurn PROVE OwnInv' /\ Landing
<1> DEFINE q == StopQueued(Now)
           s == StopLive(q)
           r == EndWaiting(s, "stopped")
<1>1. Alike(Now, Now) /\ InputAssumption /\ Own(Now, day) /\ day' = day /\ Becomes(r)
  BY AlikeSelf DEF OwnInv, Own, DaysGo, AbortPlannerTurn, Acts
<1>2. Own(q, day) /\ Quiet(Now, q)
  BY <1>1, StopQueuedAlike, QuietAlike DEF Quiet
<1> HIDE DEF q
<1>3. Own(s, day) /\ s.plan = q.plan
  BY <1>1, <1>2, StopLiveOwn
<1> HIDE DEF s
<1>4. Quiet(s, r)
  BY <1>3, AlikeSelf, EndWaitingAlike, QuietAlike DEF Own
<1>5. r.plan.gen = s.plan.gen
  BY <1>3, AlikeSelf, EndWaitingAlike DEF Own, Alike, SameTurns
<1> HIDE DEF r
<1>6. Quiet(Now, r)
  BY <1>2, <1>3, <1>4, <1>5 DEF Quiet
<1> QED
  BY <1>1, <1>6, QuietStep

LEMMA QuietLoad == ASSUME OwnInv, DaysGo, NEW saved, LoadPlan(saved) PROVE OwnInv' /\ Landing
<1>1. InputAssumption /\ Own(Now, day) /\ day' = day /\ "ticks" \notin day
  BY DEF OwnInv, DaysGo, TicksAlone, LoadPlan, Acts
<1>2. Becomes(Loaded(Now, saved, Elems(saved), Elems(saved) \intersect Report # {}))
  BY DEF LoadPlan, Loaded, Now
<1>3. Quiet(Now, Loaded(Now, saved, Elems(saved), Elems(saved) \intersect Report # {}))
  BY <1>1, LoadOwn DEF Quiet
<1> QED
  BY <1>1, <1>2, <1>3, QuietStep

LEMMA QuietCrash == ASSUME OwnInv, DaysGo, Crash PROVE OwnInv' /\ Landing
<1>1. InputAssumption /\ Shaped(Now) /\ day' = day /\ day \in Days
  BY DEF OwnInv, Own, DaysGo, Crash, Acts
<1>2. PlanShaped(plan') /\ plan'.gen = plan.gen /\ plan'.heard = plan.heard
  BY <1>1, NowFields DEF Shaped, PlanShaped, Crash
<1>3. LaneShaped(lane') /\ lane'.running = None /\ lane'.tails = {}
  BY DEF LaneShaped, Crash
<1>4. /\ TalkShaped(talk') /\ talk'.live = None /\ ~talk'.lease /\ talk'.opening = NoOpening
      /\ \A t \in Turn : talk'.turn[t] = Idle
  BY <1>1, NowFields, IdleShape DEF Shaped, TalkShaped, Crash, NoOpening
<1>5. Vacant(Now')
  BY <1>2, <1>3, <1>4 DEF Now, Vacant, Shaped, Idle
<1>6. Own(Now', day')
  <2>1. ~(Now').talk.lease /\ (Now').talk.opening.at = "none"
    BY <1>4 DEF Now, NoOpening
  <2> QED
    BY <1>5, <2>1, VacantOwn
<1> QED
  BY <1>1, <1>2, <1>6 DEF OwnInv, Landing

LEMMA QuietReport == ASSUME OwnInv, DaysGo, ReportWake PROVE OwnInv' /\ Landing
<1> DEFINE s == [Now EXCEPT !.lane.reportWake = FALSE]
           s2 == [s EXCEPT !.lane.restored = FALSE]
           s3 == [s2 EXCEPT !.lane.asked = TRUE]
<1>1. Alike(Now, Now) /\ InputAssumption /\ Own(Now, day) /\ day' = day
  BY AlikeSelf DEF OwnInv, Own, DaysGo, ReportWake
<1>2. Alike(Now, s)
  BY <1>1, SetLane
<1>3. Becomes(IF ~lane.restored \/ Holds(Now) \/ ~Supervised(Now) THEN s ELSE Pump(s3))
  BY DEF ReportWake
<1> HIDE DEF s
<1>4. Alike(Now, s2)
  BY <1>2, SetLane
<1> HIDE DEF s2
<1>5. Alike(Now, s3)
  BY <1>4, SetLane
<1> HIDE DEF s3
<1>6. Quiet(Now, s) /\ Quiet(Now, Pump(s3))
  BY <1>1, <1>2, <1>5, QuietAlike, QuietPump
<1> QED
  BY <1>1, <1>3, <1>6, QuietStep

-----------------------------------------------------------------------------
\* A call's end leaves the others what they were, unless it was the live one.
LEMMA CallOverOther ==
  ASSUME NEW D, NEW s, Own(s, D), NEW t \in Turn, NEW r, NEW X, CallOver(s, r, t, X), s.talk.live # t,
         ~(s.lane.running = t /\ s.talk.turn[t].kind = "reply"), s.talk.turn[t].at = "talking", InputAssumption
  PROVE  Own(r, D)
<1>1. s.talk.live \in Turn \union {None} /\ s.lane.running \in Turn \union {None} /\ None \notin Turn
      /\ r.talk.live = s.talk.live /\ (s.talk.live # None => r.talk.turn[s.talk.live] = s.talk.turn[s.talk.live])
  BY DEF Own, Shaped, TalkShaped, LaneShaped, CallOver, InputAssumption
<1>2. HoldsOwn(r) /\ SlotOwn(r)
  BY <1>1 DEF Own, HoldsOwn, SlotOwn, CallOver
<1>3. LiveOwn(r)
  BY <1>1 DEF Own, LiveOwn, CallOver, Writes
<1>4. FlightOwn(r) /\ TailOwn(r)
  BY <1>1 DEF Own, FlightOwn, TailOwn, CallOver
<1>5. TickOwn(r, D) /\ DayOwn(r, D)
  BY <1>1 DEF Own, TickOwn, DayOwn, CallOver
<1> QED
  BY <1>2, <1>3, <1>4, <1>5 DEF Own, CallOver

\* The end of a live turn that is not the queue's: the slot is all it leaves.
LEMMA CallOverLive ==
  ASSUME NEW D, NEW s, Own(s, D), NEW t \in Turn, NEW r, NEW X, CallOver(s, r, t, X), s.talk.live = t,
         ~(s.lane.running = t /\ s.talk.turn[t].kind = "reply"), InputAssumption
  PROVE  Vacant(r) /\ ("ticks" \in D => r.talk.opening.at = "none") /\ s.lane.running = None
<1>1. t # None /\ s.lane.running = None /\ s.lane.tails = {}
  BY DEF Own, FlightOwn, TickOwn, InputAssumption
<1>2. \A u \in Turn : ~r.talk.turn[u].hold
  BY <1>1 DEF Own, HoldsOwn, CallOver, InputAssumption
<1>3. \A u \in Turn : r.talk.turn[u].at = "talking" => r.talk.turn[u].dropped
  BY <1>1 DEF Own, LiveOwn, CallOver
<1> QED
  BY <1>1, <1>2, <1>3 DEF Vacant, CallOver, Own, DayOwn

\* The end of the turn in flight.
LEMMA CallOverFlight ==
  ASSUME NEW D, NEW s, Own(s, D), NEW t \in Turn, NEW r, NEW X, CallOver(s, r, t, X), s.lane.running = t,
         s.talk.turn[t].at = "talking", s.talk.turn[t].kind = "reply", InputAssumption
  PROVE  Ending(r, t, D)
<1>1. t # None /\ s.lane.tails = {} /\ s.talk.live \in {t, None} /\ s.talk.lease
  BY DEF Own, FlightOwn, TailOwn, SlotOwn, InputAssumption
<1>2. r.talk.live = None
  BY <1>1 DEF CallOver
<1>3. \A u \in Turn : r.talk.turn[u].hold => u = t
  BY <1>1 DEF Own, HoldsOwn, CallOver
<1>4. \A u \in Turn : r.talk.turn[u].at = "talking" => r.talk.turn[u].dropped
  BY <1>1 DEF Own, LiveOwn, CallOver
<1> QED
  BY <1>1, <1>2, <1>3, <1>4 DEF Ending, CallOver, Own, DayOwn

\* The slot goes back, and the next turn may open.
LEMMA LiveOverPumps ==
  ASSUME NEW s, Vacant(s), "ticks" \in day => s.talk.opening.at = "none", NEW q, Alike(s, q), NEW free, InputAssumption
  PROVE  Own(Pump(EndTurnLease(q, free)), day) /\ Writes(s, Pump(EndTurnLease(q, free)), {})
<1> DEFINE l == EndTurnLease(q, free)
<1>1. Vacant(q) /\ ("ticks" \in day => q.talk.opening.at = "none")
  BY DEF Vacant, Alike, SameTurns
<1>2. /\ Shaped(l) /\ l.plan = q.plan /\ l.lane = q.lane /\ ~l.talk.lease
      /\ l.talk.live = q.talk.live /\ l.talk.turn = q.talk.turn /\ l.talk.opening = q.talk.opening
  BY <1>1, EndTurnLeaseSays DEF Vacant
<1> HIDE DEF l
<1>3. Vacant(l)
  BY <1>1, <1>2 DEF Vacant
<1>4. Own(l, day)
  BY <1>1, <1>2, <1>3, VacantOwn
<1>5. Own(Pump(l), day) /\ Writes(l, Pump(l), {})
  BY <1>2, <1>4, AlikeSelf, PumpOwn, PumpWrites
<1>6. Writes(s, Pump(l), {})
  BY <1>2, <1>5 DEF Writes, Alike, SameTurns
<1> QED
  BY <1>5, <1>6 DEF l

LEMMA OpeningOverAlike ==
  ASSUME NEW s, NEW o, Alike(s, o), NEW r, NEW how
  PROVE  Alike(s, OpeningOver(o, r, how))
<1> DEFINE kept == how = "paused" \/ (how = "limited" /\ Holds(o) /\ ~(r.ids \subseteq o.plan.heard))
           g == CHOOSE i \in r.ids : TRUE
           q1 == [o EXCEPT !.plan.pending = <<g>> \o @]
           q == IF kept THEN q1 ELSE o
           X == Waiting(q, IF kept THEN Elems(q.plan.pending) \intersect User ELSE r.ids)
           a == Tell(q, X, IF kept THEN "kept" ELSE how)
           b == [a EXCEPT !.talk.opening = NoOpening]
           c == [a EXCEPT !.talk.opening = IF @.at = "open" /\ @.input = g THEN NoOpening ELSE @]
<1>0. OpeningOver(o, r, how) = c
  BY DEF OpeningOver
<1>1. Alike(s, q1)
  BY SetPlan
<1> HIDE DEF q1, kept, X
<1>2. Alike(s, q)
  BY <1>1
<1> HIDE DEF q
<1>3. Alike(s, a)
  BY <1>2, TellAlike
<1> HIDE DEF a
<1>4. Alike(s, b)
  BY <1>3, SetTalk
<1>5. c = b \/ c = a
  BY <1>3 DEF Alike, Shaped, TalkShaped
<1> HIDE DEF c
<1> QED
  BY <1>0, <1>3, <1>4, <1>5

\* What a turn's end writes is the live turn's own, on the plan it answers.
LEMMA EndTurnOwn == ASSUME OwnInv, DaysGo, NEW t \in Turn, EndTurn(t) PROVE OwnInv' /\ Landing
<1>1. /\ InputAssumption /\ Own(Now, day) /\ day' = day /\ day \in Days /\ talk.turn[t].at = "talking" /\ Shaped(Now)
  BY DEF OwnInv, Own, DaysGo, EndTurn
<1>2. PICK how \in Outcomes(talk.turn[t]), free \in BOOLEAN :
        \E wait \in IF how = "limited" THEN {"armed", "held"} ELSE {"none"} :
         LET r == talk.turn[t]
             s == Over(Now, t, how, wait)
             mine == talk.live = t
             lets == IF lane.running = None THEN EndTurnLease(s, free) ELSE s
         IN  Becomes(CASE lane.running = t /\ r.kind = "reply" -> Ended(s, t, r, how, free)
                       [] r.kind = "opening" -> LET q == OpeningOver(s, r, how)
                                                IN  IF mine THEN Pump(EndTurnLease(q, free)) ELSE q
                       [] OTHER -> IF mine THEN Pump(lets) ELSE s)
  BY DEF EndTurn
<1>3. PICK wait \in IF how = "limited" THEN {"armed", "held"} ELSE {"none"} :
         LET r == talk.turn[t]
             s == Over(Now, t, how, wait)
             mine == talk.live = t
             lets == IF lane.running = None THEN EndTurnLease(s, free) ELSE s
         IN  Becomes(CASE lane.running = t /\ r.kind = "reply" -> Ended(s, t, r, how, free)
                       [] r.kind = "opening" -> LET q == OpeningOver(s, r, how)
                                                IN  IF mine THEN Pump(EndTurnLease(q, free)) ELSE q
                       [] OTHER -> IF mine THEN Pump(lets) ELSE s)
  BY <1>2
<1> DEFINE r == talk.turn[t]
           s == Over(Now, t, how, wait)
           q == OpeningOver(s, r, how)
           X == IF how = "answered" /\ r.kind # "compaction" THEN r.ids ELSE {}
           flight == lane.running = t /\ r.kind = "reply"
<1>4. CallOver(Now, s, t, X)
  BY <1>1, OverSays, NowFields
<1>5. PICK n : Becomes(n) /\ n = CASE flight -> Ended(s, t, r, how, free)
                                   [] r.kind = "opening" -> IF talk.live = t THEN Pump(EndTurnLease(q, free)) ELSE q
                                   [] OTHER -> IF talk.live = t
                                               THEN Pump(IF lane.running = None THEN EndTurnLease(s, free) ELSE s) ELSE s
  BY <1>3
<1>6. r.dropped => how = "discarded"
  BY <1>2 DEF Outcomes
<1> HIDE DEF s
<1>7. Shaped(s) /\ Alike(s, s) /\ Alike(s, q)
  BY <1>4, AlikeSelf, OpeningOverAlike DEF CallOver
<1> HIDE DEF q
<1>8. ASSUME flight PROVE Own(n, day) /\ Writes(s, n, {})
  <2>1. Ending(s, t, day)
    BY <1>1, <1>4, <1>8, CallOverFlight, NowFields
  <2> QED
    BY <1>1, <1>5, <1>8, <2>1, EndedOwn
<1>9. ASSUME ~flight, talk.live = t PROVE Own(n, day) /\ Writes(s, n, {})
  <2>1. Vacant(s) /\ ("ticks" \in day => s.talk.opening.at = "none") /\ lane.running = None
    BY <1>1, <1>4, <1>9, CallOverLive, NowFields
  <2>2. n = Pump(EndTurnLease(q, free)) \/ n = Pump(EndTurnLease(s, free))
    BY <1>5, <1>9, <2>1
  <2> QED
    BY <1>1, <1>7, <2>1, <2>2, LiveOverPumps
<1>10. ASSUME ~flight, talk.live # t PROVE Own(n, day) /\ Writes(s, n, {})
  <2>1. Own(s, day)
    BY <1>1, <1>4, <1>10, CallOverOther, NowFields
  <2>2. n = q \/ n = s
    BY <1>5, <1>10
  <2> QED
    BY <1>7, <2>1, <2>2, AlikeOwn DEF Writes, Alike, SameTurns
<1>11. Own(n, day) /\ Writes(s, n, {})
  BY <1>8, <1>9, <1>10
<1>12. n.plan.gen = plan.gen /\ n.plan.heard = plan.heard \union X /\ ~n.talk.turn[t].aborted
  BY <1>4, <1>11, NowFields DEF Writes, CallOver
<1>13. X # {} => talk.live = t /\ talk.turn[t].gen = plan.gen /\ X = talk.turn[t].ids /\ t # None
  BY <1>1, <1>6, NowFields, SMTT(40) DEF Own, LiveOwn, InputAssumption
<1> HIDE DEF X
<1>14. Now' = n
  BY <1>5, <1>11, ZenonT(40) DEF Becomes, Now, Own, Shaped
<1>15. OwnInv'
  <2>1. Own(Now', day')
    BY <1>1, <1>11, <1>14
  <2> QED
    BY <1>1, <2>1 DEF OwnInv
<1>16. Landing
  BY <1>5, <1>12, <1>13 DEF Landing, Becomes
<1> QED
  BY <1>15, <1>16

LEMMA LandsOwn == ASSUME NEW D, NEW s, Own(s, D), NEW r, NEW X, LandsIn(s, r, X) PROVE Own(r, D)
<1>1. HoldsOwn(r) /\ SlotOwn(r) /\ LiveOwn(r) /\ FlightOwn(r) /\ TailOwn(r)
  BY DEF Own, HoldsOwn, SlotOwn, LiveOwn, FlightOwn, TailOwn, LandsIn
<1>2. TickOwn(r, D) /\ DayOwn(r, D)
  BY DEF Own, TickOwn, DayOwn, LandsIn
<1> QED
  BY <1>1, <1>2 DEF Own, LandsIn

LEMMA ChecksOutOwn == ASSUME OwnInv, DaysGo, NEW t \in Turn, ChecksOut(t) PROVE OwnInv' /\ Landing
<1> DEFINE s == [Now EXCEPT !.talk.turn[t].checking = FALSE]
           k == Landed(s, talk.turn[t])
<1>1. InputAssumption /\ Own(Now, day) /\ day' = day /\ day \in Days /\ Shaped(Now) /\ Becomes(IF ToolTurn(t) THEN k ELSE s)
  BY DEF OwnInv, Own, DaysGo, ChecksOut
<1>2. Own(s, day) /\ WithFlag(Now, s, t)
  BY <1>1, FlagOwn, SetFlag
<1> HIDE DEF s
<1>3. s.plan = plan
  BY <1>2, NowFields DEF WithFlag, ButTurn
<1>4. CASE ~ToolTurn(t)
  BY <1>1, <1>2, <1>3, <1>4, QuietStep, NowFields DEF Quiet
<1>5. CASE ToolTurn(t)
  <2>1. LandsIn(s, k, talk.turn[t].ids)
    BY <1>2, AlikeSelf, LandedWrites DEF Own
  <2>2. Own(k, day)
    BY <1>2, <2>1, LandsOwn
  <2> HIDE DEF k
  <2>3. Now' = k
    BY <1>1, <1>5, <2>2 DEF Becomes, Now, Own, Shaped
  <2>4. OwnInv'
    <3>1. Own(Now', day')
      BY <1>1, <2>2, <2>3
    <3> QED
      BY <1>1, <3>1 DEF OwnInv
  <2>5. plan'.heard = plan.heard \union talk.turn[t].ids
    BY <1>1, <1>3, <1>5, <2>1 DEF LandsIn, Becomes
  <2>6. Landing
    BY <1>1, <1>5, <2>5 DEF Landing, ToolTurn, InputAssumption
  <2> QED
    BY <2>4, <2>6
<1> QED
  BY <1>4, <1>5

\* A flag of a turn's, or its hold, on the way.
LEMMA QuietFlag ==
  ASSUME OwnInv, DaysGo, NEW t \in Turn, StartCheck(t) \/ HoldTimesOut(t) \/ TurnTimesOut(t)
  PROVE  OwnInv' /\ Landing
<1> DEFINE r1 == [Now EXCEPT !.talk.turn[t].checking = TRUE]
           r2 == [Now EXCEPT !.talk.turn[t].hold = FALSE]
           s3 == [Now EXCEPT !.talk.turn[t].late = TRUE]
           r3 == [s3 EXCEPT !.talk.turn[t].aborted = TRUE]
<1>1. InputAssumption /\ Own(Now, day) /\ day' = day /\ Shaped(Now)
  BY DEF OwnInv, Own, DaysGo, StartCheck, HoldTimesOut, TurnTimesOut, May
<1>2. Becomes(r1) \/ Becomes(r2) \/ Becomes(r3)
  <2>1. [Now EXCEPT !.talk.turn[t].late = TRUE, !.talk.turn[t].aborted = TRUE] = r3
    OBVIOUS
  <2> HIDE DEF r1, r2, r3
  <2> QED
    BY <2>1 DEF StartCheck, HoldTimesOut, TurnTimesOut, r1, r2
<1>3. Own(r1, day) /\ Own(r2, day) /\ Own(s3, day) /\ WithFlag(Now, r1, t) /\ HoldGone(Now, r2, t) /\ WithFlag(Now, s3, t)
  BY <1>1, FlagOwn, SetFlag
<1> HIDE DEF r1, r2, s3
<1>4. Own(r3, day) /\ WithFlag(s3, r3, t)
  BY <1>1, <1>3, FlagOwn, SetFlag DEF Own
<1> HIDE DEF r3
<1>5. r1.plan = plan /\ r2.plan = plan /\ r3.plan = plan
  BY <1>3, <1>4, NowFields DEF WithFlag, HoldGone, ButTurn
<1>6. Quiet(Now, r1) /\ Quiet(Now, r2) /\ Quiet(Now, r3)
  BY <1>3, <1>4, <1>5, NowFields DEF Quiet
<1> QED
  BY <1>1, <1>2, <1>6, QuietStep

LEMMA QuietGrace == ASSUME OwnInv, DaysGo, NEW t \in Turn, GraceEnds(t) PROVE OwnInv' /\ Landing
<1> DEFINE r == talk.turn[t]
           d == Drop(Now)
           h == [d EXCEPT !.talk.turn[t].kind = "hung"]
           c == Counted(h, r, "failed")
<1>1. /\ InputAssumption /\ Own(Now, day) /\ day' = day /\ Shaped(Now) /\ lane.running = t /\ talk.live = t
  BY DEF OwnInv, Own, DaysGo, GraceEnds, Late
<1>2. PICK free \in BOOLEAN : Becomes(Ended(c, t, r, "failed", free))
  BY DEF GraceEnds
<1>3. LetsGo(Now, d)
  BY <1>1, DropLetsGo
<1> HIDE DEF d
<1>4. TurnHung(d, h, t)
  BY <1>3, SetFlag DEF LetsGo
<1> HIDE DEF h
<1>5. Alike(h, c)
  BY <1>4, AlikeSelf, CountedAlike DEF TurnHung, ButTurn
<1> HIDE DEF c
<1>6. t # None /\ lane.tails = {} /\ talk.lease
  BY <1>1, NowFields DEF Own, TickOwn, SlotOwn, InputAssumption
<1>7. /\ Shaped(h) /\ h.lane.running = t /\ h.lane.tails = {} /\ h.talk.live = None /\ h.talk.lease
      /\ h.plan = plan /\ h.talk.opening = talk.opening
  BY <1>1, <1>3, <1>4, <1>6, NowFields DEF TurnHung, ButTurn, LetsGo
<1>8. \A u \in Turn : /\ h.talk.turn[u].at = talk.turn[u].at /\ (h.talk.turn[u].hold => talk.turn[u].hold)
                      /\ h.talk.turn[u].dropped <=> talk.turn[u].dropped \/ u = t
  <2> SUFFICES ASSUME NEW u \in Turn
               PROVE  /\ h.talk.turn[u].at = talk.turn[u].at /\ (h.talk.turn[u].hold => talk.turn[u].hold)
                      /\ h.talk.turn[u].dropped <=> talk.turn[u].dropped \/ u = t
    OBVIOUS
  <2>1. CASE u = t
    BY <1>1, <1>3, <1>4, <2>1, NowFields DEF TurnHung, LetsGo
  <2>2. CASE u # t
    BY <1>1, <1>3, <1>4, <2>2, NowFields DEF TurnHung, ButTurn, LetsGo
  <2> QED
    BY <2>1, <2>2
<1>9. Ending(h, t, day)
  <2>1. \A u \in Turn : h.talk.turn[u].hold => u = t
    BY <1>1, <1>6, <1>8, NowFields DEF Own, HoldsOwn
  <2>2. \A u \in Turn : h.talk.turn[u].at = "talking" => h.talk.turn[u].dropped
    BY <1>1, <1>8, NowFields DEF Own, LiveOwn
  <2>3. h.talk.turn[t].kind = "hung"
    BY <1>4 DEF TurnHung
  <2>4. "ticks" \in day => h.talk.opening.at = "none"
    BY <1>1, <1>7, NowFields DEF Own, DayOwn
  <2> QED
    BY <1>7, <2>1, <2>2, <2>3, <2>4 DEF Ending
<1>10. Ending(c, t, day) /\ c.plan.gen = plan.gen /\ c.plan.heard = plan.heard
  <2>1. "ticks" \in day => c.talk.opening.at = "none"
    BY <1>5, <1>9 DEF Alike, SameTurns, Ending
  <2> QED
    BY <1>5, <1>7, <1>9, <2>1 DEF Alike, SameTurns, Ending
<1>11. Quiet(Now, Ended(c, t, r, "failed", free))
  BY <1>1, <1>10, EndedOwn, NowFields DEF Quiet, Writes
<1> QED
  BY <1>1, <1>2, <1>11, QuietStep

LEMMA QuietTick == ASSUME OwnInv, DaysGo, NEW e, TickOver(e) PROVE OwnInv' /\ Landing
<1>1. InputAssumption /\ Own(Now, day) /\ day' = day /\ Shaped(Now) /\ e \in lane.tails
  BY DEF OwnInv, Own, DaysGo, TickOver
<1>2. PICK free \in BOOLEAN : Becomes(Settled(Now, e, free))
  BY DEF TickOver
<1>3. lane.running # None /\ talk.live = None /\ lane.tails = {e} /\ lane.running \in Turn
  BY <1>1, NowFields DEF Own, TickOwn, Shaped, LaneShaped
<1>4. \A u \in Turn : ~talk.turn[u].hold /\ (talk.turn[u].at = "talking" => talk.turn[u].dropped)
  BY <1>1, <1>3, NowFields DEF Own, HoldsOwn, LiveOwn, TailOwn, InputAssumption
<1>5. "ticks" \in day => talk.opening.at = "none"
  BY <1>1, NowFields DEF Own, DayOwn
<1>6. Own(Settled(Now, e, free), day) /\ Writes(Now, Settled(Now, e, free), {})
  BY <1>1, <1>3, <1>4, <1>5, SettledOwn, NowFields
<1>7. Quiet(Now, Settled(Now, e, free))
  BY <1>6 DEF Quiet, Writes
<1> QED
  BY <1>1, <1>2, <1>7, QuietStep

LEMMA QuietLimit ==
  ASSUME OwnInv, DaysGo, ResetComes \/ CancelResend \/ SwitchPlanner
  PROVE  OwnInv' /\ Landing
<1> DEFINE r1 == [Now EXCEPT !.plan.limit = "held"]
           r2 == [Now EXCEPT !.plan.limit = "none"]
           r3 == [Now EXCEPT !.talk.moved = TRUE]
<1>1. Alike(Now, Now) /\ InputAssumption /\ Own(Now, day) /\ day' = day
  BY AlikeSelf DEF OwnInv, Own, DaysGo, ResetComes, CancelResend, SwitchPlanner, Acts
<1>2. Becomes(r1) \/ Becomes(Pump(r2)) \/ Becomes(r3)
  BY DEF ResetComes, CancelResend, SwitchPlanner
<1>3. Alike(Now, r1) /\ Alike(Now, r2) /\ Alike(Now, r3)
  BY <1>1, SetPlan, SetTalk
<1> HIDE DEF r1, r2, r3
<1> QED
  BY <1>1, <1>2, <1>3, QuietAlike, QuietPump, QuietStep

LEMMA QuietRetry == ASSUME OwnInv, DaysGo, RetryCompaction PROVE OwnInv' /\ Landing
<1> DEFINE s1 == [Now EXCEPT !.lane.restored = FALSE]
           s2 == [s1 EXCEPT !.lane.quiet = FALSE]
           s == [s2 EXCEPT !.lane.asked = TRUE]
           ids == Elems(plan.pending) \intersect plan.kept
<1>1. /\ Alike(Now, Now) /\ InputAssumption /\ Own(Now, day) /\ day' = day /\ lane.running = None /\ talk.live = None
      /\ FreeTurns(Now) # {}
  BY AlikeSelf DEF OwnInv, Own, DaysGo, RetryCompaction, Acts, Spare
<1>0. Becomes(IF HasRoom(s) THEN Run(s, ids, TRUE) ELSE s)
  BY DEF RetryCompaction
<1>2. Alike(Now, s1)
  BY <1>1, SetLane
<1> HIDE DEF s1, ids
<1>3. Alike(Now, s2)
  BY <1>2, SetLane
<1> HIDE DEF s2
<1>4. Alike(Now, s)
  BY <1>3, SetLane
<1> HIDE DEF s
<1>5. Opens(s, Run(s, ids, TRUE))
  BY <1>1, <1>4, RunOpens, NowFields DEF Alike, SameTurns, FreeTurns
<1>6. Opens(Now, Run(s, ids, TRUE))
  BY <1>4, <1>5, AlikeOpens
<1>7. Own(Run(s, ids, TRUE), day)
  BY <1>1, <1>6, OpensOwn
<1>8. Quiet(Now, Run(s, ids, TRUE)) /\ Quiet(Now, s)
  BY <1>1, <1>4, <1>6, <1>7, QuietAlike DEF Quiet, Opens, Claims
<1> QED
  BY <1>0, <1>1, <1>8, QuietStep

LEMMA QuietCompact == ASSUME OwnInv, DaysGo, Compact PROVE OwnInv' /\ Landing
<1> DEFINE c == Claimed(Now, "compaction", {}, FALSE)
<1>1. /\ InputAssumption /\ Own(Now, day) /\ day' = day /\ Shaped(Now) /\ talk.live = None /\ FreeTurns(Now) # {}
      /\ day \in Days /\ "compact" \in day /\ talk.able /\ Becomes(c)
  BY DEF OwnInv, Own, DaysGo, Compact, Acts, Spare
<1>2. lane.running = None
  <2>1. lane.tails = {}
    BY <1>1, NowFields DEF Own, TickOwn, DaysGo, TicksAlone
  <2>2. ~("lease lost" \in day /\ "able" \in day)
    BY <1>1 DEF DaysGo, LostForGood
  <2> QED
    BY <1>1, <2>1, <2>2, NowFields DEF Own, DayOwn
<1>3. Claims(Now, c, NextTurn(Now), "compaction") /\ c.lane = lane
  BY <1>1, ClaimedTakes, NowFields
<1> HIDE DEF c
<1>4. Takes(Now, c, "compaction")
  BY <1>3, NowFields DEF Takes, Claims
<1>5. Own(c, day)
  BY <1>1, <1>2, <1>4, TakesOwn, NowFields
<1>6. Quiet(Now, c)
  BY <1>3, <1>5 DEF Quiet, Claims
<1> QED
  BY <1>1, <1>6, QuietStep

LEMMA QuietAble == ASSUME OwnInv, DaysGo, SetAble PROVE OwnInv' /\ Landing
<1> DEFINE r == [Now EXCEPT !.talk.able = ~@]
<1>1. InputAssumption /\ Own(Now, day) /\ day' = day /\ Shaped(Now) /\ "able" \in day /\ Becomes(r)
  BY DEF OwnInv, Own, DaysGo, SetAble, Acts
<1>2. /\ Shaped(r) /\ r.plan = plan /\ r.lane = lane /\ r.talk.live = talk.live
      /\ r.talk.turn = talk.turn /\ r.talk.lease = talk.lease /\ r.talk.opening = talk.opening
  BY <1>1, NowFields DEF Shaped, TalkShaped
<1> HIDE DEF r
<1>3. HoldsOwn(r) /\ SlotOwn(r) /\ LiveOwn(r) /\ FlightOwn(r) /\ TailOwn(r)
  BY <1>1, <1>2, NowFields DEF Own, HoldsOwn, SlotOwn, LiveOwn, FlightOwn, TailOwn
<1>4. TickOwn(r, day) /\ DayOwn(r, day)
  BY <1>1, <1>2, NowFields DEF Own, TickOwn, DayOwn
<1>5. Quiet(Now, r)
  BY <1>2, <1>3, <1>4, NowFields DEF Quiet, Own
<1> QED
  BY <1>1, <1>5, QuietStep

LEMMA QuietLost == ASSUME OwnInv, DaysGo, LeaseLost PROVE OwnInv' /\ Landing
<1> DEFINE d == Drop(Now)
           r == [d EXCEPT !.talk.able = FALSE]
<1>0. "lease lost" \in day
  BY DEF LeaseLost, Acts
<1>1. InputAssumption /\ Own(Now, day) /\ day' = day /\ Shaped(Now) /\ Becomes(r)
  BY DEF OwnInv, Own, DaysGo, LeaseLost, Acts
<1>2. LetsGo(Now, d)
  BY <1>1, DropLetsGo
<1> HIDE DEF d
<1>3. /\ Shaped(r) /\ r.plan = plan /\ r.lane = lane /\ r.talk.live = None /\ ~r.talk.able
      /\ r.talk.turn = d.talk.turn /\ r.talk.lease = d.talk.lease /\ r.talk.opening = talk.opening
  BY <1>2, NowFields DEF LetsGo, Shaped, TalkShaped
<1> HIDE DEF r
<1>4. HoldsOwn(r)
  BY <1>1, <1>2, <1>3, NowFields DEF Own, HoldsOwn, LetsGo
<1>5. SlotOwn(r)
  BY <1>1, <1>2, <1>3, NowFields DEF Own, SlotOwn, LetsGo
<1>6. LiveOwn(r) /\ FlightOwn(r)
  BY <1>1, <1>2, <1>3, NowFields DEF Own, LiveOwn, FlightOwn, LetsGo
<1>7. TailOwn(r)
  <2>1. lane.running \in Turn \union {None}
    BY <1>1, NowFields DEF Shaped, LaneShaped
  <2> QED
    BY <1>1, <1>2, <1>3, <2>1, NowFields DEF Own, TailOwn, LetsGo
<1>8. TickOwn(r, day) /\ DayOwn(r, day)
  BY <1>0, <1>1, <1>3, NowFields DEF Own, TickOwn, DayOwn
<1>9. Quiet(Now, r)
  BY <1>3, <1>4, <1>5, <1>6, <1>7, <1>8, NowFields DEF Quiet, Own
<1> QED
  BY <1>1, <1>9, QuietStep

LEMMA QuietDetected == ASSUME OwnInv, DaysGo, PlannerDetected PROVE OwnInv' /\ Landing
<1> DEFINE s1 == [Now EXCEPT !.talk.known = TRUE]
           s == [s1 EXCEPT !.lane.detecting = FALSE]
           q == IF lane.detecting THEN Pump(s) ELSE s
<1>1. /\ Alike(Now, Now) /\ InputAssumption /\ Own(Now, day) /\ day' = day
      /\ talk.opening.at = "probe" => FreeTurns(q) # {}
      /\ Becomes(IF talk.opening.at = "probe" THEN ThroughGate(q) ELSE q)
  BY AlikeSelf DEF OwnInv, Own, DaysGo, PlannerDetected
<1>2. Alike(Now, s1)
  BY <1>1, SetTalk
<1> HIDE DEF s1
<1>3. Alike(Now, s)
  BY <1>2, SetLane
<1> HIDE DEF s
<1>4. Own(q, day) /\ q.plan.gen = plan.gen /\ q.plan.heard = plan.heard
  <2>1. Own(s, day) /\ s.plan.gen = plan.gen /\ s.plan.heard = plan.heard
    BY <1>1, <1>3, AlikeOwn, NowFields DEF Alike, SameTurns
  <2>2. Own(Pump(s), day)
    BY <1>1, <1>3, PumpOwn
  <2>3. Writes(Now, Pump(s), {})
    BY <1>3, PumpWrites
  <2>4. Pump(s).plan.gen = plan.gen /\ Pump(s).plan.heard = plan.heard
    BY <2>3, NowFields DEF Writes
  <2> QED
    BY <2>1, <2>2, <2>4
<1> HIDE DEF q
<1>5. Quiet(Now, q)
  BY <1>4, NowFields DEF Quiet
<1>6. ASSUME talk.opening.at = "probe" PROVE Quiet(Now, ThroughGate(q))
  <2>1. "ticks" \notin day
    BY <1>1, <1>6, NowFields DEF Own, DayOwn
  <2>2. Quiet(q, ThroughGate(q))
    BY <1>1, <1>4, <1>6, <2>1, ThroughGateOwn DEF Quiet
  <2> QED
    BY <1>4, <2>2, NowFields DEF Quiet
<1> QED
  BY <1>1, <1>5, <1>6, QuietStep

LEMMA QuietRoom == ASSUME OwnInv, DaysGo, TurnRoomFreed PROVE OwnInv' /\ Landing
<1> DEFINE s == [Now EXCEPT !.talk.room = TRUE]
<1>1. /\ Alike(Now, Now) /\ InputAssumption /\ Own(Now, day) /\ day' = day
      /\ \/ talk.opening.at = "slot" /\ Spare /\ Becomes(OpenGoal(s))
         \/ Becomes(IF lane.awaitingSlot THEN Pump(s) ELSE s)
  BY AlikeSelf DEF OwnInv, Own, DaysGo, TurnRoomFreed
<1>2. Alike(Now, s)
  BY <1>1, SetTalk
<1> HIDE DEF s
<1>3. Quiet(Now, s) /\ Quiet(Now, Pump(s))
  BY <1>1, <1>2, QuietAlike, QuietPump
<1>4. ASSUME talk.opening.at = "slot", Spare PROVE Quiet(Now, OpenGoal(s))
  <2>1. "ticks" \notin day
    BY <1>1, <1>4, NowFields DEF Own, DayOwn
  <2>2. Own(s, day) /\ FreeTurns(s) # {} /\ s.plan.gen = plan.gen /\ plan.gen \in Nat
    BY <1>1, <1>2, <1>4, AlikeOwn, NowFields DEF Alike, SameTurns, Spare, FreeTurns, Shaped, PlanShaped
  <2>3. Own(OpenGoal(s), day) /\ OpenGoal(s).plan.gen = plan.gen + 1
    BY <1>1, <2>1, <2>2, OpenGoalOwn DEF Renews
  <2> QED
    BY <2>2, <2>3, NowFields DEF Quiet
<1> QED
  BY <1>1, <1>3, <1>4, QuietStep

-----------------------------------------------------------------------------
LEMMA OwnInit == ASSUME DaysGo, Init PROVE OwnInv
<1>1. PlanShaped(plan) /\ LaneShaped(lane) /\ lane.running = None /\ lane.tails = {} /\ day \in Days
  BY DEF Init, FreshPlan, PlanShaped, LaneShaped
<1>2. /\ TalkShaped(talk) /\ talk.live = None /\ ~talk.lease /\ talk.opening.at = "none"
      /\ \A t \in Turn : talk.turn[t] = Idle
  BY IdleShape DEF Init, TalkShaped, NoOpening
<1>3. Vacant(Now)
  BY <1>1, <1>2 DEF Now, Vacant, Shaped, Idle
<1>4. ~Now.talk.lease /\ Now.talk.opening.at = "none"
  BY <1>2 DEF Now
<1> QED
  BY <1>1, <1>3, <1>4, VacantOwn DEF OwnInv

LEMMA OwnStep == ASSUME DaysGo, OwnInv, [Next]_vars PROVE OwnInv' /\ Landing
<1>1. CASE UNCHANGED vars
  <2>1. Now' = Now /\ day' = day /\ plan' = plan
    BY <1>1 DEF vars, Now
  <2>2. Own(Now', day')
    BY <2>1 DEF OwnInv
  <2> QED
    BY <2>1, <2>2 DEF OwnInv, Landing
<1>2. CASE Next
  <2>1. ASSUME NEW i \in Input, Send(i) \/ Deliver(i) \/ ForceSend(i) \/ Withdraw(i) \/ StartPlanning(i)
        PROVE  OwnInv' /\ Landing
    BY <2>1, QuietSend, QuietDeliver, QuietForce, QuietWithdraw, QuietStart
  <2>2. ASSUME NEW t \in Turn, TurnMoves(t) \/ StartCheck(t) \/ HoldTimesOut(t) \/ TurnTimesOut(t)
        PROVE  OwnInv' /\ Landing
    BY <2>2, EndTurnOwn, ChecksOutOwn, QuietGrace, QuietFlag DEF TurnMoves
  <2>3. CASE AbortPlannerTurn \/ LoadPlan(<<>>) \/ (\E i \in Input : LoadPlan(<<i>>)) \/ Crash \/ ReportWake
    BY <2>3, QuietStop, QuietLoad, QuietCrash, QuietReport
  <2>4. CASE \E e \in lane.tails : TickOver(e)
    BY <2>4, QuietTick
  <2>5. CASE ResetComes \/ CancelResend \/ SwitchPlanner \/ RetryCompaction \/ Compact \/ SetAble \/ LeaseLost
             \/ PlannerDetected \/ TurnRoomFreed
    BY <2>5, QuietLimit, QuietRetry, QuietCompact, QuietAble, QuietLost, QuietDetected, QuietRoom
  <2> QED
    BY <1>2, <2>1, <2>2, <2>3, <2>4, <2>5 DEF Next
<1> QED
  BY <1>1, <1>2

LEMMA OwnHolds == ASSUME DaysGo PROVE Spec => []OwnInv
<1>1. Init => OwnInv
  BY OwnInit
<1>2. OwnInv /\ [Next]_vars => OwnInv'
  BY OwnStep
<1> QED
  BY <1>1, <1>2, PTL DEF Spec

\* What a turn takes from the others, their slot in the tree and their new
\* starts, it has exactly while it is under way: no answer, failure, stop, drop,
\* timeout, load, crash or lost lease leaves either behind, or takes it early.
THEOREM TurnsTakeTheirOwn == ASSUME DaysGo PROVE Spec => []TurnTakesItsOwn
<1>1. OwnInv => TurnTakesItsOwn
  BY NowFields DEF OwnInv, Own, HoldsOwn, SlotOwn, TurnTakesItsOwn, HoldHasTurn, SlotHasTurn
<1> QED
  BY <1>1, OwnHolds, PTL

\* The transcript grows by what the live turn was told, on the plan it answers;
\* of a turn already stopped it does so only as that turn ends.
THEOREM OnlyTheLiveTurnWrites == ASSUME DaysGo PROVE Spec => LandsCurrent
<1>1. OwnInv /\ [Next]_vars => [Landing]_vars
  BY OwnStep
<1>2. Spec => [][Landing]_vars
  BY <1>1, OwnHolds, PTL DEF Spec
<1> QED
  BY <1>2, PTL DEF LandsCurrent, Landing

-----------------------------------------------------------------------------
\* Second part: sequences, of which the list is one. What a filter keeps is what
\* there is of it, once each; by the least place at which it would not be so.
LEMMA LeastOf == ASSUME NEW T, T \subseteq Nat, T # {} PROVE \E x \in T : \A y \in T : x <= y
<1> DEFINE R == {ss \in Nat \X Nat : ss[1] < ss[2]}
<1>1. IsWellFoundedOn(R, Nat)
  BY NatLessThanWellFounded DEF OpToRel
<1>2. PICK x \in T : \A y \in T : <<y, x>> \notin R
  <2> HIDE DEF R
  <2> QED
    BY <1>1, WFMin
<1>3. \A y \in T : ~(y < x)
  BY <1>2
<1> HIDE DEF R
<1> QED
  BY <1>3

\* Induction over a set of numbers.
LEMMA Climb == ASSUME NEW S, 0 \in S, \A n \in Nat : n \in S => n + 1 \in S PROVE Nat \subseteq S
<1> DEFINE T == Nat \ S
<1> SUFFICES ASSUME T # {} PROVE FALSE
  OBVIOUS
<1>1. PICK x \in T : \A y \in T : x <= y
  BY LeastOf
<1>2. x \in Nat /\ x # 0
  OBVIOUS
<1>3. x - 1 \in Nat /\ ~(x <= x - 1) /\ x - 1 + 1 = x
  BY <1>2
<1>4. x - 1 \in S
  BY <1>1, <1>3
<1> QED
  BY <1>3, <1>4

LEMMA GathersExists == ASSUME NEW q, NEW X PROVE \A n \in Nat : \E f : Gathers(f, n, q, X)
<1> DEFINE S == {n \in Nat : \E f : Gathers(f, n, q, X)}
<1>1. 0 \in S
  <2>1. Gathers([k \in 0..0 |-> <<>>], 0, q, X)
    BY DEF Gathers
  <2> QED
    BY <2>1
<1>2. ASSUME NEW n \in Nat, n \in S PROVE n + 1 \in S
  <2>1. PICK f : Gathers(f, n, q, X)
    BY <1>2
  <2> DEFINE g == [k \in 0..(n + 1) |-> IF k \in 0..n THEN f[k]
                                        ELSE IF q[k] \in X THEN Append(f[k - 1], q[k]) ELSE f[k - 1]]
  <2>2. \A k \in 0..n : g[k] = f[k]
    OBVIOUS
  <2>3. \A k \in 0..n : f[k] = IF k = 0 THEN <<>> ELSE IF q[k] \in X THEN Append(f[k - 1], q[k]) ELSE f[k - 1]
    BY <2>1 DEF Gathers
  <2>4. ASSUME NEW k \in 0..(n + 1)
        PROVE  g[k] = IF k = 0 THEN <<>> ELSE IF q[k] \in X THEN Append(g[k - 1], q[k]) ELSE g[k - 1]
    <3>1. CASE k = 0
      BY <3>1, <2>3
    <3>2. CASE k # 0
      <4>1. k - 1 \in 0..n
        BY <3>2
      <4>2. g[k - 1] = f[k - 1]
        BY <4>1, <2>2
      <4>3. CASE k \in 0..n
        BY <4>2, <4>3, <3>2, <2>2, <2>3
      <4>4. CASE k \notin 0..n
        BY <4>2, <4>4, <3>2
      <4> QED
        BY <4>3, <4>4
    <3> QED
      BY <3>1, <3>2
  <2>5. Gathers(g, n + 1, q, X)
    <3>1. g = [k \in 0..(n + 1) |-> g[k]]
      OBVIOUS
    <3> HIDE DEF g
    <3> QED
      BY <2>4, <3>1 DEF Gathers
  <2> QED
    BY <2>5
<1>3. Nat \subseteq S
  <2> HIDE DEF S
  <2> QED
    BY <1>1, <1>2, Climb
<1> QED
  BY <1>3

LEMMA ThoseGathers == ASSUME NEW q, NEW X, Len(q) \in Nat PROVE \E f : Gathers(f, Len(q), q, X) /\ Those(q, X) = f[Len(q)]
<1> DEFINE f == CHOOSE f : Gathers(f, Len(q), q, X)
<1>1. Gathers(f, Len(q), q, X)
  BY GathersExists
<1>2. Those(q, X) = f[Len(q)]
  BY DEF Those, Gathers
<1> QED
  BY <1>1, <1>2

-----------------------------------------------------------------------------
\* Those are at places of q that go up, and it leaves none of X out.
LEMMA ThosePlaces ==
  ASSUME NEW S, NEW q \in Seq(S), NEW X
  PROVE  /\ Those(q, X) \in Seq(S)
         /\ \E h : Places(h, Those(q, X), q, X, Len(q))
<1>1. PICK f : Gathers(f, Len(q), q, X) /\ Those(q, X) = f[Len(q)]
  BY ThoseGathers
<1>2. \A k \in 0..Len(q) : f[k] = IF k = 0 THEN <<>> ELSE IF q[k] \in X THEN Append(f[k - 1], q[k]) ELSE f[k - 1]
  BY <1>1 DEF Gathers
<1> DEFINE N == {n \in Nat : n <= Len(q) => f[n] \in Seq(S) /\ \E h : Places(h, f[n], q, X, n)}
<1>3. 0 \in N
  <2>1. f[0] = <<>>
    BY <1>2
  <2>2. Places([k \in 1..0 |-> 0], <<>>, q, X, 0)
    BY DEF Places
  <2>3. <<>> \in Seq(S)
    OBVIOUS
  <2>4. f[0] \in Seq(S) /\ \E h : Places(h, f[0], q, X, 0)
    BY <2>1, <2>2, <2>3
  <2> QED
    BY <2>4
<1>4. ASSUME NEW n \in Nat, n \in N PROVE n + 1 \in N
  <2> SUFFICES ASSUME n + 1 <= Len(q)
               PROVE  f[n + 1] \in Seq(S) /\ \E h : Places(h, f[n + 1], q, X, n + 1)
    OBVIOUS
  <2>1. n <= Len(q) /\ n + 1 \in 0..Len(q) /\ n + 1 # 0 /\ n + 1 - 1 = n /\ q[n + 1] \in S
    OBVIOUS
  <2>2. f[n] \in Seq(S) /\ \E h : Places(h, f[n], q, X, n)
    BY <1>4, <2>1
  <2>3. f[n + 1] = IF q[n + 1] \in X THEN Append(f[n], q[n + 1]) ELSE f[n]
    BY <1>2, <2>1
  <2>4. PICK h : Places(h, f[n], q, X, n)
    BY <2>2
  <2> DEFINE r == f[n]
  <2>5. r \in Seq(S) /\ Len(r) \in Nat
    BY <2>2
  <2> HIDE DEF r, N
  <2>6. CASE q[n + 1] \notin X
    <3>1. Places(h, r, q, X, n + 1)
      BY <2>4, <2>5, <2>6 DEF Places, r
    <3> QED
      BY <2>3, <2>5, <2>6, <3>1 DEF r
  <2>7. CASE q[n + 1] \in X
    <3> DEFINE a == Append(r, q[n + 1])
               g == [k \in 1..(Len(r) + 1) |-> IF k <= Len(r) THEN h[k] ELSE n + 1]
    <3>1. a \in Seq(S) /\ Len(a) = Len(r) + 1 /\ a[Len(r) + 1] = q[n + 1]
          /\ \A k \in 1..Len(r) : a[k] = r[k]
      BY <2>1, <2>5
    <3>2. /\ h \in [1..Len(r) -> 1..n] /\ \A k \in 1..Len(r) : r[k] = q[h[k]] /\ q[h[k]] \in X
          /\ \A j, k \in 1..Len(r) : j < k => h[j] < h[k]
          /\ \A m \in 1..n : q[m] \in X => \E k \in 1..Len(r) : h[k] = m
      BY <2>4 DEF Places, r
    <3>3. /\ \A k \in 1..Len(r) : g[k] = h[k] /\ h[k] \in 1..n
          /\ g[Len(r) + 1] = n + 1 /\ g \in [1..(Len(r) + 1) -> 1..(n + 1)]
      <4>1. \A k \in 1..Len(r) : h[k] \in 1..n
        BY <3>2
      <4>2. \A k \in 1..Len(r) : g[k] = h[k]
        BY <2>5
      <4>3. g[Len(r) + 1] = n + 1
        BY <2>5
      <4>4. \A k \in 1..(Len(r) + 1) : g[k] \in 1..(n + 1)
        BY <4>1, <2>5
      <4>5. g \in [1..(Len(r) + 1) -> 1..(n + 1)]
        BY <4>4
      <4> HIDE DEF g
      <4> QED
        BY <4>1, <4>2, <4>3, <4>5
    <3> HIDE DEF a, g
    <3>4. \A k \in 1..(Len(r) + 1) : a[k] = q[g[k]] /\ q[g[k]] \in X
      BY <2>5, <2>7, <3>1, <3>2, <3>3
    <3>5. \A j, k \in 1..(Len(r) + 1) : j < k => g[j] < g[k]
      <4> SUFFICES ASSUME NEW j \in 1..(Len(r) + 1), NEW k \in 1..(Len(r) + 1), j < k PROVE g[j] < g[k]
        OBVIOUS
      <4>1. j \in 1..Len(r) /\ g[j] = h[j] /\ h[j] \in 1..n
        BY <2>5, <3>3
      <4>2. CASE k = Len(r) + 1
        BY <3>3, <4>1, <4>2
      <4>3. CASE k # Len(r) + 1
        <5>0. k \in 1..Len(r)
          BY <2>5, <4>3
        <5>1. k \in 1..Len(r) /\ g[k] = h[k]
          BY <3>3, <5>0
        <5>2. h[j] < h[k]
          BY <3>2, <4>1, <5>1
        <5> QED
          BY <4>1, <5>1, <5>2
      <4> QED
        BY <4>2, <4>3
    <3>6. ASSUME NEW m \in 1..(n + 1), q[m] \in X PROVE \E k \in 1..(Len(r) + 1) : g[k] = m
      <4>1. CASE m = n + 1
        BY <4>1, <3>3, <2>5
      <4>2. CASE m # n + 1
        <5>0. m \in 1..n /\ q[m] \in X
          BY <3>6, <4>2
        <5>1. PICK k \in 1..Len(r) : h[k] = m
          BY <3>2, <5>0 DEF Places
        <5> QED
          BY <5>1, <3>3, <2>5
      <4> QED
        BY <4>1, <4>2
    <3>7. Places(g, a, q, X, n + 1)
      BY <3>1, <3>3, <3>4, <3>5, <3>6 DEF Places
    <3> QED
      BY <2>3, <2>7, <3>1, <3>7 DEF a, r
  <2> QED
    BY <2>6, <2>7
<1>5. Len(q) \in N
  <2> HIDE DEF N
  <2> QED
    BY <1>3, <1>4, Climb
<1> QED
  BY <1>1, <1>5

\* It has what of X is in q, and each as often.
LEMMA ThoseOf ==
  ASSUME NEW S, NEW q \in Seq(S), NEW X
  PROVE  /\ Those(q, X) \in Seq(S) /\ Elems(Those(q, X)) = Elems(q) \intersect X
         /\ OneEach(q) => OneEach(Those(q, X))
<1> DEFINE r == Those(q, X)
<1>1. r \in Seq(S)
  BY ThosePlaces
<1>2. PICK h : Places(h, r, q, X, Len(q))
  BY ThosePlaces
<1> HIDE DEF r
<1>3. DOMAIN q = 1..Len(q) /\ DOMAIN r = 1..Len(r) /\ Len(r) \in Nat /\ Len(q) \in Nat
  BY <1>1
<1>4. Elems(r) = Elems(q) \intersect X
  <2>1. ASSUME NEW x \in Elems(r) PROVE x \in Elems(q) \intersect X
    BY <1>2, <1>3, <2>1 DEF Places, Elems
  <2>2. ASSUME NEW x \in Elems(q) \intersect X PROVE x \in Elems(r)
    <3>1. PICK m \in 1..Len(q) : x = q[m]
      BY <1>3 DEF Elems
    <3>2. PICK k \in 1..Len(r) : h[k] = m
      BY <1>2, <3>1 DEF Places
    <3>3. r[k] = x
      BY <1>2, <3>1, <3>2 DEF Places
    <3> QED
      BY <1>3, <3>3 DEF Elems
  <2> QED
    BY <2>1, <2>2
<1>5. ASSUME OneEach(q), NEW m \in DOMAIN r, NEW n \in DOMAIN r, r[m] = r[n] PROVE m = n
  <2>1. h[m] = h[n]
    BY <1>2, <1>3, <1>5 DEF Places, OneEach
  <2>2. ~(m < n) /\ ~(n < m)
    BY <1>2, <1>3, <2>1 DEF Places
  <2> QED
    BY <1>3, <2>2
<1> QED
  BY <1>1, <1>4, <1>5 DEF OneEach, r

LEMMA WithoutOf ==
  ASSUME NEW S, NEW q \in Seq(S), NEW X
  PROVE  /\ Without(q, X) \in Seq(S) /\ Elems(Without(q, X)) = Elems(q) \ X
         /\ OneEach(q) => OneEach(Without(q, X))
BY ThoseOf DEF Without

LEMMA AppendOf ==
  ASSUME NEW S, NEW q \in Seq(S), NEW i \in S
  PROVE  /\ Append(q, i) \in Seq(S) /\ Elems(Append(q, i)) = Elems(q) \union {i}
         /\ OneEach(q) /\ i \notin Elems(q) => OneEach(Append(q, i))
<1> DEFINE r == Append(q, i)
<1>1. /\ DOMAIN q = 1..Len(q) /\ DOMAIN r = 1..(Len(q) + 1) /\ Len(q) \in Nat /\ r \in Seq(S)
      /\ r[Len(q) + 1] = i /\ \A k \in 1..Len(q) : r[k] = q[k]
  OBVIOUS
<1> HIDE DEF r
<1>2. Elems(r) = Elems(q) \union {i}
  <2>1. ASSUME NEW x \in Elems(r) PROVE x \in Elems(q) \union {i}
    BY <1>1, <2>1 DEF Elems
  <2>2. ASSUME NEW x \in Elems(q) \union {i} PROVE x \in Elems(r)
    <3>1. CASE x = i
      BY <1>1, <3>1 DEF Elems
    <3>2. CASE x \in Elems(q)
      <4>1. PICK k \in 1..Len(q) : x = q[k]
        BY <1>1, <3>2 DEF Elems
      <4> QED
        BY <1>1, <4>1 DEF Elems
    <3> QED
      BY <3>1, <3>2
  <2> QED
    BY <2>1, <2>2
<1>3. ASSUME OneEach(q), i \notin Elems(q), NEW m \in DOMAIN r, NEW n \in DOMAIN r, r[m] = r[n] PROVE m = n
  <2>1. \A k \in 1..Len(q) : q[k] # i
    BY <1>1, <1>3 DEF Elems
  <2> QED
    BY <1>1, <1>3, <2>1 DEF OneEach
<1> QED
  BY <1>1, <1>2, <1>3 DEF OneEach, r

LEMMA JoinOf ==
  ASSUME NEW S, NEW q \in Seq(S), NEW r \in Seq(S)
  PROVE  /\ q \o r \in Seq(S) /\ Elems(q \o r) = Elems(q) \union Elems(r)
         /\ OneEach(q) /\ OneEach(r) /\ Elems(q) \intersect Elems(r) = {} => OneEach(q \o r)
<1> DEFINE j == q \o r
<1>1. /\ DOMAIN q = 1..Len(q) /\ DOMAIN r = 1..Len(r) /\ DOMAIN j = 1..(Len(q) + Len(r)) /\ j \in Seq(S)
      /\ Len(q) \in Nat /\ Len(r) \in Nat
      /\ \A k \in 1..Len(q) : j[k] = q[k]
  OBVIOUS
<1>2. \A k \in 1..(Len(q) + Len(r)) : k > Len(q) => j[k] = r[k - Len(q)]
  OBVIOUS
<1> HIDE DEF j
<1>3. \A k \in 1..Len(r) : j[Len(q) + k] = r[k]
  BY <1>1, <1>2
<1>4. Elems(j) = Elems(q) \union Elems(r)
  <2>1. ASSUME NEW x \in Elems(j) PROVE x \in Elems(q) \union Elems(r)
    <3>1. PICK k \in 1..(Len(q) + Len(r)) : x = j[k]
      BY <1>1, <2>1 DEF Elems
    <3>2. CASE k <= Len(q)
      BY <1>1, <3>1, <3>2 DEF Elems
    <3>3. CASE ~(k <= Len(q))
      <4>1. k - Len(q) \in 1..Len(r) /\ x = r[k - Len(q)]
        BY <1>1, <1>2, <3>1, <3>3
      <4> QED
        BY <4>1, <1>1 DEF Elems
    <3> QED
      BY <3>2, <3>3
  <2>2. ASSUME NEW k \in 1..Len(q) PROVE q[k] \in Elems(j)
    BY <1>1, <2>2 DEF Elems
  <2>3. ASSUME NEW k \in 1..Len(r) PROVE r[k] \in Elems(j)
    <3>1. Len(q) + k \in DOMAIN j /\ j[Len(q) + k] = r[k]
      BY <1>1, <1>3
    <3> QED
      BY <3>1 DEF Elems
  <2> QED
    BY <2>1, <2>2, <2>3, <1>1 DEF Elems
<1>5. ASSUME OneEach(q), OneEach(r), Elems(q) \intersect Elems(r) = {},
             NEW m \in DOMAIN j, NEW n \in DOMAIN j, j[m] = j[n]
      PROVE  m = n
  <2>1. \A x \in 1..Len(q), y \in 1..Len(r) : q[x] # r[y]
    BY <1>1, <1>5 DEF Elems
  <2>2. ASSUME NEW k \in DOMAIN j
        PROVE  \/ k \in 1..Len(q) /\ j[k] = q[k]
               \/ k \notin 1..Len(q) /\ k - Len(q) \in 1..Len(r) /\ j[k] = r[k - Len(q)]
    <3>1. k \in 1..(Len(q) + Len(r)) /\ k \in Int
      BY <1>1
    <3>2. CASE k <= Len(q)
      BY <1>1, <3>1, <3>2
    <3>3. CASE ~(k <= Len(q))
      <4>1. k > Len(q) /\ k - Len(q) \in 1..Len(r) /\ k \notin 1..Len(q)
        BY <1>1, <3>1, <3>3
      <4> QED
        BY <1>2, <3>1, <4>1
    <3> QED
      BY <3>2, <3>3
  <2>3. CASE m \in 1..Len(q)
    <3>1. j[m] = q[m]
      BY <1>1, <2>3
    <3>2. n \in 1..Len(q) /\ j[n] = q[n]
      BY <1>5, <2>1, <2>2, <2>3, <3>1
    <3> QED
      BY <1>1, <1>5, <2>3, <3>1, <3>2 DEF OneEach
  <2>4. CASE m \notin 1..Len(q)
    <3>1. m - Len(q) \in 1..Len(r) /\ j[m] = r[m - Len(q)]
      BY <2>2, <2>4
    <3>2. n - Len(q) \in 1..Len(r) /\ j[n] = r[n - Len(q)]
      BY <1>5, <2>1, <2>2, <3>1
    <3>3. m - Len(q) = n - Len(q)
      BY <1>1, <1>5, <3>1, <3>2 DEF OneEach
    <3> QED
      BY <1>1, <3>3
  <2> QED
    BY <2>3, <2>4
<1> QED
  BY <1>1, <1>4, <1>5 DEF OneEach, j

\* Wherever it goes in the list, an input is put in and nothing else changes.
LEMMA EnlistedOf ==
  ASSUME NEW S, NEW q \in Seq(S), NEW i \in S, NEW force \in BOOLEAN, NEW B
  PROVE  /\ Enlisted(q, i, force, B) \in Seq(S) /\ Elems(Enlisted(q, i, force, B)) = Elems(q) \union {i}
         /\ OneEach(q) /\ i \notin Elems(q) => OneEach(Enlisted(q, i, force, B))
<1> DEFINE after == {n \in DOMAIN q : q[n] \notin B}
           at == CHOOSE n \in after : \A o \in after : n <= o
<1>1. CASE ~(force /\ after # {})
  BY <1>1, AppendOf DEF Enlisted
<1>2. CASE force /\ after # {}
  <2>1. after \subseteq 1..Len(q) /\ after \subseteq Nat
    OBVIOUS
  <2>2. at \in after
    BY <1>2, <2>1, LeastOf
  <2> DEFINE u == SubSeq(q, 1, at - 1)
             v == SubSeq(q, at, Len(q))
  <2>3. Enlisted(q, i, force, B) = u \o <<i>> \o v
    BY <1>2 DEF Enlisted
  <2>4. at \in 1..Len(q)
    BY <2>1, <2>2
  <2> HIDE DEF at
  <2>5. /\ u \in Seq(S) /\ v \in Seq(S) /\ Len(u) = at - 1 /\ Len(v) = Len(q) - at + 1
        /\ \A k \in 1..(at - 1) : u[k] = q[k]
        /\ \A k \in 1..(Len(q) - at + 1) : v[k] = q[at + k - 1]
    BY <2>4
  <2> HIDE DEF u, v
  <2>6. /\ DOMAIN q = 1..Len(q) /\ DOMAIN u = 1..(at - 1) /\ DOMAIN v = 1..(Len(q) - at + 1)
        /\ Len(q) \in Nat
    BY <2>5, <2>4
  <2>7. Elems(u) \union Elems(v) = Elems(q)
    <3>1. ASSUME NEW k \in 1..Len(q) PROVE q[k] \in Elems(u) \union Elems(v)
      <4>1. CASE k < at
        <5>1. k \in 1..(at - 1) /\ u[k] = q[k]
          BY <2>4, <2>5, <4>1
        <5> QED
          BY <2>6, <5>1 DEF Elems
      <4>2. CASE ~(k < at)
        <5>1. k - at + 1 \in 1..(Len(q) - at + 1) /\ at + (k - at + 1) - 1 = k
          BY <2>4, <4>2
        <5>2. v[k - at + 1] = q[k]
          BY <2>5, <5>1
        <5> QED
          BY <2>6, <5>1, <5>2 DEF Elems
      <4> QED
        BY <4>1, <4>2
    <3>2. Elems(u) \subseteq Elems(q)
      BY <2>4, <2>5, <2>6 DEF Elems
    <3>3. ASSUME NEW k \in DOMAIN v PROVE v[k] \in Elems(q)
      <4>1. at + k - 1 \in DOMAIN q /\ v[k] = q[at + k - 1]
        BY <2>4, <2>5, <2>6
      <4> QED
        BY <4>1 DEF Elems
    <3> QED
      BY <3>1, <3>2, <3>3, <2>6 DEF Elems
  <2>8. ASSUME OneEach(q) PROVE OneEach(u) /\ OneEach(v) /\ Elems(u) \intersect Elems(v) = {}
    <3>1. \A m, n \in 1..Len(q) : q[m] = q[n] => m = n
      BY <2>8, <2>6 DEF OneEach
    <3>2. OneEach(u)
      BY <2>4, <2>5, <2>6, <3>1 DEF OneEach
    <3>3. OneEach(v)
      <4> SUFFICES ASSUME NEW m \in DOMAIN v, NEW n \in DOMAIN v, v[m] = v[n] PROVE m = n
        BY DEF OneEach
      <4>1. at + m - 1 \in 1..Len(q) /\ at + n - 1 \in 1..Len(q)
        BY <2>4, <2>6
      <4>3. v[m] = q[at + m - 1] /\ v[n] = q[at + n - 1]
        BY <2>5, <2>6
      <4>2. at + m - 1 = at + n - 1
        BY <3>1, <4>1, <4>3
      <4> QED
        BY <4>2, <2>4, <2>6
    <3>4. ASSUME NEW m \in DOMAIN u, NEW n \in DOMAIN v PROVE u[m] # v[n]
      <4>1. m \in 1..Len(q) /\ at + n - 1 \in 1..Len(q) /\ m < at + n - 1 /\ u[m] = q[m] /\ v[n] = q[at + n - 1]
        BY <2>4, <2>5, <2>6
      <4> QED
        BY <3>1, <4>1
    <3> QED
      BY <3>2, <3>3, <3>4 DEF Elems
  <2>9. <<i>> \in Seq(S) /\ Elems(<<i>>) = {i} /\ OneEach(<<i>>)
    <3>1. <<i>> \in Seq(S) /\ DOMAIN <<i>> = {1} /\ <<i>>[1] = i
      OBVIOUS
    <3> QED
      BY <3>1 DEF Elems, OneEach
  <2> DEFINE w == u \o <<i>>
  <2>10. /\ w \in Seq(S) /\ Elems(w) = Elems(u) \union {i}
         /\ OneEach(u) /\ i \notin Elems(u) => OneEach(w)
    <3>1. u \in Seq(S) /\ <<i>> \in Seq(S)
      BY <2>5, <2>9
    <3>2. /\ w \in Seq(S) /\ Elems(w) = Elems(u) \union Elems(<<i>>)
          /\ OneEach(u) /\ OneEach(<<i>>) /\ Elems(u) \intersect Elems(<<i>>) = {} => OneEach(w)
      BY <3>1, JoinOf
    <3> QED
      BY <2>9, <3>2
  <2> HIDE DEF w
  <2>11. /\ w \o v \in Seq(S) /\ Elems(w \o v) = Elems(w) \union Elems(v)
         /\ OneEach(w) /\ OneEach(v) /\ Elems(w) \intersect Elems(v) = {} => OneEach(w \o v)
    BY <2>5, <2>10, JoinOf
  <2>12. Enlisted(q, i, force, B) = w \o v
    BY <2>3 DEF w
  <2> QED
    BY <2>7, <2>8, <2>10, <2>11, <2>12
<1> QED
  BY <1>1, <1>2

-----------------------------------------------------------------------------
LEMMA NoGate == ASSUME NEW g, NEW c, NEW D PROVE Gated(NoOpening, g, c, D)
<1>1. <<>> \in Seq(Input) /\ Elems(<<>>) = {} /\ OneEach(<<>>)
  BY DEF Elems, OneEach
<1> QED
  BY <1>1 DEF Gated, NoOpening

LEMMA StillFits == ASSUME NEW s, NEW r, NEW D, Fits(s, D), Still(s, r) PROVE Fits(r, D)
BY NoGate DEF Fits, Still

LEMMA TellFits ==
  ASSUME NEW s, NEW D, Fits(s, D), NEW X, NEW what \in Words
  PROVE  /\ Fits(Tell(s, X, what), D) /\ Tell(s, X, what).plan = s.plan /\ Tell(s, X, what).talk = s.talk
         /\ Sent(Tell(s, X, what).lane.caller) = Sent(s.lane.caller) \union (X \intersect Input)
<1> DEFINE c == [i \in Input |-> IF i \in X THEN what ELSE s.lane.caller[i]]
           r == [s EXCEPT !.lane.caller = c]
<1>1. Shaped(s) /\ s.lane.caller \in [Input -> Words \union {"none"}]
  BY DEF Fits
<1>2. Tell(s, X, what) = r
  BY <1>1 DEF Tell, Shaped, LaneShaped
<1>3. what # "none"
  BY DEF Words, Hows
<1>4. c \in [Input -> Words \union {"none"}] /\ Sent(c) = Sent(s.lane.caller) \union (X \intersect Input)
  BY <1>1, <1>3 DEF Sent
<1> HIDE DEF c
<1>5. Shaped(r) /\ r.plan = s.plan /\ r.talk = s.talk /\ r.lane.caller = c /\ r.lane.tails = s.lane.tails
  BY <1>1 DEF Shaped, LaneShaped
<1> HIDE DEF r
<1>6. Listed(r.plan, c) /\ Gated(r.talk.opening, r.plan.gen, c, D)
  BY <1>4, <1>5 DEF Fits, Listed, Gated
<1>7. \A t \in Turn : TurnFits(r.talk.turn[t], r.plan, c, D)
  BY <1>4, <1>5 DEF Fits, TurnFits
<1> QED
  BY <1>2, <1>4, <1>5, <1>6, <1>7 DEF Fits

LEMMA TakeFits ==
  ASSUME NEW s, NEW D, Fits(s, D), NEW X
  PROVE  /\ Fits(Take(s, X), D) /\ Take(s, X).lane = s.lane /\ Take(s, X).talk = s.talk
         /\ Elems(Take(s, X).plan.pending) = Elems(s.plan.pending) \ X
         /\ Take(s, X).plan.heard = s.plan.heard /\ Take(s, X).plan.gen = s.plan.gen
<1> DEFINE q == Without(s.plan.pending, X)
           r == [s EXCEPT !.plan.pending = q, !.plan.forced = @ \ X]
<1>1. Shaped(s) /\ Listed(s.plan, s.lane.caller)
  BY DEF Fits
<1>2. q \in Seq(Input) /\ Elems(q) = Elems(s.plan.pending) \ X /\ OneEach(q)
  BY <1>1, WithoutOf DEF Listed
<1>3. Take(s, X) = r
  BY <1>1 DEF Take
<1> HIDE DEF q
<1>4. /\ Shaped(r) /\ r.lane = s.lane /\ r.talk = s.talk
      /\ r.plan = [s.plan EXCEPT !.pending = q, !.forced = @ \ X]
      /\ r.plan.pending = q /\ r.plan.forced = s.plan.forced \ X /\ r.plan.heard = s.plan.heard
      /\ r.plan.gen = s.plan.gen /\ r.plan.goal = s.plan.goal /\ r.plan.limit = s.plan.limit
      /\ r.plan.paused = s.plan.paused /\ r.plan.kept = s.plan.kept /\ r.plan.failures = s.plan.failures
  BY <1>1 DEF Shaped, PlanShaped
<1> HIDE DEF r
<1>5. Listed(r.plan, r.lane.caller)
  BY <1>1, <1>2, <1>4 DEF Listed
<1>6. \A t \in Turn : TurnFits(r.talk.turn[t], r.plan, r.lane.caller, D)
  BY <1>2, <1>4 DEF Fits, TurnFits
<1> QED
  BY <1>2, <1>3, <1>4, <1>5, <1>6 DEF Fits

\* What is not of the list may be set as its type has it.
LEMMA SetPlanFits ==
  ASSUME NEW s, NEW D, Fits(s, D)
  PROVE  /\ \A v \in {"none", "armed", "held"} : Fits([s EXCEPT !.plan.limit = v], D)
         /\ \A v \in BOOLEAN : Fits([s EXCEPT !.plan.paused = v], D)
         /\ \A v \in SUBSET Input : Fits([s EXCEPT !.plan.kept = v], D)
         /\ \A v \in 0..2 : Fits([s EXCEPT !.plan.failures = v], D)
<1>1. ASSUME NEW r, Shaped(r), r.lane = s.lane, r.talk = s.talk, r.plan.gen = s.plan.gen, r.plan.goal = s.plan.goal,
             r.plan.pending = s.plan.pending, r.plan.forced = s.plan.forced, r.plan.heard = s.plan.heard,
             r.plan.limit \in {"none", "armed", "held"}, r.plan.paused \in BOOLEAN,
             r.plan.kept \subseteq Input, r.plan.failures \in 0..2
      PROVE  Fits(r, D)
  BY <1>1 DEF Fits, Listed, TurnFits
<1>2. Shaped(s) /\ Listed(s.plan, s.lane.caller)
  BY DEF Fits
<1>3. ASSUME NEW v \in {"none", "armed", "held"} PROVE Fits([s EXCEPT !.plan.limit = v], D)
  <2> DEFINE r == [s EXCEPT !.plan.limit = v]
  <2>1. /\ Shaped(r) /\ r.lane = s.lane /\ r.talk = s.talk /\ r.plan.gen = s.plan.gen /\ r.plan.goal = s.plan.goal
        /\ r.plan.pending = s.plan.pending /\ r.plan.forced = s.plan.forced /\ r.plan.heard = s.plan.heard
        /\ r.plan.limit = v /\ r.plan.paused = s.plan.paused /\ r.plan.kept = s.plan.kept
        /\ r.plan.failures = s.plan.failures
    BY <1>2 DEF Shaped, PlanShaped
  <2> HIDE DEF r
  <2> QED
    BY <1>1, <1>2, <2>1 DEF Listed, r
<1>4. ASSUME NEW v \in BOOLEAN PROVE Fits([s EXCEPT !.plan.paused = v], D)
  <2> DEFINE r == [s EXCEPT !.plan.paused = v]
  <2>1. /\ Shaped(r) /\ r.lane = s.lane /\ r.talk = s.talk /\ r.plan.gen = s.plan.gen /\ r.plan.goal = s.plan.goal
        /\ r.plan.pending = s.plan.pending /\ r.plan.forced = s.plan.forced /\ r.plan.heard = s.plan.heard
        /\ r.plan.limit = s.plan.limit /\ r.plan.paused = v /\ r.plan.kept = s.plan.kept
        /\ r.plan.failures = s.plan.failures
    BY <1>2 DEF Shaped, PlanShaped
  <2> HIDE DEF r
  <2> QED
    BY <1>1, <1>2, <2>1 DEF Listed, r
<1>5. ASSUME NEW v \in SUBSET Input PROVE Fits([s EXCEPT !.plan.kept = v], D)
  <2> DEFINE r == [s EXCEPT !.plan.kept = v]
  <2>1. /\ Shaped(r) /\ r.lane = s.lane /\ r.talk = s.talk /\ r.plan.gen = s.plan.gen /\ r.plan.goal = s.plan.goal
        /\ r.plan.pending = s.plan.pending /\ r.plan.forced = s.plan.forced /\ r.plan.heard = s.plan.heard
        /\ r.plan.limit = s.plan.limit /\ r.plan.paused = s.plan.paused /\ r.plan.kept = v
        /\ r.plan.failures = s.plan.failures
    BY <1>2 DEF Shaped, PlanShaped
  <2> HIDE DEF r
  <2> QED
    BY <1>1, <1>2, <2>1 DEF Listed, r
<1>6. ASSUME NEW v \in 0..2 PROVE Fits([s EXCEPT !.plan.failures = v], D)
  <2> DEFINE r == [s EXCEPT !.plan.failures = v]
  <2>1. /\ Shaped(r) /\ r.lane = s.lane /\ r.talk = s.talk /\ r.plan.gen = s.plan.gen /\ r.plan.goal = s.plan.goal
        /\ r.plan.pending = s.plan.pending /\ r.plan.forced = s.plan.forced /\ r.plan.heard = s.plan.heard
        /\ r.plan.limit = s.plan.limit /\ r.plan.paused = s.plan.paused /\ r.plan.kept = s.plan.kept
        /\ r.plan.failures = v
    BY <1>2 DEF Shaped, PlanShaped
  <2> HIDE DEF r
  <2> QED
    BY <1>1, <1>2, <2>1 DEF Listed, r
<1> QED
  BY <1>3, <1>4, <1>5, <1>6

\* Fields of the lane and of the conversation that say nothing of an input.
LEMMA SetRestFits ==
  ASSUME NEW s, NEW D, Fits(s, D), NEW v
  PROVE  /\ Fits([s EXCEPT !.lane.detecting = v], D) /\ Fits([s EXCEPT !.lane.awaitingSlot = v], D)
         /\ Fits([s EXCEPT !.lane.quiet = v], D) /\ Fits([s EXCEPT !.lane.restored = v], D)
         /\ Fits([s EXCEPT !.lane.reportWake = v], D) /\ Fits([s EXCEPT !.lane.withdrawn = v], D)
         /\ Fits([s EXCEPT !.lane.asked = v], D)
         /\ v \in Turn \union {None} => Fits([s EXCEPT !.lane.running = v], D) /\ Fits([s EXCEPT !.talk.live = v], D)
         /\ Fits([s EXCEPT !.talk.room = v], D) /\ Fits([s EXCEPT !.talk.known = v], D)
         /\ Fits([s EXCEPT !.talk.moved = v], D) /\ Fits([s EXCEPT !.talk.opening = NoOpening], D)
         /\ v \in BOOLEAN => Fits([s EXCEPT !.talk.lease = v], D) /\ Fits([s EXCEPT !.talk.able = v], D)
<1>1. Shaped(s)
  BY DEF Fits
<1>2. Still(s, [s EXCEPT !.lane.detecting = v]) /\ Still(s, [s EXCEPT !.lane.awaitingSlot = v])
      /\ Still(s, [s EXCEPT !.lane.quiet = v]) /\ Still(s, [s EXCEPT !.lane.restored = v])
      /\ Still(s, [s EXCEPT !.lane.reportWake = v]) /\ Still(s, [s EXCEPT !.lane.withdrawn = v])
      /\ Still(s, [s EXCEPT !.lane.asked = v])
  BY <1>1 DEF Still, Shaped, LaneShaped
<1>3. v \in Turn \union {None} => Still(s, [s EXCEPT !.lane.running = v]) /\ Still(s, [s EXCEPT !.talk.live = v])
  BY <1>1 DEF Still, Shaped, LaneShaped, TalkShaped
<1>4. Still(s, [s EXCEPT !.talk.room = v]) /\ Still(s, [s EXCEPT !.talk.known = v]) /\ Still(s, [s EXCEPT !.talk.moved = v])
  BY <1>1 DEF Still, Shaped, TalkShaped
<1>5. Still(s, [s EXCEPT !.talk.opening = NoOpening])
  BY <1>1 DEF Still, Shaped, TalkShaped, NoOpening
<1>6. v \in BOOLEAN => Still(s, [s EXCEPT !.talk.lease = v]) /\ Still(s, [s EXCEPT !.talk.able = v])
  BY <1>1 DEF Still, Shaped, TalkShaped
<1> QED
  BY <1>2, <1>3, <1>4, <1>5, <1>6, StillFits

LEMMA DropWithdrawnFits ==
  ASSUME NEW s, NEW D, Fits(s, D)
  PROVE  Fits(DropWithdrawn(s), D) /\ DropWithdrawn(s).talk = s.talk
<1> DEFINE gone == Waiting(s, Elems(s.plan.pending) \intersect s.lane.withdrawn)
           q == Take(s, gone)
<1>1. Fits(q, D) /\ q.talk = s.talk
  BY TakeFits
<1>2. "stopped" \in Words
  BY DEF Words, Hows
<1>3. DropWithdrawn(s) = Tell(q, gone, "stopped")
  BY DEF DropWithdrawn
<1> HIDE DEF gone, q
<1> QED
  BY <1>1, <1>2, <1>3, TellFits

LEMMA RefuseFits == ASSUME NEW s, NEW D, Fits(s, D) PROVE Fits(Refuse(s), D) /\ Refuse(s).talk = s.talk
<1> DEFINE waiting == Waiting(s, Elems(s.plan.pending))
           q == Take(s, waiting \intersect User)
<1>1. Fits(q, D) /\ q.talk = s.talk
  BY TakeFits
<1>2. "refused" \in Words
  BY DEF Words, Hows
<1>3. Refuse(s) = Tell(q, waiting, "refused")
  BY DEF Refuse
<1> HIDE DEF waiting, q
<1> QED
  BY <1>1, <1>2, <1>3, TellFits

\* A turn takes what waits and nothing else.
LEMMA LiveBatchOf ==
  ASSUME NEW s, s.plan.pending \in Seq(Input)
  PROVE  LiveBatch(s) \subseteq Elems(s.plan.pending)
<1> DEFINE q == s.plan.pending
<1>1. \A r \in BOOLEAN : Elems(Group(s, r)) \subseteq Elems(q)
  BY ThoseOf DEF Group
<1>2. WakeUps(s) \subseteq Elems(q)
  BY <1>1 DEF WakeUps
<1>3. q # <<>> => Head(q) \in Elems(q)
  <2>1. q # <<>> => 1 \in DOMAIN q /\ Head(q) = q[1]
    OBVIOUS
  <2> QED
    BY <2>1 DEF Elems
<1> QED
  BY <1>2, <1>3 DEF LiveBatch

\* A turn takes only what was sent, and an opening what is nowhere else.
LEMMA ClaimedFits ==
  ASSUME NEW s, NEW D, Fits(s, D), FreeTurns(s) # {}, NEW k \in {"reply", "opening", "compaction"},
         NEW ids \in SUBSET Sent(s.lane.caller), NEW retry \in BOOLEAN,
         k = "opening" => /\ "goal" \in D
                          /\ \E g \in Input : ids = {g} /\ g \notin Elems(s.plan.pending) \union s.plan.heard
  PROVE  /\ Fits(Claimed(s, k, ids, retry), D) /\ NextTurn(s) \in Turn
         /\ Claimed(s, k, ids, retry).talk.opening = s.talk.opening
<1> DEFINE t == NextTurn(s)
           n == [Idle EXCEPT !.at = "talking", !.kind = k, !.gen = s.plan.gen, !.ids = ids,
                             !.retry = retry, !.hold = k = "reply"]
           w == WithSlot(s)
           c == [w EXCEPT !.talk.live = t, !.talk.turn[t] = n]
<1>1. Shaped(s) /\ s.plan.gen \in Nat
  BY DEF Fits, Shaped, PlanShaped
<1>2. TurnIsRecord(n) /\ n.ids = ids /\ n.kind = k /\ ~n.checking
  BY <1>1 DEF Idle, TurnIsRecord
<1>3. /\ Shaped(w) /\ w.plan = s.plan /\ w.lane = s.lane /\ w.talk.turn = s.talk.turn
      /\ w.talk.opening = s.talk.opening
  BY <1>1, WithSlotSays
<1>4. t \in Turn
  BY <1>1, NextTurnIsFree
<1>5. Claimed(s, k, ids, retry) = c
  BY DEF Claimed
<1> HIDE DEF t, n, w
<1>6. /\ Shaped(c) /\ c.plan = s.plan /\ c.lane = s.lane /\ c.talk.opening = s.talk.opening
      /\ c.talk.turn = [s.talk.turn EXCEPT ![t] = n]
  BY <1>2, <1>3, <1>4 DEF Shaped, TalkShaped
<1> HIDE DEF c
<1>7. TurnFits(n, s.plan, s.lane.caller, D)
  BY <1>2 DEF TurnFits
<1>8. ASSUME NEW u \in Turn PROVE TurnFits(c.talk.turn[u], s.plan, s.lane.caller, D)
  <2>1. c.talk.turn[u] = IF u = t THEN n ELSE s.talk.turn[u]
    BY <1>1, <1>4, <1>6 DEF Shaped, TalkShaped
  <2> QED
    BY <1>7, <2>1 DEF Fits
<1> QED
  BY <1>4, <1>5, <1>6, <1>8 DEF Fits, t

LEMMA RunFits ==
  ASSUME NEW s, NEW D, Fits(s, D), FreeTurns(s) # {},
         NEW ids \in SUBSET Sent(s.lane.caller), NEW retry \in BOOLEAN
  PROVE  Fits(Run(s, ids, retry), D) /\ Run(s, ids, retry).talk.opening = s.talk.opening
<1> DEFINE c == Claimed(s, "reply", ids, retry)
<1>1. Fits(c, D) /\ NextTurn(s) \in Turn /\ c.talk.opening = s.talk.opening
  BY ClaimedFits
<1>2. Run(s, ids, retry) = [c EXCEPT !.lane.running = NextTurn(s)]
  BY DEF Run
<1> DEFINE t == NextTurn(s)
<1> HIDE DEF c, t
<1>3. t \in Turn \union {None}
  BY <1>1 DEF t
<1>4. Fits([c EXCEPT !.lane.running = t], D) /\ [c EXCEPT !.lane.running = t].talk = c.talk
  <2>1. [c EXCEPT !.lane.running = t].talk = c.talk
    BY <1>1 DEF Fits, Shaped
  <2> QED
    BY <1>1, <1>3, <2>1, SetRestFits
<1> QED
  BY <1>1, <1>2, <1>4 DEF t

LEMMA PumpFits == ASSUME NEW s, NEW D, Fits(s, D) PROVE Fits(Pump(s), D) /\ Pump(s).talk.opening = s.talk.opening
<1> DEFINE q == DropWithdrawn(s)
           batch == LiveBatch(q)
           a == [q EXCEPT !.lane.awaitingSlot = FALSE]
<1>1. Fits(q, D) /\ q.talk = s.talk
  BY DropWithdrawnFits
<1>2. Pump(s) \in {s, q, [q EXCEPT !.lane.detecting = TRUE], Refuse(q), [q EXCEPT !.lane.awaitingSlot = TRUE]}
      \/ (Due(s) /\ Pump(s) = Run(a, batch, FALSE))
  BY DEF Pump
<1>3. batch \subseteq Sent(q.lane.caller)
  <2> HIDE DEF q
  <2> QED
    BY <1>1, LiveBatchOf DEF Fits, Listed
<1>4. q.lane.running = s.lane.running
  <2>1. Shaped(s)
    BY DEF Fits
  <2>2. Alike(s, q)
    BY <2>1, AlikeSelf, DropWithdrawnAlike
  <2> QED
    BY <2>2 DEF Alike, SameTurns
<1> HIDE DEF q, batch
<1>5. Fits(a, D) /\ a.lane.caller = q.lane.caller /\ a.talk = q.talk /\ a.lane.running = q.lane.running
  <2>1. Shaped(q)
    BY <1>1 DEF Fits
  <2>2. a.lane.caller = q.lane.caller /\ a.talk = q.talk /\ a.lane.running = q.lane.running
    BY <2>1 DEF Shaped, LaneShaped
  <2> HIDE DEF a
  <2>3. Fits(a, D)
    BY <1>1, SetRestFits DEF a
  <2> QED
    BY <2>2, <2>3
<1>6. Due(s) => Fits(Run(a, batch, FALSE), D) /\ Run(a, batch, FALSE).talk.opening = a.talk.opening
  <2>1. Due(s) => FreeTurns(a) # {}
    BY <1>1, <1>4, <1>5 DEF Due, FreeTurns
  <2> HIDE DEF a
  <2> QED
    BY <1>3, <1>5, <2>1, RunFits
<1>7. Fits([q EXCEPT !.lane.detecting = TRUE], D) /\ Fits([q EXCEPT !.lane.awaitingSlot = TRUE], D) /\ Fits(Refuse(q), D)
  BY <1>1, SetRestFits, RefuseFits
<1>8. [q EXCEPT !.lane.detecting = TRUE].talk = q.talk /\ [q EXCEPT !.lane.awaitingSlot = TRUE].talk = q.talk
      /\ Refuse(q).talk = q.talk
  <2>1. Shaped(q)
    BY <1>1 DEF Fits
  <2> QED
    BY <1>1, <2>1, RefuseFits DEF Shaped
<1> HIDE DEF a
<1> QED
  BY <1>1, <1>2, <1>5, <1>6, <1>7, <1>8

-----------------------------------------------------------------------------
\* A message or a wake-up is taken in, sent by nobody before.
LEMMA AdmitFits ==
  ASSUME NEW s, NEW D, Fits(s, D), NEW i \in Input, i \notin Sent(s.lane.caller),
         NEW force \in BOOLEAN, force => i \in User
  PROVE  Fits(Admit(s, i, force), D) /\ Fits(Admitted(s, i, force), D)
<1> DEFINE l == Lifted(s)
           e == Enlisted(l.plan.pending, i, force, s.plan.forced \union Taken(s))
           f == IF force THEN l.plan.forced \union {i} ELSE l.plan.forced
           q == [l EXCEPT !.lane.restored = FALSE, !.lane.quiet = FALSE, !.lane.asked = TRUE,
                          !.plan.pending = e, !.plan.forced = f]
           w == IF i \in User /\ (Holds(q) \/ q.plan.paused) THEN "kept" ELSE "waiting"
           r == Tell(q, {i}, w)
<1>1. Fits(l, D) /\ l.lane = s.lane /\ l.talk = s.talk
  <2>1. Fits([s EXCEPT !.plan.limit = "none"], D)
    BY SetPlanFits
  <2>2. Shaped(s)
    BY DEF Fits
  <2>3. l \in {s, [s EXCEPT !.plan.limit = "none"]}
    BY DEF Lifted
  <2>4. [s EXCEPT !.plan.limit = "none"].lane = s.lane /\ [s EXCEPT !.plan.limit = "none"].talk = s.talk
    BY <2>2 DEF Shaped
  <2> QED
    BY <2>1, <2>3, <2>4
<1> HIDE DEF l
<1>2. Shaped(l) /\ Listed(l.plan, l.lane.caller) /\ l.lane.caller \in [Input -> Words \union {"none"}]
  BY <1>1 DEF Fits
<1>3. i \notin Elems(l.plan.pending) /\ i \notin l.plan.heard
  BY <1>1, <1>2 DEF Listed
<1>4. e \in Seq(Input) /\ Elems(e) = Elems(l.plan.pending) \union {i} /\ OneEach(e)
  BY <1>2, <1>3, EnlistedOf DEF Listed
<1>5. f \subseteq User \intersect Elems(e)
  BY <1>2, <1>4 DEF Listed
<1> HIDE DEF e, f
<1>6. /\ Shaped(q) /\ q.lane.caller = l.lane.caller /\ q.lane.tails = l.lane.tails /\ q.talk = l.talk
      /\ q.plan.pending = e /\ q.plan.forced = f /\ q.plan.heard = l.plan.heard /\ q.plan.gen = l.plan.gen
      /\ q.plan.goal = l.plan.goal /\ q.plan.limit = l.plan.limit /\ q.plan.paused = l.plan.paused
      /\ q.plan.kept = l.plan.kept /\ q.plan.failures = l.plan.failures
  BY <1>2, ZenonT(60) DEF Shaped, PlanShaped, LaneShaped
<1>7. w \in Words /\ w # "none"
  BY DEF Words, Hows
<1> HIDE DEF q, w
<1> DEFINE c == [j \in Input |-> IF j \in {i} THEN w ELSE l.lane.caller[j]]
<1>8. c \in [Input -> Words \union {"none"}] /\ Sent(c) = Sent(l.lane.caller) \union {i}
  BY <1>2, <1>7 DEF Sent
<1>9. /\ Shaped(r) /\ r.lane.caller = c /\ r.lane.tails = l.lane.tails /\ r.talk = l.talk /\ r.plan = q.plan
  <2>1. r = [q EXCEPT !.lane.caller = c]
    BY <1>6 DEF Tell, Shaped, LaneShaped
  <2> HIDE DEF c, r
  <2> QED
    BY <1>6, <2>1 DEF Shaped, LaneShaped
<1> HIDE DEF r, c
<1>10. Listed(r.plan, r.lane.caller)
  BY <1>2, <1>3, <1>4, <1>5, <1>6, <1>8, <1>9 DEF Listed
<1>11. Gated(r.talk.opening, r.plan.gen, r.lane.caller, D)
  BY <1>1, <1>6, <1>8, <1>9 DEF Gated, Fits
<1>12. ASSUME NEW t \in Turn PROVE TurnFits(r.talk.turn[t], r.plan, r.lane.caller, D)
  <2>1. TurnFits(l.talk.turn[t], l.plan, l.lane.caller, D)
    BY <1>1 DEF Fits
  <2>2. \A g \in l.talk.turn[t].ids : g # i
    BY <2>1, <1>1 DEF TurnFits
  <2>3. r.talk.turn[t] = l.talk.turn[t] /\ r.lane.caller = c /\ r.plan.heard = l.plan.heard
        /\ Elems(r.plan.pending) = Elems(l.plan.pending) \union {i}
    BY <1>4, <1>6, <1>9
  <2> QED
    BY <2>1, <2>2, <2>3, <1>8 DEF TurnFits
<1>13. Fits(r, D)
  BY <1>1, <1>8, <1>9, <1>10, <1>11, <1>12 DEF Fits
<1>14. Admit(s, i, force) = Pump(r) /\ Admitted(s, i, force) = r
  BY <1>1 DEF Admit, Admitted, r, w, q, f, e, l
<1> QED
  BY <1>13, <1>14, PumpFits

LEMMA EndWaitingFits ==
  ASSUME NEW s, NEW D, Fits(s, D), NEW why \in Words
  PROVE  LET r == EndWaiting(s, why)
         IN  /\ Fits(r, D) /\ r.plan = s.plan /\ r.talk.turn = s.talk.turn /\ r.talk.live = s.talk.live
             /\ r.talk.opening.at \notin {"probe", "slot"}
             /\ Sent(s.lane.caller) \subseteq Sent(r.lane.caller)
             /\ Sent(r.lane.caller) \ Sent(s.lane.caller) = {}
<1> DEFINE X == Elems(s.talk.opening.held) \union {s.talk.opening.input}
           q == Tell(s, X, why)
           n == [q EXCEPT !.talk.opening = NoOpening]
<1>1. CASE s.talk.opening.at \notin {"probe", "slot"}
  BY <1>1 DEF EndWaiting
<1>2. CASE s.talk.opening.at \in {"probe", "slot"}
  <2>1. X \subseteq Sent(s.lane.caller)
    BY <1>2 DEF Fits, Gated
  <2>2. Fits(q, D) /\ q.plan = s.plan /\ q.talk = s.talk
        /\ Sent(q.lane.caller) = Sent(s.lane.caller) \union (X \intersect Input)
    <3> HIDE DEF X
    <3> QED
      BY TellFits
  <2>7. Sent(q.lane.caller) = Sent(s.lane.caller)
    <3> HIDE DEF X, q
    <3> QED
      BY <2>1, <2>2
  <2>3. EndWaiting(s, why) = n
    BY <1>2 DEF EndWaiting
  <2> HIDE DEF q
  <2>4. Shaped(q)
    BY <2>2 DEF Fits
  <2>5. n.plan = q.plan /\ n.lane = q.lane /\ n.talk.turn = q.talk.turn /\ n.talk.live = q.talk.live
        /\ n.talk.opening.at = "none"
    BY <2>4 DEF Shaped, TalkShaped, NoOpening
  <2>6. Fits(n, D)
    BY <2>2, SetRestFits
  <2> HIDE DEF n
  <2> QED
    BY <2>2, <2>3, <2>5, <2>6, <2>7
<1> QED
  BY <1>1, <1>2

LEMMA StopQueuedFits == ASSUME NEW s, NEW D, Fits(s, D) PROVE Fits(StopQueued(s), D)
<1>1. "stopped" \in Words
  BY DEF Words, Hows
<1>2. ASSUME NEW X, NEW a, NEW b
      PROVE  Fits([Tell(Take(s, X), X, "stopped") EXCEPT !.lane.asked = a, !.lane.quiet = @ \/ b], D)
  <2> DEFINE k == Take(s, X)
             q == Tell(k, X, "stopped")
             m == [q EXCEPT !.lane.asked = a]
             r == [m EXCEPT !.lane.quiet = @ \/ b]
  <2>1. Fits(k, D)
    BY TakeFits
  <2> HIDE DEF k
  <2>2. Fits(q, D)
    BY <1>1, <2>1, TellFits
  <2> HIDE DEF q
  <2>3. Fits(m, D)
    BY <2>2, SetRestFits
  <2> HIDE DEF m
  <2>4. Fits(r, D)
    BY <2>3, SetRestFits
  <2> QED
    BY <2>4, Zenon DEF m, q, k
<1>3. Fits(DropPause(s), D)
  <2> DEFINE X == Elems(s.plan.pending) \intersect User
             k == Take(s, X)
             q1 == Tell(k, X, "stopped")
             q2 == [q1 EXCEPT !.plan.paused = FALSE]
             q3 == [q2 EXCEPT !.plan.kept = {}]
             q4 == [q3 EXCEPT !.lane.asked = FALSE]
             q5 == [q4 EXCEPT !.lane.quiet = @ \/ Elems(s.plan.pending) # X]
  <2>1. Fits(k, D)
    BY TakeFits
  <2> HIDE DEF k
  <2>2. Fits(q1, D)
    BY <1>1, <2>1, TellFits
  <2> HIDE DEF q1
  <2>3. Fits(q2, D)
    BY <2>2, SetPlanFits
  <2> HIDE DEF q2
  <2>4. Fits(q3, D)
    BY <2>3, SetPlanFits
  <2> HIDE DEF q3
  <2>5. Fits(q4, D)
    BY <2>4, SetRestFits
  <2> HIDE DEF q4
  <2>6. Fits(q5, D)
    BY <2>5, SetRestFits
  <2>7. DropPause(s) = q5
    <3>1. Shaped(q1)
      BY <2>2 DEF Fits
    <3>2. DropPause(s) = [q1 EXCEPT !.plan.paused = FALSE, !.plan.kept = {}, !.lane.asked = FALSE,
                                    !.lane.quiet = @ \/ Elems(s.plan.pending) # X]
      BY DEF DropPause, q1, k
    <3> HIDE DEF X
    <3> QED
      BY <3>1, <3>2 DEF Shaped, PlanShaped, LaneShaped, q4, q3, q2
  <2> QED
    BY <2>6, <2>7
<1> QED
  BY <1>2, <1>3, Zenon DEF StopQueued

-----------------------------------------------------------------------------
\* A turn's record is replaced by one that was told no more.
LEMMA PutFits ==
  ASSUME NEW s, NEW D, Fits(s, D), NEW t \in Turn, NEW n, TurnIsRecord(n),
         n.ids \subseteq s.talk.turn[t].ids, n.checking => s.talk.turn[t].checking \/ "check" \in D,
         n.kind = "opening" /\ n.at = "talking" /\ ~n.dropped =>
             /\ n.ids = s.talk.turn[t].ids /\ s.talk.turn[t].kind = "opening"
             /\ s.talk.turn[t].at = "talking" /\ ~s.talk.turn[t].dropped
  PROVE  Fits([s EXCEPT !.talk.turn[t] = n], D)
<1> DEFINE r == [s EXCEPT !.talk.turn[t] = n]
<1>1. Shaped(s)
  BY DEF Fits
<1>2. ButTurn(s, r, t) /\ r.talk.turn[t] = n
  BY <1>1, PutTurn
<1> HIDE DEF r
<1>3. TurnFits(s.talk.turn[t], s.plan, s.lane.caller, D)
  BY DEF Fits
<1>4. TurnFits(n, s.plan, s.lane.caller, D)
  BY <1>3 DEF TurnFits
<1>5. ASSUME NEW u \in Turn PROVE TurnFits(r.talk.turn[u], s.plan, s.lane.caller, D)
  BY <1>2, <1>4 DEF Fits, ButTurn
<1>6. Fits(r, D)
  BY <1>2, <1>5 DEF Fits, ButTurn
<1> QED
  BY <1>6 DEF r

LEMMA FlagFits ==
  ASSUME NEW s, NEW D, Fits(s, D), NEW t \in Turn, NEW b \in BOOLEAN
  PROVE  /\ Fits([s EXCEPT !.talk.turn[t].aborted = b], D) /\ Fits([s EXCEPT !.talk.turn[t].forceStopped = b], D)
         /\ Fits([s EXCEPT !.talk.turn[t].late = b], D) /\ Fits([s EXCEPT !.talk.turn[t].hold = FALSE], D)
         /\ Fits([s EXCEPT !.talk.turn[t].dropped = TRUE], D) /\ Fits([s EXCEPT !.talk.turn[t].kind = "hung"], D)
         /\ (b => "check" \in D) => Fits([s EXCEPT !.talk.turn[t].checking = b], D)
<1> DEFINE o == s.talk.turn[t]
           Put(n) == [s EXCEPT !.talk.turn[t] = n]
           Less(n) == /\ TurnIsRecord(n) /\ n.ids = o.ids /\ n.at = o.at /\ n.checking = o.checking
                      /\ n.kind \in {o.kind, "hung"} /\ (o.dropped => n.dropped)
           n1 == [o EXCEPT !.aborted = b]
           n2 == [o EXCEPT !.forceStopped = b]
           n3 == [o EXCEPT !.late = b]
           n4 == [o EXCEPT !.hold = FALSE]
           n5 == [o EXCEPT !.dropped = TRUE]
           n6 == [o EXCEPT !.kind = "hung"]
           n7 == [o EXCEPT !.checking = b]
<1>0. TurnIsRecord(o)
  BY DEF Fits, Shaped, TalkShaped
<1>1. Less(n1) /\ Less(n2) /\ Less(n3)
  BY <1>0 DEF TurnIsRecord
<1>2. Less(n4) /\ Less(n5) /\ Less(n6)
  BY <1>0 DEF TurnIsRecord
<1>3. TurnIsRecord(n7) /\ n7.ids = o.ids /\ n7.at = o.at /\ n7.kind = o.kind /\ n7.dropped = o.dropped /\ n7.checking = b
  BY <1>0 DEF TurnIsRecord
<1>4. /\ [s EXCEPT !.talk.turn[t].aborted = b] = Put(n1) /\ [s EXCEPT !.talk.turn[t].forceStopped = b] = Put(n2)
      /\ [s EXCEPT !.talk.turn[t].late = b] = Put(n3) /\ [s EXCEPT !.talk.turn[t].hold = FALSE] = Put(n4)
      /\ [s EXCEPT !.talk.turn[t].dropped = TRUE] = Put(n5) /\ [s EXCEPT !.talk.turn[t].kind = "hung"] = Put(n6)
      /\ [s EXCEPT !.talk.turn[t].checking = b] = Put(n7)
  OBVIOUS
<1> HIDE DEF n1, n2, n3, n4, n5, n6, n7
<1>5. ASSUME NEW n, Less(n) PROVE Fits(Put(n), D)
  <2> HIDE DEF Put
  <2>1. n.kind = "opening" => o.kind = "opening"
    BY <1>5
  <2> QED
    BY <1>5, <2>1, PutFits DEF Put
<1>6. (b => "check" \in D) => Fits(Put(n7), D)
  BY <1>3, PutFits
<1>7. Fits(Put(n1), D) /\ Fits(Put(n2), D) /\ Fits(Put(n3), D)
  BY <1>1, <1>5
<1>8. Fits(Put(n4), D) /\ Fits(Put(n5), D) /\ Fits(Put(n6), D)
  BY <1>2, <1>5
<1> HIDE DEF Put, Less
<1> QED
  BY <1>4, <1>6, <1>7, <1>8

LEMMA StopLiveFits ==
  ASSUME NEW s, NEW D, Fits(s, D)
  PROVE  Fits(StopLive(s), D)
<1>1. s.talk.live \in Turn \union {None}
  BY DEF Fits, Shaped, TalkShaped
<1> QED
  BY <1>1, FlagFits DEF StopLive

LEMMA EndTurnLeaseFits ==
  ASSUME NEW s, NEW D, Fits(s, D), NEW free
  PROVE  /\ Fits(EndTurnLease(s, free), D) /\ EndTurnLease(s, free).plan = s.plan
         /\ EndTurnLease(s, free).lane = s.lane /\ EndTurnLease(s, free).talk.opening = s.talk.opening
<1> DEFINE k == [s EXCEPT !.talk.lease = FALSE]
           r == [k EXCEPT !.talk.room = free]
<1>1. Fits(k, D)
  BY SetRestFits
<1>2. Fits(r, D)
  <2> HIDE DEF k
  <2> QED
    BY <1>1, SetRestFits
<1>3. Shaped(s)
  BY DEF Fits
<1>4. EndTurnLease(s, free).plan = s.plan /\ EndTurnLease(s, free).lane = s.lane
      /\ EndTurnLease(s, free).talk.opening = s.talk.opening
  BY <1>3, EndTurnLeaseSays
<1>5. EndTurnLease(s, free) \in {s, r}
  BY DEF EndTurnLease
<1> HIDE DEF r
<1> QED
  BY <1>2, <1>4, <1>5

LEMMA DropFits == ASSUME NEW s, NEW D, Fits(s, D) PROVE Fits(Drop(s), D)
<1> DEFINE l == s.talk.live
           p == [s EXCEPT !.talk.live = None]
           o == [p EXCEPT !.talk.turn[l].dropped = TRUE]
           k == [o EXCEPT !.talk.turn[l].aborted = TRUE]
<1>1. l \in Turn \union {None}
  BY DEF Fits, Shaped, TalkShaped
<1>2. Fits(p, D)
  <2>1. None \in Turn \union {None}
    OBVIOUS
  <2> QED
    BY <2>1, SetRestFits
<1>3. l # None => Drop(s) = IF s.lane.running = None THEN EndTurnLease(k, TRUE) ELSE k
  BY DEF Drop
<1> HIDE DEF p
<1>4. l # None => Fits(o, D)
  BY <1>1, <1>2, FlagFits
<1> HIDE DEF o
<1>5. l # None => Fits(k, D)
  BY <1>1, <1>4, FlagFits
<1> HIDE DEF k
<1>6. l # None => Fits(EndTurnLease(k, TRUE), D)
  BY <1>5, EndTurnLeaseFits
<1>7. l = None => Drop(s) = s
  BY DEF Drop
<1> QED
  BY <1>3, <1>5, <1>6, <1>7

LEMMA AbandonFits == ASSUME NEW s, NEW D, Fits(s, D) PROVE Fits(Abandon(s), D) /\ Abandon(s).plan = s.plan
<1> DEFINE k == IF s.lane.running = None THEN s ELSE [s EXCEPT !.talk.turn[s.lane.running].hold = FALSE]
           e == EndTurnLease(k, TRUE)
           X == Waiting(s, Elems(s.plan.pending) \union Taken(s))
           f == Tell(e, X, "discarded")
           g1 == [f EXCEPT !.lane.running = None]
           g2 == [g1 EXCEPT !.lane.quiet = FALSE]
           g3 == [g2 EXCEPT !.lane.restored = FALSE]
           g4 == [g3 EXCEPT !.lane.reportWake = FALSE]
<1>1. s.lane.running \in Turn \union {None}
  BY DEF Fits, Shaped, LaneShaped
<1>2. Fits(k, D) /\ k.plan = s.plan
  <2>1. CASE s.lane.running = None
    BY <2>1
  <2>2. CASE s.lane.running # None
    <3> DEFINE l == s.lane.running
    <3>1. k = [s EXCEPT !.talk.turn[l].hold = FALSE] /\ l \in Turn
      BY <1>1, <2>2
    <3>3. Shaped(s)
      BY DEF Fits
    <3> HIDE DEF k
    <3>2. HoldGone(s, k, l)
      BY <3>1, <3>3, SetFlag
    <3>4. Fits(k, D)
      BY <3>1, FlagFits
    <3> QED
      BY <3>2, <3>4 DEF HoldGone, ButTurn
  <2> QED
    BY <2>1, <2>2
<1>0. Abandon(s) = g4
  BY DEF Abandon
<1> HIDE DEF k
<1>3. Fits(e, D) /\ e.plan = s.plan
  BY <1>2, EndTurnLeaseFits
<1> HIDE DEF e, X
<1>4. "discarded" \in Words
  BY DEF Words, Hows
<1>5. Fits(f, D) /\ f.plan = s.plan
  BY <1>3, <1>4, TellFits
<1> HIDE DEF f
<1>6. Shaped(f)
  BY <1>5 DEF Fits
<1>7. g4.plan = f.plan
  BY <1>6 DEF Shaped
<1>8. Fits(g1, D)
  <2>1. None \in Turn \union {None}
    OBVIOUS
  <2> QED
    BY <1>5, <2>1, SetRestFits
<1> HIDE DEF g1
<1>9. Fits(g2, D)
  BY <1>8, SetRestFits
<1> HIDE DEF g2
<1>10. Fits(g3, D)
  BY <1>9, SetRestFits
<1> HIDE DEF g3
<1>11. Fits(g4, D)
  BY <1>10, SetRestFits
<1> QED
  BY <1>0, <1>5, <1>7, <1>11

-----------------------------------------------------------------------------
LEMMA WithSlotFits ==
  ASSUME NEW s, NEW D, Fits(s, D) PROVE Fits(WithSlot(s), D)
<1> DEFINE k == [s EXCEPT !.talk.lease = TRUE]
           v == IF s.talk.lease THEN s.talk.room ELSE FALSE
           r == [k EXCEPT !.talk.room = v]
<1>1. Fits(k, D)
  BY SetRestFits
<1>2. Shaped(s)
  BY DEF Fits
<1>3. WithSlot(s) = r
  <2>1. k.talk.room = s.talk.room
    BY <1>2 DEF Shaped, TalkShaped
  <2> QED
    BY <1>2, <2>1 DEF WithSlot, Shaped, TalkShaped
<1> HIDE DEF k, v
<1>4. Fits(r, D)
  BY <1>1, SetRestFits
<1> QED
  BY <1>3, <1>4

\* On a plan of its own, once every turn before it was let go.
LEMMA FreshFits ==
  ASSUME NEW s, NEW D, Fits(s, D), Vacant(s), NEW r, Shaped(r), r.lane.caller = s.lane.caller,
         r.lane.tails = {}, r.talk.turn = s.talk.turn, r.plan.gen \in 1..MaxPlans, r.plan.heard = {},
         r.plan.goal \in User \union {None}, r.plan.limit = "none", r.plan.paused \in BOOLEAN,
         r.plan.kept = {}, r.plan.failures = 0,
         r.plan.pending \in Seq(Input), OneEach(r.plan.pending), Elems(r.plan.pending) \subseteq Sent(s.lane.caller),
         r.plan.forced \subseteq User \intersect Elems(r.plan.pending),
         Gated(r.talk.opening, r.plan.gen, s.lane.caller, D)
  PROVE  Fits(r, D)
<1>1. Listed(r.plan, r.lane.caller)
  BY DEF Listed
<1>2. ASSUME NEW t \in Turn PROVE TurnFits(r.talk.turn[t], r.plan, r.lane.caller, D)
  <2>1. TurnFits(s.talk.turn[t], s.plan, s.lane.caller, D)
    BY DEF Fits
  <2> QED
    BY <2>1 DEF TurnFits, Vacant
<1> QED
  BY <1>1, <1>2 DEF Fits

LEMMA OpenGoalFits ==
  ASSUME NEW s, NEW D, Fits(s, D), Own(s, D), FreeTurns(s) # {}, "ticks" \notin D,
         s.talk.opening.at \in {"probe", "slot"}, InputAssumption
  PROVE  Fits(OpenGoal(s), D)
<1> DEFINE i == s.talk.opening.input
           held == s.talk.opening.held
           F == s.talk.opening.forced
           ahead == Those(held, F)
           q == ahead \o Without(held, Elems(ahead))
           w == WithSlot(s)
           x == [w EXCEPT !.talk.lease = FALSE]
           a == Abandon(Drop(x))
           p == FreshPlan(s.plan.gen + 1, i, q)
           O == [NoOpening EXCEPT !.at = "open", !.input = i]
           f == [a EXCEPT !.plan = p, !.plan.forced = Elems(ahead), !.lane.asked = TRUE, !.talk.lease = TRUE,
                          !.talk.moved = FALSE, !.talk.opening = O]
<1>0. OpenGoal(s) = Claimed(f, "opening", {i}, FALSE)
  BY DEF OpenGoal
<1>1. Shaped(s) /\ HoldsOwn(s) /\ LiveOwn(s) /\ s.lane.tails = {} /\ s.plan.gen \in Nat
  BY DEF Own, TickOwn, Shaped, PlanShaped
<1>2. /\ held \in Seq(Input) /\ OneEach(held) /\ Elems(held) \subseteq User /\ i \in User /\ i \notin Elems(held)
      /\ "goal" \in D /\ s.plan.gen < MaxPlans
  BY DEF Fits, Gated
<1>3. /\ ahead \in Seq(Input) /\ Elems(ahead) = Elems(held) \intersect F /\ OneEach(ahead)
  BY <1>2, ThoseOf
<1>4. /\ q \in Seq(Input) /\ Elems(q) = Elems(held) /\ OneEach(q)
  <2> DEFINE u == Without(held, Elems(ahead))
  <2>1. u \in Seq(Input) /\ Elems(u) = Elems(held) \ Elems(ahead) /\ OneEach(u)
    BY <1>2, WithoutOf
  <2>4. q = ahead \o u
    OBVIOUS
  <2> HIDE DEF u, ahead, q
  <2>2. Elems(ahead) \intersect Elems(u) = {}
    BY <2>1
  <2>3. q \in Seq(Input) /\ Elems(q) = Elems(ahead) \union Elems(u) /\ OneEach(q)
    BY <1>3, <2>1, <2>2, <2>4, JoinOf
  <2> QED
    BY <1>3, <2>1, <2>3
<1>5. /\ Fits(w, D) /\ Shaped(w) /\ w.plan = s.plan /\ w.lane = s.lane /\ w.talk.live = s.talk.live
      /\ w.talk.turn = s.talk.turn /\ w.talk.opening = s.talk.opening
  BY <1>1, WithSlotFits, WithSlotSays
<1> HIDE DEF w, q
<1>6. /\ Shaped(x) /\ x.plan = s.plan /\ x.lane = s.lane /\ x.talk.live = s.talk.live /\ x.talk.turn = s.talk.turn
      /\ x.talk.opening = s.talk.opening
  BY <1>5 DEF Shaped, TalkShaped
<1>7. Fits(x, D)
  BY <1>5, SetRestFits
<1> HIDE DEF x
<1>8. HoldsOwn(x) /\ LiveOwn(x) /\ x.lane.tails = {} /\ FreeTurns(x) = FreeTurns(s)
  BY <1>1, <1>6 DEF HoldsOwn, LiveOwn, FreeTurns
<1>9. Vacant(a) /\ FreeTurns(s) \subseteq FreeTurns(a) /\ a.talk.opening = s.talk.opening
  BY <1>6, <1>8, LettingGoVacates
<1>10. Fits(a, D)
  BY <1>7, DropFits, AbandonFits
<1> HIDE DEF a, ahead
<1>11. Elems(held) \subseteq Sent(a.lane.caller) /\ i \in Sent(a.lane.caller)
  BY <1>9, <1>10 DEF Fits, Gated
<1>12. s.plan.gen + 1 \in 1..MaxPlans /\ s.plan.gen + 1 \in Nat
  <2>1. MaxPlans \in Nat
    BY DEF InputAssumption
  <2> QED
    BY <1>1, <1>2, <2>1
<1>13. /\ f.plan = [p EXCEPT !.forced = Elems(ahead)] /\ f.lane = [a.lane EXCEPT !.asked = TRUE]
       /\ f.talk = [a.talk EXCEPT !.lease = TRUE, !.moved = FALSE, !.opening = O] /\ f \in [plan : {f.plan}, lane : {f.lane}, talk : {f.talk}]
  <2> HIDE DEF p, O, i, held, F
  <2>1. a = [plan |-> a.plan, lane |-> a.lane, talk |-> a.talk]
    BY <1>9 DEF Vacant, Shaped
  <2> QED
    BY <2>1
<1> HIDE DEF f
<1>14. /\ f.plan.gen = s.plan.gen + 1 /\ f.plan.goal = i /\ f.plan.pending = q /\ f.plan.forced = Elems(ahead)
       /\ f.plan.heard = {} /\ f.plan.limit = "none" /\ f.plan.paused \in BOOLEAN /\ f.plan.kept = {}
       /\ f.plan.failures = 0 /\ PlanShaped(f.plan)
  BY <1>12, <1>13 DEF FreshPlan, PlanShaped
<1>15. LaneShaped(a.lane) /\ TalkShaped(a.talk) /\ a.lane.running = None /\ a.lane.tails = {}
  BY <1>9 DEF Vacant, Shaped
<1>16. LaneShaped(f.lane) /\ f.lane.caller = a.lane.caller /\ f.lane.tails = {} /\ f.lane.running = None
  BY <1>13, <1>15 DEF LaneShaped
<1>17. TalkShaped(f.talk) /\ f.talk.turn = a.talk.turn /\ f.talk.opening = O
  <2>1. /\ O \in [at : {O.at}, input : {O.input}, held : {O.held}, forced : {O.forced}]
        /\ O.at = "open" /\ O.held = <<>>
    BY DEF NoOpening
  <2> HIDE DEF O, i
  <2> QED
    BY <1>13, <1>15, <2>1, ZenonT(60) DEF TalkShaped
<1>18. Shaped(f)
  BY <1>13, <1>14, <1>16, <1>17 DEF Shaped
<1>19. Gated(f.talk.opening, f.plan.gen, a.lane.caller, D)
  <2>1. O.at = "open" /\ O.held = <<>>
    BY DEF NoOpening
  <2>2. <<>> \in Seq(Input) /\ Elems(<<>>) = {} /\ OneEach(<<>>)
    BY DEF Elems, OneEach
  <2> QED
    BY <1>17, <2>1, <2>2 DEF Gated
<1> HIDE DEF p, O
<1>20. Fits(f, D)
  <2>1. Elems(ahead) \subseteq User \intersect Elems(q)
    BY <1>2, <1>3, <1>4
  <2> QED
    BY <1>2, <1>4, <1>9, <1>10, <1>11, <1>12, <1>14, <1>16, <1>17, <1>18, <1>19, <2>1, FreshFits
<1>21. FreeTurns(f) # {}
  <2>1. FreeTurns(f) = FreeTurns(a)
    BY <1>15, <1>16, <1>17 DEF FreeTurns
  <2> QED
    BY <1>9, <2>1
<1>22. Fits(Claimed(f, "opening", {i}, FALSE), D)
  <2>1. {i} \in SUBSET Sent(f.lane.caller)
    BY <1>11, <1>16
  <2>2. i \in Input /\ i \notin Elems(f.plan.pending) \union f.plan.heard
    BY <1>2, <1>4, <1>14 DEF Input
  <2>3. \E g \in Input : {i} = {g} /\ g \notin Elems(f.plan.pending) \union f.plan.heard
    BY <2>2
  <2> HIDE DEF i
  <2> QED
    BY <1>2, <1>20, <1>21, <2>1, <2>3, ClaimedFits
<1> QED
  BY <1>0, <1>22

LEMMA ThroughGateFits ==
  ASSUME NEW s, NEW D, Fits(s, D), Own(s, D), FreeTurns(s) # {}, "ticks" \notin D,
         s.talk.opening.at \in {"probe", "slot"}, InputAssumption
  PROVE  Fits(ThroughGate(s), D)
<1>1. "refused" \in Words
  BY DEF Words, Hows
<1>2. Fits(EndWaiting(s, "refused"), D)
  BY <1>1, EndWaitingFits
<1>3. LET r == [s EXCEPT !.talk.opening.at = "slot"] IN Fits(r, D)
  <2> DEFINE r == [s EXCEPT !.talk.opening.at = "slot"]
  <2>0. Shaped(s)
    BY DEF Fits
  <2>1. /\ Shaped(r) /\ r.plan = s.plan /\ r.lane = s.lane /\ r.talk.turn = s.talk.turn
        /\ r.talk.opening.at = "slot" /\ r.talk.opening.held = s.talk.opening.held
        /\ r.talk.opening.input = s.talk.opening.input
    BY <2>0 DEF Shaped, TalkShaped
  <2> HIDE DEF r
  <2>2. Gated(r.talk.opening, r.plan.gen, r.lane.caller, D)
    BY <2>1 DEF Fits, Gated
  <2>3. Fits(r, D)
    BY <2>1, <2>2 DEF Fits
  <2> QED
    BY <2>3 DEF r
<1>4. ThroughGate(s) \in {s, EndWaiting(s, "refused"), OpenGoal(s), [s EXCEPT !.talk.opening.at = "slot"]}
  BY DEF ThroughGate
<1> QED
  BY <1>2, <1>3, <1>4, OpenGoalFits

LEMMA LoadFits ==
  ASSUME NEW s, NEW D, Fits(s, D), Own(s, D), "ticks" \notin D, s.plan.gen < MaxPlans, InputAssumption,
         NEW saved \in Seq(Input), OneEach(saved), NEW wakes
  PROVE  Fits(Loaded(s, saved, Elems(saved), wakes), D)
<1> DEFINE e == EndWaiting(s, "discarded")
           a == Abandon(Drop(e))
           X == Elems(saved)
           k == Tell(a, X, "kept")
           p == FreshPlan(s.plan.gen + 1, None, saved)
           f == [k EXCEPT !.plan = p, !.lane.restored = TRUE, !.lane.asked = FALSE, !.lane.reportWake = wakes,
                          !.talk.moved = FALSE]
<1>0. Loaded(s, saved, X, wakes) = f
  BY DEF Loaded
<1>1. Shaped(s) /\ s.plan.gen \in Nat /\ s.lane.tails = {}
  BY DEF Own, Shaped, PlanShaped, TickOwn
<1>2. "discarded" \in Words /\ "kept" \in Words
  BY DEF Words, Hows
<1>3. Own(e, D) /\ e.lane.tails = {}
  BY <1>1, EndWaitingAt, AlikeOwn DEF Alike, SameTurns
<1>4. Fits(e, D) /\ e.talk.opening.at \notin {"probe", "slot"}
  BY <1>2, EndWaitingFits
<1> HIDE DEF e
<1>5. Vacant(a) /\ a.talk.opening = e.talk.opening
  BY <1>3, LettingGoVacates DEF Own
<1>6. Fits(a, D)
  BY <1>4, DropFits, AbandonFits
<1> HIDE DEF a, X
<1>7. Fits(k, D) /\ k.talk = a.talk /\ Sent(k.lane.caller) = Sent(a.lane.caller) \union (X \intersect Input)
  BY <1>2, <1>6, TellFits
<1>8. Vacant(k)
  BY <1>5 DEF Tell, Vacant, Shaped, LaneShaped
<1> HIDE DEF k
<1>9. /\ f.plan = p /\ f.lane = [k.lane EXCEPT !.restored = TRUE, !.asked = FALSE, !.reportWake = wakes]
      /\ f.talk = [k.talk EXCEPT !.moved = FALSE] /\ f \in [plan : {f.plan}, lane : {f.lane}, talk : {f.talk}]
  <2> HIDE DEF p
  <2>1. k = [plan |-> k.plan, lane |-> k.lane, talk |-> k.talk]
    BY <1>8 DEF Vacant, Shaped
  <2> QED
    BY <2>1
<1> HIDE DEF f
<1>10. s.plan.gen + 1 \in 1..MaxPlans /\ s.plan.gen + 1 \in Nat
  <2>1. MaxPlans \in Nat
    BY DEF InputAssumption
  <2> QED
    BY <1>1, <2>1
<1>11. /\ f.plan.gen = s.plan.gen + 1 /\ f.plan.goal = None /\ f.plan.pending = saved /\ f.plan.forced = {}
       /\ f.plan.heard = {} /\ f.plan.limit = "none" /\ f.plan.paused \in BOOLEAN /\ f.plan.kept = {}
       /\ f.plan.failures = 0 /\ PlanShaped(f.plan)
  BY <1>9, <1>10 DEF FreshPlan, PlanShaped
<1> HIDE DEF p
<1>12. LaneShaped(k.lane) /\ TalkShaped(k.talk) /\ k.lane.tails = {}
  BY <1>8 DEF Vacant, Shaped
<1>13. LaneShaped(f.lane) /\ f.lane.caller = k.lane.caller /\ f.lane.tails = {}
  BY <1>9, <1>12 DEF LaneShaped
<1>14. TalkShaped(f.talk) /\ f.talk.turn = k.talk.turn /\ f.talk.opening = k.talk.opening
  BY <1>9, <1>12 DEF TalkShaped
<1>15. Shaped(f)
  BY <1>9, <1>11, <1>13, <1>14 DEF Shaped
<1>16. X \subseteq Input
  BY DEF Elems, X
<1>17. Elems(f.plan.pending) \subseteq Sent(k.lane.caller)
  BY <1>7, <1>11, <1>16 DEF X
<1>18. Gated(f.talk.opening, f.plan.gen, k.lane.caller, D)
  <2>1. k.talk.opening = e.talk.opening
    BY <1>5, <1>7
  <2> QED
    BY <1>4, <1>7, <1>14, <2>1 DEF Fits, Gated
<1>19. Fits(f, D)
  BY <1>7, <1>8, <1>10, <1>11, <1>13, <1>14, <1>15, <1>17, <1>18, FreshFits
<1> QED
  BY <1>0, <1>19 DEF X

-----------------------------------------------------------------------------
\* The list in another order.
LEMMA RelistFits ==
  ASSUME NEW s, NEW D, Fits(s, D), NEW q \in Seq(Input), OneEach(q), Elems(q) = Elems(s.plan.pending)
  PROVE  Fits([s EXCEPT !.plan.pending = q], D)
<1> DEFINE r == [s EXCEPT !.plan.pending = q]
<1>1. Shaped(s) /\ Listed(s.plan, s.lane.caller)
  BY DEF Fits
<1>2. /\ Shaped(r) /\ r.lane = s.lane /\ r.talk = s.talk /\ r.plan = [s.plan EXCEPT !.pending = q]
      /\ r.plan.pending = q /\ r.plan.forced = s.plan.forced /\ r.plan.heard = s.plan.heard
      /\ r.plan.gen = s.plan.gen /\ r.plan.goal = s.plan.goal /\ r.plan.limit = s.plan.limit
      /\ r.plan.paused = s.plan.paused /\ r.plan.kept = s.plan.kept /\ r.plan.failures = s.plan.failures
  BY <1>1 DEF Shaped, PlanShaped
<1> HIDE DEF r
<1>3. Listed(r.plan, r.lane.caller)
  BY <1>1, <1>2 DEF Listed
<1>4. \A t \in Turn : TurnFits(r.talk.turn[t], r.plan, r.lane.caller, D)
  BY <1>2 DEF Fits, TurnFits
<1>5. Fits(r, D)
  BY <1>2, <1>3, <1>4 DEF Fits
<1> QED
  BY <1>5 DEF r

\* What was told is in the transcript, and no longer in the list.
LEMMA LandedFits ==
  ASSUME NEW s, NEW D, Fits(s, D), NEW r, r.ids \subseteq Sent(s.lane.caller),
         \A t \in Turn : s.talk.turn[t].kind = "opening" /\ s.talk.turn[t].at = "talking" => s.talk.turn[t].dropped
  PROVE  Fits(Landed(s, r), D) /\ Landed(s, r).lane = s.lane /\ Landed(s, r).talk = s.talk
<1> DEFINE k == Take(s, r.ids)
           h == k.plan.heard \union r.ids
           l == [k EXCEPT !.plan.heard = h]
           v == k.plan.paused /\ ~r.retry
           m == [l EXCEPT !.plan.paused = v]
           z == IF r.retry THEN {} ELSE k.plan.kept
           n == [m EXCEPT !.plan.kept = z]
<1>1. /\ Fits(k, D) /\ k.lane = s.lane /\ k.talk = s.talk
      /\ Elems(k.plan.pending) = Elems(s.plan.pending) \ r.ids
  BY TakeFits
<1>0. Landed(s, r) = n
  <2>1. Landed(s, r) = [k EXCEPT !.plan.heard = @ \union r.ids, !.plan.paused = @ /\ ~r.retry,
                                 !.plan.kept = IF r.retry THEN {} ELSE @]
    BY DEF Landed
  <2>2. Shaped(k)
    BY <1>1 DEF Fits
  <2> HIDE DEF k
  <2> QED
    BY <2>1, <2>2 DEF Shaped, PlanShaped
<1> HIDE DEF k
<1>2. Shaped(k) /\ Listed(k.plan, k.lane.caller)
  BY <1>1 DEF Fits
<1>3. /\ Shaped(l) /\ l.lane = k.lane /\ l.talk = k.talk
      /\ l.plan.pending = k.plan.pending /\ l.plan.forced = k.plan.forced /\ l.plan.heard = h
      /\ l.plan.gen = k.plan.gen /\ l.plan.goal = k.plan.goal /\ l.plan.limit = k.plan.limit
      /\ l.plan.paused = k.plan.paused /\ l.plan.kept = k.plan.kept /\ l.plan.failures = k.plan.failures
  BY <1>2 DEF Shaped, PlanShaped
<1> HIDE DEF l
<1>4. Listed(l.plan, l.lane.caller)
  <2>1. h \subseteq Sent(k.lane.caller) /\ Elems(k.plan.pending) \subseteq Sent(k.lane.caller) \ h
    BY <1>1, <1>2 DEF Listed
  <2> HIDE DEF h
  <2> QED
    BY <1>2, <1>3, <2>1 DEF Listed
<1>5. \A t \in Turn : TurnFits(l.talk.turn[t], l.plan, l.lane.caller, D)
  BY <1>1, <1>3 DEF Fits, TurnFits
<1>6. Fits(l, D)
  BY <1>1, <1>3, <1>4, <1>5 DEF Fits
<1>7. Fits(m, D)
  <2>1. v \in BOOLEAN
    OBVIOUS
  <2> HIDE DEF v
  <2> QED
    BY <1>6, <2>1, SetPlanFits
<1>8. m.lane = l.lane /\ m.talk = l.talk
  BY <1>3 DEF Shaped
<1> HIDE DEF m
<1>9. Fits(n, D)
  <2>1. z \in SUBSET Input
    BY <1>2 DEF Listed
  <2> HIDE DEF z
  <2> QED
    BY <1>7, <2>1, SetPlanFits
<1>10. n.lane = m.lane /\ n.talk = m.talk
  BY <1>7 DEF Fits, Shaped
<1> HIDE DEF n
<1> QED
  BY <1>0, <1>1, <1>3, <1>8, <1>9, <1>10

LEMMA CountedFits ==
  ASSUME NEW s, NEW D, Fits(s, D), NEW r, NEW how
  PROVE  LET c == Counted(s, r, how)
         IN  /\ Fits(c, D) /\ c.talk = s.talk /\ c.plan.pending = s.plan.pending /\ c.plan.heard = s.plan.heard
             /\ c.lane.caller = s.lane.caller
<1> DEFINE q == [s EXCEPT !.lane.asked = @ \/ (how = "failed" /\ r.late)]
           f == CASE how = "answered" -> 0
                  [] how = "failed" -> IF q.plan.failures = 0 THEN 1 ELSE 2
                  [] how = "limited" /\ s.plan.limit = "held" -> 2
                  [] OTHER -> q.plan.failures
           c == [q EXCEPT !.plan.failures = f]
<1>1. Fits(q, D)
  BY SetRestFits
<1>2. q.plan = s.plan /\ q.talk = s.talk /\ q.lane.caller = s.lane.caller
  BY DEF Fits, Shaped, LaneShaped
<1>3. Counted(s, r, how) = IF ~IsWakeUp(r) THEN s ELSE c
  BY DEF Counted
<1> HIDE DEF q
<1>4. f \in 0..2
  <2>1. q.plan.failures \in 0..2
    BY <1>1 DEF Fits, Listed
  <2> QED
    BY <2>1
<1> HIDE DEF f
<1>5. Fits(c, D)
  BY <1>1, <1>4, SetPlanFits
<1>6. c.talk = q.talk /\ c.lane = q.lane /\ c.plan.pending = q.plan.pending /\ c.plan.heard = q.plan.heard
  BY <1>1 DEF Fits, Shaped, PlanShaped
<1> HIDE DEF c
<1> QED
  BY <1>2, <1>3, <1>5, <1>6

\* A call that was not let go is over: only then is anything written.
LEMMA OverFits ==
  ASSUME NEW s, NEW D, Fits(s, D), NEW t \in Turn, NEW how, NEW wait \in {"none", "armed", "held"},
         how = "answered" => \A u \in Turn \ {t} : s.talk.turn[u].at = "talking" => s.talk.turn[u].dropped
  PROVE  LET r == Over(s, t, how, wait)
         IN  /\ Fits(r, D) /\ r.lane.caller = s.lane.caller
             /\ how # "answered" => r.plan.pending = s.plan.pending /\ r.plan.heard = s.plan.heard
<1> DEFINE r == s.talk.turn[t]
           n == [Idle EXCEPT !.checking = r.checking, !.hold = r.hold]
           q0 == [s EXCEPT !.talk.turn[t] = n]
           v == IF q0.talk.live = t THEN None ELSE q0.talk.live
           q == [q0 EXCEPT !.talk.live = v]
           unread == ~(r.ids \subseteq s.plan.heard)
           a1 == [q EXCEPT !.plan.limit = wait]
           a2 == [a1 EXCEPT !.talk.moved = FALSE]
           b1 == [q EXCEPT !.plan.paused = TRUE]
           b2 == [b1 EXCEPT !.plan.kept = r.ids]
           p == CASE how = "answered" /\ r.kind # "compaction" -> Landed(q, r)
                  [] how = "limited" /\ unread -> a2
                  [] how = "paused" -> b2
                  [] OTHER -> q
<1>0. Over(s, t, how, wait) = Counted(p, r, how)
  BY DEF Over
<1>1. Shaped(s) /\ TurnIsRecord(r) /\ TurnFits(r, s.plan, s.lane.caller, D)
  BY DEF Fits, Shaped, TalkShaped
<1>2. TurnIsRecord(n) /\ n.at = "free" /\ n.ids = {} /\ n.checking = r.checking
  BY <1>1 DEF TurnIsRecord, Idle
<1> HIDE DEF n
<1>3. ButTurn(s, q0, t) /\ q0.talk.turn[t] = n
  BY <1>1, <1>2, PutTurn
<1>4. Fits(q0, D)
  <2>1. n.at # "talking" /\ n.ids \subseteq s.talk.turn[t].ids
    BY <1>2
  <2> QED
    BY <1>2, <2>1, PutFits
<1> HIDE DEF q0
<1>5. v \in Turn \union {None}
  BY <1>4 DEF Fits, Shaped, TalkShaped
<1> HIDE DEF v
<1>6. Fits(q, D)
  BY <1>4, <1>5, SetRestFits
<1>7. q.plan = s.plan /\ q.lane = s.lane /\ q.talk.turn = q0.talk.turn
  BY <1>3 DEF ButTurn, Shaped, TalkShaped
<1> HIDE DEF q
<1>8. Shaped(q)
  BY <1>6 DEF Fits
<1>9. ASSUME how = "answered" PROVE Fits(Landed(q, r), D) /\ Landed(q, r).lane = q.lane
  <2>1. \A u \in Turn : q.talk.turn[u].kind = "opening" /\ q.talk.turn[u].at = "talking" => q.talk.turn[u].dropped
    <3> SUFFICES ASSUME NEW u \in Turn, q.talk.turn[u].at = "talking" PROVE q.talk.turn[u].dropped
      OBVIOUS
    <3>1. u # t
      BY <1>2, <1>3, <1>7
    <3>2. q.talk.turn[u] = s.talk.turn[u]
      BY <1>3, <1>7, <3>1 DEF ButTurn
    <3> HIDE DEF r
    <3> QED
      BY <1>9, <3>1, <3>2
  <2>2. r.ids \subseteq Sent(q.lane.caller)
    BY <1>1, <1>7 DEF TurnFits
  <2> HIDE DEF r
  <2> QED
    BY <1>6, <2>1, <2>2, LandedFits
<1>10. Fits(a1, D) /\ Fits(b1, D)
  <2>1. TRUE \in BOOLEAN
    OBVIOUS
  <2> QED
    BY <1>6, <2>1, SetPlanFits
<1>11. a2.lane = q.lane /\ a2.plan.pending = q.plan.pending /\ a2.plan.heard = q.plan.heard
       /\ b2.lane = q.lane /\ b2.plan.pending = q.plan.pending /\ b2.plan.heard = q.plan.heard
  BY <1>8 DEF Shaped, PlanShaped
<1> HIDE DEF a1, b1
<1>12. Fits(a2, D)
  BY <1>10, SetRestFits
<1>13. Fits(b2, D)
  <2>1. r.ids \in SUBSET Input
    BY <1>1 DEF TurnFits, Sent
  <2> HIDE DEF r
  <2> QED
    BY <1>10, <2>1, SetPlanFits
<1> HIDE DEF a2, b2
<1>14. /\ Fits(p, D) /\ p.lane = q.lane
       /\ how # "answered" => p.plan.pending = q.plan.pending /\ p.plan.heard = q.plan.heard
  <2>1. how = "answered" => p \in {q, Landed(q, r)}
    OBVIOUS
  <2>2. how # "answered" => p \in {q, a2, b2}
    OBVIOUS
  <2> HIDE DEF p, r
  <2> QED
    BY <1>6, <1>9, <1>11, <1>12, <1>13, <2>1, <2>2
<1> HIDE DEF p, r
<1> QED
  BY <1>0, <1>7, <1>14, CountedFits

\* What a turn's end takes out, and the order it leaves.
LEMMA LetGoFits ==
  ASSUME NEW s, NEW D, Fits(s, D), NEW t \in Turn, NEW e, e.how \in Hows
  PROVE  Fits(LetGo(s, t, e), D)
<1> DEFINE q == Take(s, Dropped(e))
           unpaused == e.retry /\ (Interrupted(e) \/ ForceStopped(e))
           ahead == Those(q.plan.pending, q.plan.forced)
           y == IF ForceStopped(e) THEN ahead \o Without(q.plan.pending, Elems(ahead)) ELSE q.plan.pending
           g1 == [q EXCEPT !.plan.pending = y]
           v == q.plan.paused /\ ~unpaused
           g2 == [g1 EXCEPT !.plan.paused = v]
           z == IF unpaused THEN {} ELSE q.plan.kept
           g3 == [g2 EXCEPT !.plan.kept = z]
           g4 == [g3 EXCEPT !.talk.turn[t].hold = FALSE]
           T == g4.lane.tails \union {e}
           g5 == [g4 EXCEPT !.lane.tails = T]
<1>1. Fits(q, D)
  BY TakeFits
<1>2. Shaped(q) /\ Listed(q.plan, q.lane.caller)
  BY <1>1 DEF Fits
<1>0. LetGo(s, t, e) = g5
  <2>1. LetGo(s, t, e) =
          [q EXCEPT !.plan.pending = IF ForceStopped(e) THEN ahead \o Without(@, Elems(ahead)) ELSE @,
                    !.plan.paused = @ /\ ~unpaused, !.plan.kept = IF unpaused THEN {} ELSE @,
                    !.talk.turn[t].hold = FALSE, !.lane.tails = @ \union {e}]
    BY DEF LetGo
  <2> HIDE DEF q, ahead, unpaused
  <2> QED
    BY <1>2, <2>1 DEF Shaped, PlanShaped, LaneShaped
<1> HIDE DEF q, unpaused
<1>3. y \in Seq(Input) /\ OneEach(y) /\ Elems(y) = Elems(q.plan.pending)
  <2> DEFINE P == q.plan.pending
             u == Without(P, Elems(ahead))
  <2>1. P \in Seq(Input) /\ OneEach(P)
    BY <1>2 DEF Listed
  <2>2. ahead \in Seq(Input) /\ Elems(ahead) \subseteq Elems(P) /\ OneEach(ahead)
    BY <2>1, ThoseOf
  <2>3. u \in Seq(Input) /\ Elems(u) = Elems(P) \ Elems(ahead) /\ OneEach(u)
    BY <2>1, WithoutOf
  <2>4. y \in {ahead \o u, P}
    OBVIOUS
  <2> HIDE DEF u, ahead, y, P
  <2>5. Elems(ahead) \intersect Elems(u) = {}
    BY <2>3
  <2>6. ahead \o u \in Seq(Input) /\ Elems(ahead \o u) = Elems(ahead) \union Elems(u) /\ OneEach(ahead \o u)
    BY <2>2, <2>3, <2>5, JoinOf
  <2>7. Elems(ahead \o u) = Elems(P)
    BY <2>2, <2>3, <2>6
  <2> QED
    BY <2>1, <2>4, <2>6, <2>7 DEF P
<1> HIDE DEF y
<1>4. Fits(g1, D)
  BY <1>1, <1>3, RelistFits
<1> HIDE DEF g1
<1>5. Fits(g2, D)
  <2>1. v \in BOOLEAN
    OBVIOUS
  <2> HIDE DEF v
  <2> QED
    BY <1>4, <2>1, SetPlanFits
<1> HIDE DEF g2
<1>6. Fits(g3, D)
  <2>1. z \in SUBSET Input
    BY <1>2 DEF Listed
  <2> HIDE DEF z
  <2> QED
    BY <1>5, <2>1, SetPlanFits
<1> HIDE DEF g3
<1>7. Fits(g4, D)
  BY <1>6, FlagFits
<1> HIDE DEF g4
<1>8. \A d \in T : d.how \in Hows
  BY <1>7 DEF Fits
<1> HIDE DEF T
<1>9. Shaped(g5) /\ g5.plan = g4.plan /\ g5.talk = g4.talk /\ g5.lane.caller = g4.lane.caller /\ g5.lane.tails = T
  BY <1>7 DEF Fits, Shaped, LaneShaped
<1> HIDE DEF g5
<1>10. Fits(g5, D)
  BY <1>7, <1>8, <1>9 DEF Fits
<1> QED
  BY <1>0, <1>10

LEMMA SettledFits ==
  ASSUME NEW s, NEW D, Fits(s, D), NEW e, e.how \in Hows, NEW free
  PROVE  Fits(Settled(s, e, free), D)
<1> DEFINE q1 == [s EXCEPT !.lane.running = None]
           T == s.lane.tails \ {e}
           q2 == [q1 EXCEPT !.lane.tails = T]
           q == EndTurnLease(q2, free)
           early == IF e.how \in {"limited", "paused"} THEN e.ids \intersect User ELSE {}
           stays == IF ForceStopped(e) \/ Kept(e) THEN e.ids \intersect Elems(q.plan.pending) ELSE {}
           heard == Waiting(q, e.ids \ (early \union stays))
           noticed == IF e.how = "failed" /\ ~e.retry THEN (e.ids \intersect User) \ stays ELSE {}
           told == Waiting(q, early)
           p1 == Tell(q, noticed, "failed")
           p2 == Tell(p1, heard, e.how)
           p3 == Tell(p2, told, "kept")
<1>0. Settled(s, e, free) = Pump(p3)
  BY DEF Settled
<1>1. Fits(q1, D) /\ q1.lane.tails = s.lane.tails
  <2>1. None \in Turn \union {None}
    OBVIOUS
  <2>2. q1.lane.tails = s.lane.tails
    BY DEF Fits, Shaped, LaneShaped
  <2> QED
    BY <2>1, <2>2, SetRestFits
<1> HIDE DEF q1
<1>2. Still(q1, q2)
  BY <1>1 DEF Still, Fits, Shaped, LaneShaped
<1>3. Fits(q2, D)
  BY <1>1, <1>2, StillFits
<1> HIDE DEF q2
<1>4. Fits(q, D)
  BY <1>3, EndTurnLeaseFits
<1> HIDE DEF q, heard, noticed, told
<1>5. "failed" \in Words /\ "kept" \in Words /\ e.how \in Words
  BY DEF Words, Hows
<1>6. Fits(p1, D)
  BY <1>4, <1>5, TellFits
<1> HIDE DEF p1
<1>7. Fits(p2, D)
  BY <1>5, <1>6, TellFits
<1> HIDE DEF p2
<1>8. Fits(p3, D)
  BY <1>5, <1>7, TellFits
<1> HIDE DEF p3
<1> QED
  BY <1>0, <1>8, PumpFits

LEMMA EndedFits ==
  ASSUME NEW s, Fits(s, day), NEW t \in Turn, NEW r, NEW how \in Hows, NEW free
  PROVE  Fits(Ended(s, t, r, how, free), day)
<1> DEFINE e == [how |-> how, ids |-> r.ids, forceStopped |-> r.forceStopped, retry |-> r.retry]
           g == LetGo(s, t, e)
<1>1. e.how \in Hows
  OBVIOUS
<1>2. Ended(s, t, r, how, free) = IF "ticks" \in day THEN g ELSE Settled(g, e, free)
  BY DEF Ended
<1> HIDE DEF e
<1>3. Fits(g, day)
  BY <1>1, LetGoFits
<1> HIDE DEF g
<1> QED
  BY <1>1, <1>2, <1>3, SettledFits

\* A goal is put back only where it is nowhere.
LEMMA OpeningOverFits ==
  ASSUME NEW s, NEW D, Fits(s, D), NEW r, NEW how \in Hows,
         how \in {"paused", "limited"} =>
             /\ \E g \in Sent(s.lane.caller) : r.ids = {g} /\ g \notin Elems(s.plan.pending) \union s.plan.heard
             /\ \A t \in Turn : s.talk.turn[t].at = "talking" => s.talk.turn[t].dropped
  PROVE  Fits(OpeningOver(s, r, how), D)
<1> DEFINE kept == how = "paused" \/ (how = "limited" /\ Holds(s) /\ ~(r.ids \subseteq s.plan.heard))
           g == CHOOSE i \in r.ids : TRUE
           k == [s EXCEPT !.plan.pending = <<g>> \o s.plan.pending]
           q == IF kept THEN k ELSE s
           X == Waiting(q, IF kept THEN Elems(q.plan.pending) \intersect User ELSE r.ids)
           w == IF kept THEN "kept" ELSE how
           a == Tell(q, X, w)
           b == [a EXCEPT !.talk.opening = NoOpening]
<1>1. Shaped(s) /\ Listed(s.plan, s.lane.caller)
  BY DEF Fits
<1>2. kept => Fits(k, D)
  <2> SUFFICES ASSUME kept PROVE Fits(k, D)
    OBVIOUS
  <2>1. PICK f \in Sent(s.lane.caller) : r.ids = {f} /\ f \notin Elems(s.plan.pending) \union s.plan.heard
    OBVIOUS
  <2>2. \A t \in Turn : s.talk.turn[t].at = "talking" => s.talk.turn[t].dropped
    OBVIOUS
  <2>3. g = f /\ f \in Input
    BY <2>1 DEF Sent
  <2> DEFINE one == <<f>>
             z == one \o s.plan.pending
  <2>4. one \in Seq(Input) /\ Elems(one) = {f} /\ OneEach(one)
    BY <2>3 DEF Elems, OneEach
  <2>5. k = [s EXCEPT !.plan.pending = z]
    BY <2>3
  <2> HIDE DEF one, g, k
  <2>6. z \in Seq(Input) /\ Elems(z) = {f} \union Elems(s.plan.pending) /\ OneEach(z)
    BY <1>1, <2>1, <2>4, JoinOf DEF Listed
  <2> HIDE DEF z
  <2>7. /\ Shaped(k) /\ k.lane = s.lane /\ k.talk = s.talk
        /\ k.plan.pending = z /\ k.plan.forced = s.plan.forced /\ k.plan.heard = s.plan.heard
        /\ k.plan.gen = s.plan.gen /\ k.plan.goal = s.plan.goal /\ k.plan.limit = s.plan.limit
        /\ k.plan.paused = s.plan.paused /\ k.plan.kept = s.plan.kept /\ k.plan.failures = s.plan.failures
    BY <1>1, <2>5 DEF Shaped, PlanShaped
  <2>8. Listed(k.plan, k.lane.caller)
    BY <1>1, <2>1, <2>6, <2>7 DEF Listed
  <2>9. \A t \in Turn : TurnFits(k.talk.turn[t], k.plan, k.lane.caller, D)
    BY <2>2, <2>7 DEF Fits, TurnFits
  <2> QED
    BY <2>7, <2>8, <2>9 DEF Fits
<1>3. OpeningOver(s, r, how) = [a EXCEPT !.talk.opening = IF @.at = "open" /\ @.input = g THEN NoOpening ELSE @]
  BY DEF OpeningOver
<1>4. w \in Words
  BY DEF Words, Hows
<1>5. Fits(q, D)
  BY <1>2
<1> HIDE DEF kept, q, X, w, g
<1>6. Fits(a, D)
  BY <1>4, <1>5, TellFits
<1> HIDE DEF a
<1>7. Fits(b, D)
  BY <1>6, SetRestFits
<1>8. OpeningOver(s, r, how) \in {a, b}
  <2>1. a = [a EXCEPT !.talk.opening = a.talk.opening]
    BY <1>6 DEF Fits, Shaped, TalkShaped
  <2> QED
    BY <1>3, <2>1
<1> HIDE DEF b
<1> QED
  BY <1>6, <1>7, <1>8

-----------------------------------------------------------------------------
LEMMA FitsBecome == ASSUME NEW r, Becomes(r), Fits(r, day), day' = day PROVE Fits(Now', day')
<1>1. Now' = r
  BY DEF Becomes, Now, Fits, Shaped
<1> QED
  BY <1>1

\* One more waits at the gate, or in the list.
LEMMA HeldFits ==
  ASSUME NEW s, NEW D, Fits(s, D), NEW i \in User \intersect Sent(s.lane.caller), i \notin Elems(s.talk.opening.held),
         s.talk.opening.at \in {"probe", "slot"} => i # s.talk.opening.input, NEW X
  PROVE  /\ Fits([s EXCEPT !.talk.opening.held = Append(@, i)], D)
         /\ Fits([s EXCEPT !.talk.opening.held = Append(@, i), !.talk.opening.forced = X], D)
<1> DEFINE h == Append(s.talk.opening.held, i)
           r1 == [s EXCEPT !.talk.opening.held = h]
           r2 == [s EXCEPT !.talk.opening.held = h, !.talk.opening.forced = X]
<1>1. Shaped(s) /\ Gated(s.talk.opening, s.plan.gen, s.lane.caller, D)
  BY DEF Fits
<1>2. h \in Seq(Input) /\ Elems(h) = Elems(s.talk.opening.held) \union {i} /\ OneEach(h)
  <2>1. i \in Input
    BY DEF Input
  <2> QED
    BY <1>1, <2>1, AppendOf DEF Gated
<1>3. ASSUME NEW r, Shaped(r), r.plan = s.plan, r.lane = s.lane, r.talk.turn = s.talk.turn,
             r.talk.opening.at = s.talk.opening.at, r.talk.opening.held = h, r.talk.opening.input = s.talk.opening.input
      PROVE  Fits(r, D)
  <2> HIDE DEF h
  <2>1. Gated(r.talk.opening, r.plan.gen, r.lane.caller, D)
    BY <1>1, <1>2, <1>3 DEF Gated
  <2> QED
    BY <1>3, <2>1 DEF Fits
<1> HIDE DEF h
<1>4. /\ Shaped(r1) /\ r1.plan = s.plan /\ r1.lane = s.lane /\ r1.talk.turn = s.talk.turn
      /\ r1.talk.opening.at = s.talk.opening.at /\ r1.talk.opening.held = h /\ r1.talk.opening.input = s.talk.opening.input
  BY <1>1 DEF Shaped, TalkShaped
<1>5. /\ Shaped(r2) /\ r2.plan = s.plan /\ r2.lane = s.lane /\ r2.talk.turn = s.talk.turn
      /\ r2.talk.opening.at = s.talk.opening.at /\ r2.talk.opening.held = h /\ r2.talk.opening.input = s.talk.opening.input
  BY <1>1 DEF Shaped, TalkShaped
<1> HIDE DEF r1, r2
<1>6. Fits(r1, D) /\ Fits(r2, D)
  BY <1>3, <1>4, <1>5
<1> QED
  BY <1>6 DEF r1, r2, h

LEMMA WithdrawnFits == ASSUME FitsInv, DaysGo, NEW i, Withdraw(i) PROVE Fits(Now', day')
<1> DEFINE s == [Now EXCEPT !.lane.withdrawn = lane.withdrawn \union {i}]
           r == [s EXCEPT !.talk.turn[s.lane.running].aborted = TRUE]
<1>1. Fits(Now, day) /\ day' = day
  BY DEF FitsInv, Withdraw, Acts
<1>2. Becomes(IF i \in Taken(s) /\ Speaks(s) THEN r ELSE s)
  BY NowFields DEF Withdraw
<1>3. Fits(s, day)
  BY <1>1, SetRestFits
<1> HIDE DEF s
<1>4. Speaks(s) => Fits(r, day)
  <2>1. Speaks(s) => s.lane.running \in Turn
    BY <1>3 DEF Speaks, Fits, Shaped, LaneShaped
  <2> QED
    BY <1>3, <2>1, FlagFits
<1> HIDE DEF r
<1>5. Fits(IF i \in Taken(s) /\ Speaks(s) THEN r ELSE s, day)
  BY <1>3, <1>4
<1> QED
  BY <1>1, <1>2, <1>5, FitsBecome

\* What no one sent yet is at no gate, in no list and of no turn.
LEMMA Unsent ==
  ASSUME NEW s, NEW D, Fits(s, D), NEW i \in Input, s.lane.caller[i] = "none", NEW what \in Words
  PROVE  LET a == Tell(s, {i}, what)
         IN  /\ Fits(a, D) /\ a.plan = s.plan /\ a.talk = s.talk /\ i \in Sent(a.lane.caller)
             /\ i \notin Sent(s.lane.caller) /\ i \notin Elems(s.plan.pending) \union s.plan.heard
             /\ i \notin Elems(s.talk.opening.held)
             /\ s.talk.opening.at \in {"probe", "slot"} => i # s.talk.opening.input
             /\ \A t \in Turn : i \notin s.talk.turn[t].ids
<1>1. i \notin Sent(s.lane.caller)
  BY DEF Sent
<1>2. i \notin Elems(s.plan.pending) \union s.plan.heard
  BY <1>1 DEF Fits, Listed
<1>3. i \notin Elems(s.talk.opening.held) /\ (s.talk.opening.at \in {"probe", "slot"} => i # s.talk.opening.input)
  BY <1>1 DEF Fits, Gated
<1>4. \A t \in Turn : i \notin s.talk.turn[t].ids
  BY <1>1 DEF Fits, TurnFits
<1> DEFINE a == Tell(s, {i}, what)
<1>5. /\ Fits(a, D) /\ a.plan = s.plan /\ a.talk = s.talk
      /\ Sent(a.lane.caller) = Sent(s.lane.caller) \union ({i} \intersect Input)
  BY TellFits
<1> HIDE DEF a
<1>6. i \in Sent(a.lane.caller)
  BY <1>5
<1> QED
  BY <1>1, <1>2, <1>3, <1>4, <1>5, <1>6 DEF a

LEMMA SentFits == ASSUME FitsInv, DaysGo, NEW i \in Input, Send(i) PROVE Fits(Now', day')
<1> DEFINE a == Tell(Now, {i}, "waiting")
           b == Tell(Now, {i}, "busy")
<1>1. Fits(Now, day) /\ day' = day /\ i \in User /\ Now.lane.caller[i] = "none"
  BY NowFields DEF FitsInv, Send, May
<1>2. "waiting" \in Words /\ "busy" \in Words
  BY DEF Words, Hows
<1>3. /\ Fits(a, day) /\ a.talk = Now.talk /\ i \in Sent(a.lane.caller) /\ i \notin Elems(Now.talk.opening.held)
      /\ Now.talk.opening.at \in {"probe", "slot"} => i # Now.talk.opening.input
      /\ i \notin Sent(Now.lane.caller)
  BY <1>1, <1>2, Unsent
<1>4. Fits(b, day)
  BY <1>1, <1>2, Unsent
<1>5. \/ Becomes([a EXCEPT !.talk.opening.held = Append(@, i)]) \/ Becomes(b) \/ Becomes(Admit(Now, i, FALSE))
  BY DEF Send
<1> HIDE DEF a, b
<1>6. Fits([a EXCEPT !.talk.opening.held = Append(@, i)], day)
  BY <1>1, <1>3, HeldFits
<1>7. Fits(Admit(Now, i, FALSE), day)
  BY <1>1, <1>3, AdmitFits
<1> QED
  BY <1>1, <1>4, <1>5, <1>6, <1>7, FitsBecome

LEMMA EnlistFits ==
  ASSUME NEW s, NEW D, Fits(s, D), NEW i \in Sent(s.lane.caller), i \notin Elems(s.plan.pending) \union s.plan.heard,
         \A t \in Turn : i \notin s.talk.turn[t].ids
  PROVE  Fits([s EXCEPT !.plan.pending = Append(@, i)], D)
<1> DEFINE q == Append(s.plan.pending, i)
           r == [s EXCEPT !.plan.pending = q]
<1>1. Shaped(s) /\ Listed(s.plan, s.lane.caller) /\ i \in Input
  BY DEF Fits, Sent
<1>2. q \in Seq(Input) /\ Elems(q) = Elems(s.plan.pending) \union {i} /\ OneEach(q)
  BY <1>1, AppendOf DEF Listed
<1> HIDE DEF q
<1>3. /\ Shaped(r) /\ r.lane = s.lane /\ r.talk = s.talk
      /\ r.plan.pending = q /\ r.plan.forced = s.plan.forced /\ r.plan.heard = s.plan.heard
      /\ r.plan.gen = s.plan.gen /\ r.plan.goal = s.plan.goal /\ r.plan.limit = s.plan.limit
      /\ r.plan.paused = s.plan.paused /\ r.plan.kept = s.plan.kept /\ r.plan.failures = s.plan.failures
  BY <1>1 DEF Shaped, PlanShaped
<1> HIDE DEF r
<1>4. Listed(r.plan, r.lane.caller)
  BY <1>1, <1>2, <1>3 DEF Listed
<1>5. \A t \in Turn : TurnFits(r.talk.turn[t], r.plan, r.lane.caller, D)
  BY <1>2, <1>3 DEF Fits, TurnFits
<1>6. Fits(r, D)
  BY <1>3, <1>4, <1>5 DEF Fits
<1> QED
  BY <1>6 DEF r, q

LEMMA DeliveredFits == ASSUME FitsInv, DaysGo, NEW i \in Input, Deliver(i) PROVE Fits(Now', day')
<1> DEFINE a == Tell(Now, {i}, "kept")
<1>1. Fits(Now, day) /\ day' = day /\ Now.lane.caller[i] = "none"
  BY NowFields DEF FitsInv, Deliver, May
<1>2. "kept" \in Words
  BY DEF Words, Hows
<1>3. /\ Fits(a, day) /\ a.plan = Now.plan /\ a.talk = Now.talk /\ i \in Sent(a.lane.caller)
      /\ i \notin Elems(Now.plan.pending) \union Now.plan.heard /\ i \notin Sent(Now.lane.caller)
      /\ \A t \in Turn : i \notin Now.talk.turn[t].ids
  BY <1>1, <1>2, Unsent
<1>4. Becomes([a EXCEPT !.plan.pending = Append(@, i)]) \/ Becomes(Admit(Now, i, FALSE))
  BY DEF Deliver
<1> HIDE DEF a
<1>5. Fits([a EXCEPT !.plan.pending = Append(@, i)], day)
  BY <1>3, EnlistFits
<1>6. Fits(Admit(Now, i, FALSE), day)
  BY <1>1, <1>3, AdmitFits
<1> QED
  BY <1>1, <1>4, <1>5, <1>6, FitsBecome

LEMMA ForcedFits == ASSUME FitsInv, DaysGo, NEW i \in Input, ForceSend(i) PROVE Fits(Now', day')
<1> DEFINE a == Tell(Now, {i}, "waiting")
<1>1. Fits(Now, day) /\ day' = day /\ i \in User /\ Now.lane.caller[i] = "none"
  BY NowFields DEF FitsInv, ForceSend, Acts
<1>2. "waiting" \in Words
  BY DEF Words, Hows
<1>3. /\ Fits(a, day) /\ a.talk = Now.talk /\ i \in Sent(a.lane.caller) /\ i \notin Elems(Now.talk.opening.held)
      /\ Now.talk.opening.at \in {"probe", "slot"} => i # Now.talk.opening.input
      /\ i \notin Sent(Now.lane.caller)
  <2>1. Fits(a, day) /\ a.talk = Now.talk /\ i \in Sent(a.lane.caller) /\ i \notin Elems(Now.talk.opening.held)
    BY <1>1, <1>2, Unsent
  <2>2. Now.talk.opening.at \in {"probe", "slot"} => i # Now.talk.opening.input
    BY <1>1 DEF Fits, Gated, Sent
  <2>3. i \notin Sent(Now.lane.caller)
    BY <1>1, <1>2, Unsent
  <2> QED
    BY <2>1, <2>2, <2>3
<1> DEFINE b == Admit(Now, i, TRUE)
           s == StopLive(b)
           r == [s EXCEPT !.talk.turn[s.lane.running].forceStopped = TRUE]
           X == a.talk.opening.forced \union {i}
           h == [a EXCEPT !.talk.opening.held = Append(@, i), !.talk.opening.forced = X]
<1>4. \/ Becomes([a EXCEPT !.talk.opening.held = Append(@, i), !.talk.opening.forced = @ \union {i}])
      \/ Becomes(Admit(Now, i, FALSE)) \/ Becomes(IF ~Speaks(s) THEN s ELSE r)
  BY DEF ForceSend
<1>5. [a EXCEPT !.talk.opening.held = Append(@, i), !.talk.opening.forced = @ \union {i}] = h
  <2> HIDE DEF a
  <2>1. Shaped(a)
    BY <1>3 DEF Fits
  <2> QED
    BY <2>1 DEF Shaped, TalkShaped
<1> HIDE DEF a, X
<1>6. Fits(h, day)
  BY <1>1, <1>3, HeldFits
<1> HIDE DEF h
<1>7. Fits(Admit(Now, i, FALSE), day) /\ Fits(b, day)
  BY <1>1, <1>3, AdmitFits
<1> HIDE DEF b
<1>8. Fits(s, day)
  BY <1>7, StopLiveFits
<1> HIDE DEF s
<1>9. Speaks(s) => Fits(r, day)
  <2>1. Speaks(s) => s.lane.running \in Turn
    BY <1>8 DEF Speaks, Fits, Shaped, LaneShaped
  <2> QED
    BY <1>8, <2>1, FlagFits
<1> HIDE DEF r
<1>10. Fits(IF ~Speaks(s) THEN s ELSE r, day)
  BY <1>8, <1>9
<1> QED
  BY <1>1, <1>4, <1>5, <1>6, <1>7, <1>10, FitsBecome

LEMMA StartFits == ASSUME FitsInv, DaysGo, NEW i \in Input, StartPlanning(i) PROVE Fits(Now', day')
<1> DEFINE e == EndWaiting(Now, "discarded")
           a == Tell(e, {i}, "waiting")
           O == [NoOpening EXCEPT !.at = "probe", !.input = i]
           s == [a EXCEPT !.talk.opening = O]
<1>1. /\ Fits(Now, day) /\ InputAssumption /\ Own(Now, day) /\ day' = day /\ i \in User /\ "goal" \in day
      /\ "ticks" \notin day /\ Now.plan.gen < MaxPlans
  BY NowFields DEF FitsInv, OwnInv, DaysGo, TicksAlone, StartPlanning, Acts
<1>2. Own(s, day) /\ FreeTurns(s) # {}
  BY StartsAtGate DEF FitsInv
<1>3. Becomes(ThroughGate(s))
  BY DEF StartPlanning
<1>4. "discarded" \in Words /\ "waiting" \in Words
  BY DEF Words, Hows
<1>5. Fits(e, day) /\ e.plan = Now.plan
  BY <1>1, <1>4, EndWaitingFits
<1> HIDE DEF e
<1>6. Fits(a, day) /\ a.plan = e.plan /\ Sent(a.lane.caller) = Sent(e.lane.caller) \union ({i} \intersect Input)
  BY <1>4, <1>5, TellFits
<1> HIDE DEF a
<1>7. /\ O \in [at : {O.at}, input : {O.input}, held : {O.held}, forced : {O.forced}]
      /\ O.at = "probe" /\ O.input = i /\ O.held = <<>>
  BY DEF NoOpening
<1> HIDE DEF O
<1>8. Shaped(s) /\ s.plan = a.plan /\ s.lane = a.lane /\ s.talk.turn = a.talk.turn /\ s.talk.opening = O
  <2>1. Shaped(a)
    BY <1>6 DEF Fits
  <2> QED
    BY <1>7, <2>1 DEF Shaped, TalkShaped
<1> HIDE DEF s
<1>9. Gated(s.talk.opening, s.plan.gen, s.lane.caller, day)
  <2>1. <<>> \in Seq(Input) /\ Elems(<<>>) = {} /\ OneEach(<<>>)
    BY DEF Elems, OneEach
  <2> QED
    BY <1>1, <1>5, <1>6, <1>7, <1>8, <2>1 DEF Gated
<1>10. Fits(s, day)
  BY <1>6, <1>8, <1>9 DEF Fits
<1>11. Fits(ThroughGate(s), day)
  BY <1>1, <1>2, <1>7, <1>8, <1>10, ThroughGateFits
<1> QED
  BY <1>1, <1>3, <1>11, FitsBecome

LEMMA AbortedFits == ASSUME FitsInv, DaysGo, AbortPlannerTurn PROVE Fits(Now', day')
<1>1. Fits(Now, day) /\ day' = day /\ Becomes(EndWaiting(StopLive(StopQueued(Now)), "stopped"))
  BY DEF FitsInv, AbortPlannerTurn, Acts
<1>2. "stopped" \in Words
  BY DEF Words, Hows
<1>3. Fits(StopLive(StopQueued(Now)), day)
  BY <1>1, StopQueuedFits, StopLiveFits
<1>4. Fits(EndWaiting(StopLive(StopQueued(Now)), "stopped"), day)
  BY <1>2, <1>3, EndWaitingFits
<1> QED
  BY <1>1, <1>4, FitsBecome

LEMMA LoadedFits ==
  ASSUME FitsInv, DaysGo, NEW saved \in Seq(Input), OneEach(saved), LoadPlan(saved)
  PROVE  Fits(Now', day')
<1>1. /\ Fits(Now, day) /\ InputAssumption /\ Own(Now, day) /\ day' = day /\ "ticks" \notin day /\ Now.plan.gen < MaxPlans
  BY NowFields DEF FitsInv, OwnInv, DaysGo, TicksAlone, LoadPlan, Acts
<1>2. Becomes(Loaded(Now, saved, Elems(saved), Elems(saved) \intersect Report # {}))
  BY DEF LoadPlan, Loaded, Now
<1>3. Fits(Loaded(Now, saved, Elems(saved), Elems(saved) \intersect Report # {}), day)
  BY <1>1, LoadFits
<1> QED
  BY <1>1, <1>2, <1>3, FitsBecome

LEMMA CrashedFits == ASSUME FitsInv, DaysGo, Crash PROVE Fits(Now', day')
<1>1. Fits(Now, day) /\ day' = day /\ Listed(plan, lane.caller) /\ lane.caller \in [Input -> Words \union {"none"}]
  BY NowFields DEF FitsInv, Fits, Crash, Acts
<1>2. Shaped(Now')
  <2>1. OwnInv'
    BY QuietCrash DEF FitsInv
  <2> QED
    BY <2>1 DEF OwnInv, Own
<1>3. (Now').plan = plan' /\ (Now').lane = lane' /\ (Now').talk = talk'
  BY DEF Now
<1>4. lane'.caller \in [Input -> Words \union {"none"}] /\ Sent(lane'.caller) = Sent(lane.caller) /\ lane'.tails = {}
  <2> DEFINE c == [i \in Input |-> IF lane.caller[i] # "waiting" THEN lane.caller[i]
                                   ELSE IF i \in Elems(plan.pending) THEN "kept" ELSE "discarded"]
  <2>1. lane'.caller = c /\ lane'.tails = {}
    BY DEF Crash
  <2>2. c \in [Input -> Words \union {"none"}]
    BY <1>1 DEF Words, Hows
  <2>3. \A i \in Input : c[i] # "none" <=> lane.caller[i] # "none"
    OBVIOUS
  <2> HIDE DEF c
  <2>4. Sent(c) = Sent(lane.caller)
    BY <2>3 DEF Sent
  <2> QED
    BY <2>1, <2>2, <2>4
<1>5. Listed(plan', lane'.caller)
  <2>1. /\ plan'.pending = plan.pending /\ plan'.forced = plan.forced /\ plan'.heard = plan.heard
        /\ plan'.gen = plan.gen /\ plan'.goal = plan.goal /\ plan'.limit \in {"none", "armed", "held"}
        /\ plan'.paused = plan.paused /\ plan'.kept = plan.kept /\ plan'.failures \in 0..2
    <3>1. PlanShaped(plan)
      BY <1>1, NowFields DEF Fits, Shaped
    <3> QED
      BY <1>1, <3>1 DEF Crash, PlanShaped, Listed
  <2> QED
    BY <1>1, <1>4, <2>1 DEF Listed
<1>6. talk'.opening = NoOpening /\ \A t \in Turn : talk'.turn[t] = Idle
  <2>1. TalkShaped(talk)
    BY <1>1, NowFields DEF Fits, Shaped
  <2> QED
    BY <2>1 DEF Crash, TalkShaped
<1>7. Gated(talk'.opening, plan'.gen, lane'.caller, day')
  BY <1>6, NoGate
<1>8. \A t \in Turn : TurnFits(talk'.turn[t], plan', lane'.caller, day')
  BY <1>6 DEF TurnFits, Idle
<1> QED
  BY <1>2, <1>3, <1>4, <1>5, <1>7, <1>8 DEF Fits

LEMMA ReportedFits == ASSUME FitsInv, DaysGo, ReportWake PROVE Fits(Now', day')
<1> DEFINE s == [Now EXCEPT !.lane.reportWake = FALSE]
           s2 == [s EXCEPT !.lane.restored = FALSE]
           s3 == [s2 EXCEPT !.lane.asked = TRUE]
<1>1. Fits(Now, day) /\ day' = day
  BY DEF FitsInv, ReportWake
<1>2. Fits(s, day)
  BY <1>1, SetRestFits
<1>3. Becomes(s) \/ Becomes(Pump(s3))
  BY DEF ReportWake
<1> HIDE DEF s
<1>4. Fits(s2, day)
  BY <1>2, SetRestFits
<1> HIDE DEF s2
<1>5. Fits(s3, day)
  BY <1>4, SetRestFits
<1> HIDE DEF s3
<1>6. Fits(Pump(s3), day)
  BY <1>5, PumpFits
<1> QED
  BY <1>1, <1>2, <1>3, <1>6, FitsBecome

LEMMA FlaggedFits ==
  ASSUME FitsInv, DaysGo, NEW t \in Turn, StartCheck(t) \/ HoldTimesOut(t) \/ TurnTimesOut(t)
  PROVE  Fits(Now', day')
<1> DEFINE s == [Now EXCEPT !.talk.turn[t].late = TRUE]
           r == [s EXCEPT !.talk.turn[t].aborted = TRUE]
<1>1. Fits(Now, day)
  BY DEF FitsInv
<1>2. CASE StartCheck(t)
  <2>1. "check" \in day /\ day' = day /\ Becomes([Now EXCEPT !.talk.turn[t].checking = TRUE])
    BY <1>2 DEF StartCheck, May
  <2>2. Fits([Now EXCEPT !.talk.turn[t].checking = TRUE], day)
    BY <1>1, <2>1, FlagFits
  <2> QED
    BY <2>1, <2>2, FitsBecome
<1>3. CASE HoldTimesOut(t)
  <2>1. day' = day /\ Becomes([Now EXCEPT !.talk.turn[t].hold = FALSE])
    BY <1>3 DEF HoldTimesOut
  <2>2. Fits([Now EXCEPT !.talk.turn[t].hold = FALSE], day)
    BY <1>1, FlagFits
  <2> QED
    BY <2>1, <2>2, FitsBecome
<1>4. CASE TurnTimesOut(t)
  <2>1. day' = day /\ Becomes([Now EXCEPT !.talk.turn[t].late = TRUE, !.talk.turn[t].aborted = TRUE])
    BY <1>4 DEF TurnTimesOut
  <2>2. [Now EXCEPT !.talk.turn[t].late = TRUE, !.talk.turn[t].aborted = TRUE] = r
    OBVIOUS
  <2>3. Fits(s, day)
    BY <1>1, FlagFits
  <2> HIDE DEF s
  <2>4. Fits(r, day)
    BY <2>3, FlagFits
  <2> QED
    BY <2>1, <2>2, <2>4, FitsBecome
<1> QED
  BY <1>2, <1>3, <1>4

LEMMA TickedFits == ASSUME FitsInv, DaysGo, NEW e, TickOver(e) PROVE Fits(Now', day')
<1>1. Fits(Now, day) /\ day' = day /\ e \in Now.lane.tails
  BY NowFields DEF FitsInv, TickOver
<1>2. e.how \in Hows
  BY <1>1 DEF Fits
<1>3. PICK free \in BOOLEAN : Becomes(Settled(Now, e, free))
  BY DEF TickOver
<1>4. Fits(Settled(Now, e, free), day)
  BY <1>1, <1>2, SettledFits
<1> QED
  BY <1>1, <1>3, <1>4, FitsBecome

LEMMA LimitFits ==
  ASSUME FitsInv, DaysGo, ResetComes \/ CancelResend \/ SwitchPlanner
  PROVE  Fits(Now', day')
<1> DEFINE h == [Now EXCEPT !.plan.limit = "held"]
           n == [Now EXCEPT !.plan.limit = "none"]
           m == [Now EXCEPT !.talk.moved = TRUE]
<1>1. Fits(Now, day) /\ day' = day
  BY DEF FitsInv, ResetComes, CancelResend, SwitchPlanner, Acts
<1>2. Becomes(h) \/ Becomes(Pump(n)) \/ Becomes(m)
  BY DEF ResetComes, CancelResend, SwitchPlanner
<1>3. Fits(h, day) /\ Fits(n, day) /\ Fits(m, day)
  BY <1>1, SetPlanFits, SetRestFits
<1> HIDE DEF h, n, m
<1>4. Fits(Pump(n), day)
  BY <1>3, PumpFits
<1> QED
  BY <1>1, <1>2, <1>3, <1>4, FitsBecome

LEMMA RetriedFits == ASSUME FitsInv, DaysGo, RetryCompaction PROVE Fits(Now', day')
<1> DEFINE ids == Elems(plan.pending) \intersect plan.kept
           s1 == [Now EXCEPT !.lane.restored = FALSE]
           s2 == [s1 EXCEPT !.lane.quiet = FALSE]
           s == [s2 EXCEPT !.lane.asked = TRUE]
<1>1. Fits(Now, day) /\ day' = day /\ Spare
  BY DEF FitsInv, RetryCompaction, Acts
<1>2. Becomes(IF HasRoom(s) THEN Run(s, ids, TRUE) ELSE s)
  BY DEF RetryCompaction
<1>3. ids \subseteq Sent(lane.caller)
  BY <1>1, NowFields DEF Fits, Listed
<1>4. s.lane.caller = lane.caller /\ s.talk = talk /\ s.lane.running = lane.running
  <2>1. LaneShaped(lane)
    BY <1>1, NowFields DEF Fits, Shaped
  <2> QED
    BY <2>1 DEF Now, LaneShaped
<1>5. FreeTurns(s) # {}
  <2> HIDE DEF s
  <2> QED
    BY <1>1, <1>4, NowFields DEF Spare, FreeTurns
<1> HIDE DEF ids
<1>6. Fits(s1, day)
  BY <1>1, SetRestFits
<1> HIDE DEF s1
<1>7. Fits(s2, day)
  BY <1>6, SetRestFits
<1> HIDE DEF s2
<1>8. Fits(s, day)
  BY <1>7, SetRestFits
<1> HIDE DEF s
<1>9. Fits(Run(s, ids, TRUE), day)
  BY <1>3, <1>4, <1>5, <1>8, RunFits
<1>10. Fits(IF HasRoom(s) THEN Run(s, ids, TRUE) ELSE s, day)
  BY <1>8, <1>9
<1> QED
  BY <1>1, <1>2, <1>10, FitsBecome

LEMMA CompactedFits == ASSUME FitsInv, DaysGo, Compact PROVE Fits(Now', day')
<1>1. Fits(Now, day) /\ day' = day /\ FreeTurns(Now) # {} /\ Becomes(Claimed(Now, "compaction", {}, FALSE))
  BY NowFields DEF FitsInv, Compact, Acts, Spare, FreeTurns
<1>2. Fits(Claimed(Now, "compaction", {}, FALSE), day)
  <2>1. "compaction" \in {"reply", "opening", "compaction"} /\ {} \in SUBSET Sent(Now.lane.caller)
        /\ FALSE \in BOOLEAN /\ "compaction" # "opening"
    OBVIOUS
  <2> QED
    BY <1>1, <2>1, ClaimedFits
<1> QED
  BY <1>1, <1>2, FitsBecome

LEMMA AbleFits == ASSUME FitsInv, DaysGo, SetAble \/ LeaseLost PROVE Fits(Now', day')
<1>1. Fits(Now, day) /\ day' = day /\ Fits(Drop(Now), day)
  BY DropFits DEF FitsInv, SetAble, LeaseLost, Acts
<1>2. Becomes([Now EXCEPT !.talk.able = ~talk.able]) \/ Becomes([Drop(Now) EXCEPT !.talk.able = FALSE])
  BY NowFields DEF SetAble, LeaseLost
<1>3. Fits([Now EXCEPT !.talk.able = ~talk.able], day)
  <2>1. (~talk.able) \in BOOLEAN
    OBVIOUS
  <2> QED
    BY <1>1, <2>1, SetRestFits
<1>4. Fits([Drop(Now) EXCEPT !.talk.able = FALSE], day)
  <2>1. FALSE \in BOOLEAN
    OBVIOUS
  <2> QED
    BY <1>1, <2>1, SetRestFits
<1> QED
  BY <1>1, <1>2, <1>3, <1>4, FitsBecome

LEMMA DetectedFits == ASSUME FitsInv, DaysGo, PlannerDetected PROVE Fits(Now', day')
<1> DEFINE s1 == [Now EXCEPT !.talk.known = TRUE]
           s == [s1 EXCEPT !.lane.detecting = FALSE]
           q == IF lane.detecting THEN Pump(s) ELSE s
<1>1. /\ Fits(Now, day) /\ Own(Now, day) /\ InputAssumption /\ day' = day
      /\ talk.opening.at = "probe" => FreeTurns(q) # {} /\ Becomes(ThroughGate(q))
      /\ talk.opening.at # "probe" => Becomes(q)
  BY DEF FitsInv, OwnInv, Own, DaysGo, PlannerDetected
<1>2. Own(q, day) /\ q.talk.opening = talk.opening
  <2>1. Alike(Now, Now)
    BY <1>1, AlikeSelf DEF Fits
  <2>2. Alike(Now, s1)
    BY <2>1, SetTalk
  <2>3. s.talk.opening = talk.opening
    <3>1. TalkShaped(talk) /\ LaneShaped(lane)
      BY <1>1, NowFields DEF Fits, Shaped
    <3> QED
      BY <3>1 DEF Now, TalkShaped, LaneShaped
  <2> HIDE DEF s1
  <2>4. Alike(Now, s)
    BY <2>2, SetLane
  <2>5. Fits(s1, day)
    BY <1>1, SetRestFits DEF s1
  <2>6. Fits(s, day)
    BY <2>5, SetRestFits
  <2> HIDE DEF s
  <2>7. Own(s, day) /\ Own(Pump(s), day) /\ Pump(s).talk.opening = talk.opening
    BY <1>1, <2>3, <2>4, <2>6, AlikeOwn, PumpOwn, PumpFits
  <2> QED
    BY <2>3, <2>7
<1>3. Fits(q, day)
  <2>1. Fits(s1, day)
    BY <1>1, SetRestFits
  <2> HIDE DEF s1
  <2>2. Fits(s, day)
    BY <2>1, SetRestFits
  <2> HIDE DEF s
  <2> QED
    BY <2>2, PumpFits
<1> HIDE DEF q
<1>4. ASSUME talk.opening.at = "probe" PROVE Fits(ThroughGate(q), day)
  <2>1. "ticks" \notin day
    BY <1>1, <1>4, NowFields DEF Own, DayOwn
  <2> QED
    BY <1>1, <1>2, <1>3, <1>4, <2>1, ThroughGateFits
<1> QED
  BY <1>1, <1>3, <1>4, FitsBecome

LEMMA RoomFits == ASSUME FitsInv, DaysGo, TurnRoomFreed PROVE Fits(Now', day')
<1> DEFINE s == [Now EXCEPT !.talk.room = TRUE]
<1>1. /\ Fits(Now, day) /\ Own(Now, day) /\ InputAssumption /\ day' = day
      /\ talk.opening.at = "slot" => Spare /\ Becomes(OpenGoal(s))
      /\ talk.opening.at # "slot" => Becomes(IF lane.awaitingSlot THEN Pump(s) ELSE s)
  BY DEF FitsInv, OwnInv, Own, DaysGo, TurnRoomFreed
<1>2. /\ Fits(s, day) /\ Own(s, day) /\ s.talk.opening = talk.opening /\ s.talk.turn = talk.turn
      /\ s.lane = lane
  <2>1. Alike(Now, s)
    BY <1>1, AlikeSelf, SetTalk DEF Fits
  <2>2. s.talk.opening = talk.opening /\ s.talk.turn = talk.turn /\ s.lane = lane
    <3>1. TalkShaped(talk)
      BY <1>1, NowFields DEF Fits, Shaped
    <3> QED
      BY <3>1 DEF Now, TalkShaped
  <2> QED
    BY <1>1, <2>1, <2>2, AlikeOwn, SetRestFits
<1> HIDE DEF s
<1>3. ASSUME talk.opening.at = "slot" PROVE Fits(OpenGoal(s), day)
  <2>1. "ticks" \notin day
    BY <1>1, <1>3, NowFields DEF Own, DayOwn
  <2>2. FreeTurns(s) # {}
    BY <1>1, <1>2, <1>3, NowFields DEF Spare, FreeTurns
  <2> QED
    BY <1>1, <1>2, <1>3, <2>1, <2>2, OpenGoalFits
<1>4. Fits(Pump(s), day)
  BY <1>2, PumpFits
<1> QED
  BY <1>1, <1>2, <1>3, <1>4, FitsBecome

LEMMA EndTurnFits == ASSUME FitsInv, DaysGo, NEW t \in Turn, EndTurn(t) PROVE Fits(Now', day')
<1> DEFINE r == talk.turn[t]
<1>1. /\ InputAssumption /\ Own(Now, day) /\ Fits(Now, day) /\ day' = day /\ r.at = "talking"
  BY DEF FitsInv, OwnInv, DaysGo, EndTurn
<1>2. PICK how \in Outcomes(r), free \in BOOLEAN :
        \E wait \in IF how = "limited" THEN {"armed", "held"} ELSE {"none"} :
         LET s == Over(Now, t, how, wait)
             mine == talk.live = t
             lets == IF lane.running = None THEN EndTurnLease(s, free) ELSE s
         IN  Becomes(CASE lane.running = t /\ r.kind = "reply" -> Ended(s, t, r, how, free)
                       [] r.kind = "opening" -> LET q == OpeningOver(s, r, how)
                                                IN  IF mine THEN Pump(EndTurnLease(q, free)) ELSE q
                       [] OTHER -> IF mine THEN Pump(lets) ELSE s)
  BY DEF EndTurn
<1>3. PICK wait \in IF how = "limited" THEN {"armed", "held"} ELSE {"none"} :
         LET s == Over(Now, t, how, wait)
             mine == talk.live = t
             lets == IF lane.running = None THEN EndTurnLease(s, free) ELSE s
         IN  Becomes(CASE lane.running = t /\ r.kind = "reply" -> Ended(s, t, r, how, free)
                       [] r.kind = "opening" -> LET q == OpeningOver(s, r, how)
                                                IN  IF mine THEN Pump(EndTurnLease(q, free)) ELSE q
                       [] OTHER -> IF mine THEN Pump(lets) ELSE s)
  BY <1>2
<1>4. how \in Hows /\ wait \in {"none", "armed", "held"} /\ (r.dropped => how = "discarded")
  <2>1. r.dropped \in BOOLEAN /\ r.aborted \in BOOLEAN
    BY <1>1, NowFields DEF Fits, Shaped, TalkShaped, TurnIsRecord
  <2>2. wait \in {"none", "armed", "held"}
    BY <1>3
  <2>3. how \in Hows /\ (r.dropped => how = "discarded")
    BY <1>2, <2>1 DEF Outcomes, Hows
  <2> QED
    BY <2>2, <2>3
<1> DEFINE s == Over(Now, t, how, wait)
           q == OpeningOver(s, r, how)
           X == IF how = "answered" /\ r.kind # "compaction" THEN r.ids ELSE {}
<1>5. PICK n : /\ Becomes(n)
               /\ \/ n = Ended(s, t, r, how, free) \/ n = s \/ n = Pump(s) \/ n = Pump(EndTurnLease(s, free))
                  \/ r.kind = "opening" /\ (n = q \/ n = Pump(EndTurnLease(q, free)))
  BY <1>3
<1>6. how # "discarded" => \A u \in Turn \ {t} : talk.turn[u].at = "talking" => talk.turn[u].dropped
  BY <1>1, <1>4, NowFields DEF Own, LiveOwn
<1>7. CallOver(Now, s, t, X)
  BY <1>1, OverSays, NowFields DEF Own
<1>8. Fits(s, day) /\ s.lane.caller = lane.caller
      /\ (how # "answered" => s.plan.pending = plan.pending /\ s.plan.heard = plan.heard)
  BY <1>1, <1>4, <1>6, OverFits, NowFields
<1> HIDE DEF s
<1>9. ASSUME r.kind = "opening" PROVE Fits(q, day)
  <2>1. CASE how \in {"paused", "limited"}
    <3>1. ~r.dropped
      BY <1>4, <2>1
    <3>2. \E g \in Input : r.ids = {g} /\ g \notin Elems(plan.pending) \union plan.heard
      BY <1>1, <1>9, <3>1, NowFields DEF Fits, TurnFits
    <3>3. r.ids \subseteq Sent(lane.caller)
      BY <1>1, NowFields DEF Fits, TurnFits
    <3>4. \A u \in Turn : s.talk.turn[u].at = "talking" => s.talk.turn[u].dropped
      BY <1>6, <1>7, <2>1, NowFields DEF CallOver
    <3>5. \E g \in Sent(s.lane.caller) : r.ids = {g} /\ g \notin Elems(s.plan.pending) \union s.plan.heard
      BY <1>8, <2>1, <3>2, <3>3
    <3> QED
      BY <1>4, <1>8, <3>4, <3>5, OpeningOverFits
  <2>2. CASE how \notin {"paused", "limited"}
    BY <1>4, <1>8, <2>2, OpeningOverFits
  <2> QED
    BY <2>1, <2>2
<1> HIDE DEF q
<1>10. ASSUME r.kind = "opening" PROVE Fits(Pump(EndTurnLease(q, free)), day)
  BY <1>9, <1>10, EndTurnLeaseFits, PumpFits
<1>11. Fits(Pump(s), day) /\ Fits(Pump(EndTurnLease(s, free)), day)
  BY <1>8, EndTurnLeaseFits, PumpFits
<1>12. Fits(Ended(s, t, r, how, free), day)
  BY <1>4, <1>8, EndedFits
<1> HIDE DEF r, X
<1>13. Fits(n, day)
  BY <1>5, <1>8, <1>9, <1>10, <1>11, <1>12
<1> QED
  BY <1>1, <1>5, <1>13, FitsBecome

LEMMA CheckedFits == ASSUME FitsInv, DaysGo, NoGoalChecks, NEW t \in Turn, ChecksOut(t) PROVE Fits(Now', day')
<1> DEFINE s == [Now EXCEPT !.talk.turn[t].checking = FALSE]
           r == talk.turn[t]
<1>1. /\ Own(Now, day) /\ Fits(Now, day) /\ day \in Days /\ day' = day /\ r.checking
      /\ Becomes(IF ToolTurn(t) THEN Landed(s, r) ELSE s)
  BY SMTT(40) DEF FitsInv, OwnInv, DaysGo, ChecksOut
<1>2. Fits(s, day) /\ WithFlag(Now, s, t)
  <2>1. FALSE \in BOOLEAN
    OBVIOUS
  <2> QED
    BY <1>1, <2>1, FlagFits, SetFlag DEF Fits
<1>3. s.lane = lane
  BY <1>2, NowFields DEF WithFlag, ButTurn
<1> HIDE DEF s
<1>4. r.ids \subseteq Sent(s.lane.caller) /\ "check" \in day
  BY <1>1, <1>3, NowFields DEF Fits, TurnFits
<1>5. "goal" \notin day
  BY <1>1, <1>4 DEF NoGoalChecks
<1>6. \A u \in Turn : s.talk.turn[u].kind = "opening" /\ s.talk.turn[u].at = "talking" => s.talk.turn[u].dropped
  BY <1>2, <1>5 DEF Fits, TurnFits
<1>7. Fits(Landed(s, r), day)
  BY <1>2, <1>4, <1>6, LandedFits
<1> QED
  BY <1>1, <1>2, <1>7, FitsBecome

LEMMA GraceFits == ASSUME FitsInv, DaysGo, NEW t \in Turn, GraceEnds(t) PROVE Fits(Now', day')
<1> DEFINE r == talk.turn[t]
           d == Drop(Now)
           h == [d EXCEPT !.talk.turn[t].kind = "hung"]
           c == Counted(h, r, "failed")
<1>1. Fits(Now, day) /\ day' = day
  BY DEF FitsInv, GraceEnds
<1>2. PICK free \in BOOLEAN : Becomes(Ended(c, t, r, "failed", free))
  BY DEF GraceEnds
<1>3. Fits(d, day)
  BY <1>1, DropFits
<1> HIDE DEF d
<1>4. Fits(h, day)
  <2>1. FALSE \in BOOLEAN
    OBVIOUS
  <2> QED
    BY <1>3, <2>1, FlagFits
<1> HIDE DEF h
<1>5. Fits(c, day)
  BY <1>4, CountedFits
<1> HIDE DEF c
<1>6. Fits(Ended(c, t, r, "failed", free), day)
  <2>1. "failed" \in Hows
    BY DEF Hows
  <2> QED
    BY <1>5, <2>1, EndedFits
<1> QED
  BY <1>1, <1>2, <1>6, FitsBecome

LEMMA LoadsOneEach ==
  /\ <<>> \in Seq(Input) /\ OneEach(<<>>)
  /\ \A i \in Input : <<i>> \in Seq(Input) /\ OneEach(<<i>>)
BY DEF OneEach

LEMMA FitsInit == ASSUME DaysGo, Init PROVE Fits(Now, day)
<1>1. Shaped(Now)
  BY OwnInit DEF OwnInv, Own
<1>2. Listed(Now.plan, Now.lane.caller)
  <2>1. <<>> \in Seq(Input) /\ Elems(<<>>) = {} /\ OneEach(<<>>)
    BY DEF Elems, OneEach
  <2> QED
    BY <2>1, NowFields DEF Init, FreshPlan, Listed, DaysGo, InputAssumption
<1>3. /\ Now.lane.caller \in [Input -> Words \union {"none"}] /\ Now.lane.tails = {}
      /\ Now.talk.opening = NoOpening /\ \A t \in Turn : Now.talk.turn[t] = Idle
  BY NowFields DEF Init
<1>4. Gated(Now.talk.opening, Now.plan.gen, Now.lane.caller, day)
  BY <1>3, NoGate
<1>5. \A t \in Turn : TurnFits(Now.talk.turn[t], Now.plan, Now.lane.caller, day)
  BY <1>3 DEF TurnFits, Idle
<1> QED
  BY <1>1, <1>2, <1>3, <1>4, <1>5 DEF Fits

LEMMA FitsStep == ASSUME DaysGo, NoGoalChecks, FitsInv, [Next]_vars PROVE FitsInv'
<1>1. OwnInv'
  BY OwnStep DEF FitsInv
<1>2. ASSUME UNCHANGED vars PROVE Fits(Now', day')
  <2>1. Now' = Now /\ day' = day
    BY <1>2 DEF vars, Now
  <2> QED
    BY <2>1 DEF FitsInv
<1>3. ASSUME Next PROVE Fits(Now', day')
  <2>1. CASE \E i \in Input : Send(i) \/ Deliver(i) \/ ForceSend(i) \/ Withdraw(i) \/ StartPlanning(i)
    BY <2>1, SentFits, DeliveredFits, ForcedFits, WithdrawnFits, StartFits
  <2>2. CASE \E t \in Turn : TurnMoves(t) \/ StartCheck(t) \/ HoldTimesOut(t) \/ TurnTimesOut(t)
    BY <2>2, EndTurnFits, CheckedFits, GraceFits, FlaggedFits DEF TurnMoves
  <2>3. CASE LoadPlan(<<>>) \/ (\E i \in Input : LoadPlan(<<i>>))
    BY <2>3, LoadsOneEach, LoadedFits
  <2>4. CASE AbortPlannerTurn \/ Crash \/ ReportWake \/ \E e \in lane.tails : TickOver(e)
    BY <2>4, AbortedFits, CrashedFits, ReportedFits, TickedFits
  <2>5. CASE ResetComes \/ CancelResend \/ SwitchPlanner \/ RetryCompaction \/ Compact \/ SetAble \/ LeaseLost
             \/ PlannerDetected \/ TurnRoomFreed
    BY <2>5, LimitFits, RetriedFits, CompactedFits, AbleFits, DetectedFits, RoomFits
  <2> QED
    BY <1>3, <2>1, <2>2, <2>3, <2>4, <2>5 DEF Next
<1>4. FitsInv' <=> Fits(Now', day') /\ OwnInv'
  BY DEF FitsInv
<1> QED
  BY <1>1, <1>2, <1>3, <1>4

LEMMA FitsHolds == ASSUME DaysGo, NoGoalChecks PROVE Spec => []FitsInv
<1>1. Init => FitsInv
  BY OwnInit, FitsInit DEF FitsInv
<1>2. FitsInv /\ [Next]_vars => FitsInv'
  BY FitsStep
<1> QED
  BY <1>1, <1>2, PTL DEF Spec

\* An input waits once, or is in the transcript, and never both, whatever is sent,
\* forced, withdrawn, stopped, loaded or lost to a crash while turns end: but for an
\* opening whose own tool change had its goal written before the opening paused.
THEOREM AnsweredOnceHolds == ASSUME DaysGo, NoGoalChecks PROVE Spec => []AnsweredOnce
<1>1. FitsInv => AnsweredOnce
  BY NowFields DEF FitsInv, Fits, Listed, OneEach, AnsweredOnce
<1> QED
  BY <1>1, FitsHolds, PTL

\* The bound on the acts holds: each is counted where it is taken.
LEMMA ActsCounted ==
  ASSUME InputAssumption, acts \in 0..MaxActs, [Next]_vars PROVE (acts \in 0..MaxActs)'
<1> DEFINE Kept1 == acts' = acts
           More == acts < MaxActs /\ acts' = acts + 1
<1>1. ASSUME NEW i \in Input, Send(i) \/ Deliver(i) \/ ForceSend(i) \/ Withdraw(i) \/ StartPlanning(i)
      PROVE  Kept1 \/ More
  BY <1>1 DEF Send, Deliver, ForceSend, Withdraw, StartPlanning, May, Acts
<1>2. ASSUME NEW t \in Turn, TurnMoves(t) \/ StartCheck(t) \/ HoldTimesOut(t) \/ TurnTimesOut(t)
      PROVE  Kept1
  BY <1>2 DEF TurnMoves, EndTurn, ChecksOut, GraceEnds, StartCheck, HoldTimesOut, TurnTimesOut, May
<1>3. ASSUME NEW saved, LoadPlan(saved) PROVE More
  BY <1>3 DEF LoadPlan, Acts
<1>4. ASSUME NEW e, TickOver(e) PROVE Kept1
  BY <1>4 DEF TickOver
<1>5. AbortPlannerTurn \/ Crash \/ CancelResend \/ SwitchPlanner \/ RetryCompaction \/ Compact \/ SetAble \/ LeaseLost
      => More
  BY DEF AbortPlannerTurn, Crash, CancelResend, SwitchPlanner, RetryCompaction, Compact, SetAble, LeaseLost, Acts
<1>6. ReportWake \/ ResetComes \/ PlannerDetected \/ TurnRoomFreed \/ UNCHANGED vars => Kept1
  BY DEF ReportWake, ResetComes, PlannerDetected, TurnRoomFreed, vars
<1>7. Kept1 \/ More
  <2> HIDE DEF Kept1, More
  <2> QED
    BY <1>1, <1>2, <1>3, <1>4, <1>5, <1>6 DEF Next
<1> QED
  BY <1>7, SMTT(40) DEF InputAssumption

\* The plan, the list, the callers and the turns are what they are said to be: what
\* is forced is of the user's and waits, and every caller hears one of the words.
THEOREM PlanTurnsTyped == ASSUME DaysGo, NoGoalChecks PROVE Spec => []TypeOK
<1>1. Init => acts \in 0..MaxActs
  BY DEF Init, DaysGo, InputAssumption
<1>2. acts \in 0..MaxActs /\ [Next]_vars => (acts \in 0..MaxActs)'
  BY ActsCounted DEF DaysGo
<1>3. FitsInv /\ acts \in 0..MaxActs => TypeOK
  <2> SUFFICES ASSUME FitsInv, acts \in 0..MaxActs PROVE TypeOK
    OBVIOUS
  <2>1. Shaped(Now) /\ Listed(plan, lane.caller) /\ lane.caller \in [Input -> Words \union {"none"}]
        /\ \A t \in Turn : talk.turn[t].ids \subseteq Sent(lane.caller)
    BY NowFields DEF FitsInv, Fits, TurnFits
  <2>2. /\ lane.running \in Turn \union {None} /\ talk.live \in Turn \union {None}
        /\ \A t \in Turn : talk.turn[t].at \in {"free", "talking"}
    BY <2>1, NowFields DEF Shaped, LaneShaped, TalkShaped, TurnIsRecord
  <2>3. Sent(lane.caller) \subseteq Input
    BY DEF Sent
  <2>4. lane.caller \in [Input -> {"none", "waiting", "kept", "busy", "refused", "answered", "failed", "limited",
                                  "paused", "stopped", "discarded"}]
    BY <2>1 DEF Words, Hows
  <2> QED
    BY <2>1, <2>2, <2>3, <2>4 DEF Listed, TypeOK
<1> QED
  BY <1>1, <1>2, <1>3, FitsHolds, PTL DEF Spec

-----------------------------------------------------------------------------
(* Third part: who waits for an answer waits for something. Where an input is *)
(* that a caller waits on, and what will take it from there.                  *)
LEMMA EasesTrans == ASSUME NEW s, NEW r, NEW q, Eases(s, r), Eases(r, q) PROVE Eases(s, q)
BY DEF Eases

LEMMA FrameTrans == ASSUME NEW s, NEW r, NEW q, Frame(s, r), Frame(r, q) PROVE Frame(s, q)
BY DEF Frame

\* Nobody whose caller is not told leaves the list.
LEMMA FrameEases ==
  ASSUME NEW s, NEW r, Frame(s, r), NEW X,
         \A i \in Input : r.lane.caller[i] = "waiting" => s.lane.caller[i] = "waiting" /\ i \notin X,
         Elems(r.plan.pending) \subseteq Elems(s.plan.pending), Elems(s.plan.pending) \ X \subseteq Elems(r.plan.pending)
  PROVE  Eases(s, r) /\ Owing(r) \subseteq Owing(s) \ X
<1>1. Owing(r) \subseteq Owing(s) \ X
  BY DEF Owing
<1>2. \A i \in Input \ X : Somewhere(s, i) => Somewhere(r, i)
  BY DEF Somewhere, TakenBy, Frame
<1>3. Owing(r) \subseteq Input
  BY DEF Owing
<1>4. Lost(r) \subseteq Lost(s)
  BY <1>1, <1>2, <1>3 DEF Lost
<1>5. Calls(r) \subseteq Calls(s)
  BY <1>1 DEF Calls, Frame
<1> QED
  BY <1>1, <1>4, <1>5 DEF Eases

LEMMA TellSays ==
  ASSUME NEW s, NEW D, Fits(s, D), NEW X, NEW what \in Words
  PROVE  LET r == Tell(s, X, what)
         IN  /\ Fits(r, D) /\ Frame(s, r) /\ r.plan = s.plan /\ r.talk = s.talk
             /\ \A i \in Input : r.lane.caller[i] = IF i \in X THEN what ELSE s.lane.caller[i]
<1> DEFINE c == [i \in Input |-> IF i \in X THEN what ELSE s.lane.caller[i]]
           r == [s EXCEPT !.lane.caller = c]
<1>1. Shaped(s)
  BY DEF Fits
<1>2. Tell(s, X, what) = r
  BY <1>1 DEF Tell, Shaped, LaneShaped
<1>3. \A i \in Input : c[i] = IF i \in X THEN what ELSE s.lane.caller[i]
  OBVIOUS
<1>4. Fits(r, D)
  BY <1>2, TellFits
<1> HIDE DEF c
<1>5. Frame(s, r) /\ r.plan = s.plan /\ r.talk = s.talk /\ r.lane.caller = c
  BY <1>1 DEF Shaped, LaneShaped, Frame
<1> HIDE DEF r
<1> QED
  BY <1>2, <1>3, <1>4, <1>5

LEMMA TakeSays ==
  ASSUME NEW s, NEW D, Fits(s, D), NEW X
  PROVE  LET r == Take(s, X)
         IN  /\ Fits(r, D) /\ Frame(s, r) /\ r.lane = s.lane /\ r.talk = s.talk
             /\ Elems(r.plan.pending) = Elems(s.plan.pending) \ X
             /\ r.plan.limit = s.plan.limit /\ r.plan.paused = s.plan.paused
<1> DEFINE r == Take(s, X)
           q == Without(s.plan.pending, X)
           f == s.plan.forced \ X
           k == [s EXCEPT !.plan.pending = q, !.plan.forced = f]
<1>1. Fits(r, D) /\ r.lane = s.lane /\ r.talk = s.talk /\ Elems(r.plan.pending) = Elems(s.plan.pending) \ X
  BY TakeFits
<1>2. Shaped(s) /\ Shaped(r)
  BY <1>1 DEF Fits
<1>3. r = k
  BY <1>2 DEF Take, Shaped, PlanShaped
<1> HIDE DEF q, f
<1>4. k.plan.limit = s.plan.limit /\ k.plan.paused = s.plan.paused
  BY <1>2 DEF Shaped, PlanShaped
<1> HIDE DEF k, r
<1>5. Frame(s, r)
  BY <1>1, <1>2 DEF Frame
<1> QED
  BY <1>1, <1>3, <1>4, <1>5 DEF r

\* Inputs leave the list, and each whose caller waits is told.
LEMMA StruckEases ==
  ASSUME NEW s, NEW D, Fits(s, D), NEW Y, NEW X, NEW what \in Words \ {"waiting"}, Owing(s) \intersect Y \subseteq X
  PROVE  LET r == Tell(Take(s, Y), X, what)
         IN  /\ Fits(r, D) /\ Frame(s, r) /\ Eases(s, r) /\ r.talk = s.talk
             /\ Owing(r) \subseteq Owing(s) \ X /\ Elems(r.plan.pending) = Elems(s.plan.pending) \ Y
             /\ r.plan.limit = s.plan.limit /\ r.plan.paused = s.plan.paused
<1> DEFINE k == Take(s, Y)
           r == Tell(k, X, what)
<1>1. /\ Fits(k, D) /\ Frame(s, k) /\ k.lane = s.lane /\ k.talk = s.talk
      /\ Elems(k.plan.pending) = Elems(s.plan.pending) \ Y
      /\ k.plan.limit = s.plan.limit /\ k.plan.paused = s.plan.paused
  BY TakeSays
<1> HIDE DEF k
<1>2. /\ Fits(r, D) /\ Frame(k, r) /\ r.plan = k.plan /\ r.talk = k.talk
      /\ \A i \in Input : r.lane.caller[i] = IF i \in X THEN what ELSE k.lane.caller[i]
  BY <1>1, TellSays
<1> HIDE DEF r
<1>3. Frame(s, r)
  BY <1>1, <1>2, FrameTrans
<1>4. Owing(r) \subseteq Owing(s) \ X
  BY <1>1, <1>2 DEF Owing
<1>5. Eases(s, r)
  <2>1. \A i \in Input \ X : i \in Owing(s) => (Somewhere(s, i) => Somewhere(r, i))
    BY <1>1, <1>2, <1>3 DEF Somewhere, TakenBy, Frame
  <2>2. Lost(r) \subseteq Lost(s)
    BY <1>4, <2>1 DEF Lost, Owing
  <2>3. Calls(r) \subseteq Calls(s)
    BY <1>1, <1>2, <1>3, <1>4 DEF Calls, Frame
  <2> QED
    BY <1>4, <2>2, <2>3 DEF Eases
<1> QED
  BY <1>1, <1>2, <1>3, <1>4, <1>5 DEF r, k

-----------------------------------------------------------------------------
LEMMA ClaimedSays ==
  ASSUME NEW s, Shaped(s), FreeTurns(s) # {}, s.talk.live = None,
         NEW k \in {"reply", "opening", "compaction"}, NEW ids, NEW retry \in BOOLEAN
  PROVE  /\ TurnTaken(s, Claimed(s, k, ids, retry), NextTurn(s), k, ids)
         /\ Claimed(s, k, ids, retry).lane = s.lane
<1> DEFINE t == NextTurn(s)
           n == [Idle EXCEPT !.at = "talking", !.kind = k, !.gen = s.plan.gen, !.ids = ids,
                             !.retry = retry, !.hold = k = "reply"]
           w == WithSlot(s)
           c == [w EXCEPT !.talk.live = t, !.talk.turn[t] = n]
<1>1. n.at = "talking" /\ n.kind = k /\ n.ids = ids /\ n.dropped = FALSE /\ n.checking = FALSE
  BY DEF Idle
<1>2. /\ Shaped(w) /\ w.plan = s.plan /\ w.lane = s.lane /\ w.talk.turn = s.talk.turn
      /\ w.talk.opening = s.talk.opening
  BY WithSlotSays
<1>3. w.talk.known = s.talk.known
  BY DEF WithSlot, Shaped, TalkShaped
<1>4. t \in Turn /\ s.talk.turn[t] = Idle
  BY DEF FreeTurns, NextTurn
<1>5. Claimed(s, k, ids, retry) = c
  BY DEF Claimed
<1>6. Shaped(Claimed(s, k, ids, retry)) /\ Claimed(s, k, ids, retry).lane = s.lane
  BY ClaimedTakes DEF Claims
<1> HIDE DEF t, n, w
<1>7. /\ c.plan = w.plan /\ c.talk.live = t /\ c.talk.known = w.talk.known
      /\ c.talk.opening = w.talk.opening
      /\ c.talk.turn[t] = n /\ \A u \in Turn \ {t} : c.talk.turn[u] = w.talk.turn[u]
  BY <1>2, <1>4 DEF Shaped, TalkShaped
<1> HIDE DEF c
<1> QED
  BY <1>1, <1>2, <1>3, <1>4, <1>5, <1>6, <1>7 DEF TurnTaken, t

LEMMA RunSays ==
  ASSUME NEW s, Shaped(s), FreeTurns(s) # {}, s.talk.live = None, NEW ids, NEW retry \in BOOLEAN
  PROVE  LET r == Run(s, ids, retry)
             t == NextTurn(s)
         IN  TurnTaken(s, r, t, "reply", ids) /\ LaneSame(s, r) /\ r.lane.running = t
<1> DEFINE t == NextTurn(s)
           c == Claimed(s, "reply", ids, retry)
           r == [c EXCEPT !.lane.running = t]
<1>1. TurnTaken(s, c, t, "reply", ids) /\ c.lane = s.lane
  BY ClaimedSays
<1>2. Run(s, ids, retry) = r
  BY DEF Run
<1> HIDE DEF c, t
<1>3. Shaped(c) /\ t \in Turn
  BY <1>1 DEF TurnTaken
<1>4. Shaped(r) /\ r.plan = c.plan /\ r.talk = c.talk /\ LaneSame(c, r) /\ r.lane.running = t
  BY <1>3 DEF Shaped, LaneShaped, LaneSame
<1> HIDE DEF r
<1> QED
  BY <1>1, <1>2, <1>4 DEF TurnTaken, LaneSame, t

\* A turn taken where none was in flight leaves everything where it is.
LEMMA TakenEases ==
  ASSUME NEW s, Shaped(s), NEW r, NEW t, NEW k, NEW ids, TurnTaken(s, r, t, k, ids), LaneSame(s, r),
         s.lane.running = None \/ r.lane.running = s.lane.running, InputAssumption
  PROVE  Eases(s, r)
<1>1. Owing(r) = Owing(s) /\ Elems(r.plan.pending) = Elems(s.plan.pending) /\ None \notin Turn
  BY DEF TurnTaken, LaneSame, Owing, InputAssumption
<1>2. \A u \in Turn, i \in Input : TakenBy(s, u, i) => u # t /\ TakenBy(r, u, i)
  BY <1>1, IdleShape DEF TakenBy, TurnTaken
<1>3. \A i \in Input : Somewhere(s, i) => Somewhere(r, i)
  BY <1>1, <1>2 DEF Somewhere, TurnTaken, LaneSame
<1>4. Lost(r) \subseteq Lost(s)
  BY <1>1, <1>3 DEF Lost, Owing
<1>5. Calls(r) \subseteq Calls(s)
  BY <1>1 DEF Calls, LaneSame
<1> QED
  BY <1>1, <1>4, <1>5 DEF Eases

-----------------------------------------------------------------------------
LEMMA FrameReady ==
  ASSUME NEW s, NEW r, NEW D, Ready(s, D), Frame(s, r), Fits(r, D), Eases(s, r)
  PROVE  Ready(r, D)
BY DEF Ready, Frame, Turning, Calling, Eases

LEMMA TakenReady ==
  ASSUME NEW s, NEW r, NEW D, Ready(s, D), NEW t, NEW k \in {"reply", "opening", "compaction"}, NEW ids,
         TurnTaken(s, r, t, k, ids), LaneSame(s, r), Eases(s, r), k = "compaction" => "compact" \in D /\ ids = {},
         Fits(r, D), InputAssumption
  PROVE  Ready(r, D)
<1>1. None \notin Turn /\ t \in Turn
  BY DEF InputAssumption, TurnTaken
<1>2. Turning(r, D)
  <2>1. \A u \in Turn :
            /\ r.talk.turn[u].at = "free" => r.talk.turn[u] \in {Idle, Checked}
            /\ r.talk.turn[u].checking \in BOOLEAN
            /\ "check" \in D => ~r.talk.turn[u].dropped
            /\ r.talk.turn[u].at = "talking" /\ r.talk.turn[u].kind = "compaction" => "compact" \in D /\ r.talk.turn[u].ids = {}
            /\ r.talk.turn[u].kind = "hung" => r.talk.turn[u].dropped
    <3> SUFFICES ASSUME NEW u \in Turn
                 PROVE  /\ r.talk.turn[u].at = "free" => r.talk.turn[u] \in {Idle, Checked}
                        /\ r.talk.turn[u].checking \in BOOLEAN
                        /\ "check" \in D => ~r.talk.turn[u].dropped
                        /\ r.talk.turn[u].at = "talking" /\ r.talk.turn[u].kind = "compaction" => "compact" \in D /\ r.talk.turn[u].ids = {}
                        /\ r.talk.turn[u].kind = "hung" => r.talk.turn[u].dropped
      OBVIOUS
    <3>1. CASE u = t
      BY <3>1 DEF TurnTaken
    <3>2. CASE u # t
      BY <3>2 DEF TurnTaken, Ready, Turning
    <3> QED
      BY <3>1, <3>2
  <2>2. \A u, v \in Turn : r.talk.turn[u].checking /\ r.talk.turn[v].checking => u = v
    BY DEF TurnTaken, Ready, Turning
  <2>3. r.talk.live # None
    BY <1>1 DEF TurnTaken
  <2> QED
    BY <2>1, <2>2, <2>3 DEF Turning
<1>3. Calling(r, D)
  BY DEF Ready, Calling, Eases, TurnTaken, LaneSame
<1> QED
  BY <1>2, <1>3 DEF Ready

LEMMA DropWithdrawnEases ==
  ASSUME NEW s, NEW D, Fits(s, D)
  PROVE  LET q == DropWithdrawn(s)
         IN  /\ Fits(q, D) /\ Frame(s, q) /\ Eases(s, q) /\ q.talk = s.talk
             /\ q.plan.limit = s.plan.limit /\ q.plan.paused = s.plan.paused
<1> DEFINE gone == Waiting(s, Elems(s.plan.pending) \intersect s.lane.withdrawn)
           q == Tell(Take(s, gone), gone, "stopped")
<1>1. "stopped" \in Words \ {"waiting"}
  BY DEF Words, Hows
<1>2. DropWithdrawn(s) = q
  BY DEF DropWithdrawn
<1> HIDE DEF gone
<1>3. /\ Fits(q, D) /\ Frame(s, q) /\ Eases(s, q) /\ q.talk = s.talk
      /\ q.plan.limit = s.plan.limit /\ q.plan.paused = s.plan.paused
  BY <1>1, StruckEases
<1> QED
  BY <1>2, <1>3

LEMMA RefuseEases ==
  ASSUME NEW s, NEW D, Fits(s, D)
  PROVE  Fits(Refuse(s), D) /\ Frame(s, Refuse(s)) /\ Eases(s, Refuse(s)) /\ Calls(Refuse(s)) = {}
<1> DEFINE waiting == Waiting(s, Elems(s.plan.pending))
           q == Tell(Take(s, waiting \intersect User), waiting, "refused")
<1>1. "refused" \in Words \ {"waiting"}
  BY DEF Words, Hows
<1>2. Refuse(s) = q
  BY DEF Refuse
<1>3. Owing(s) \intersect Elems(s.plan.pending) \subseteq waiting
  BY DEF Owing, Waiting
<1>4. Owing(s) \intersect (waiting \intersect User) \subseteq waiting
  OBVIOUS
<1> HIDE DEF waiting
<1>5. /\ Fits(q, D) /\ Frame(s, q) /\ Eases(s, q) /\ Owing(q) \subseteq Owing(s) \ waiting
      /\ Elems(q.plan.pending) = Elems(s.plan.pending) \ (waiting \intersect User)
  BY <1>1, <1>4, StruckEases
<1> HIDE DEF q
<1>6. Calls(q) = {}
  BY <1>3, <1>5 DEF Calls
<1> QED
  BY <1>2, <1>5, <1>6

\* What the pump leaves with a caller waiting has a turn, a probe or a slot to wait for.
LEMMA PumpServes ==
  ASSUME NEW s, NEW D, Ready(s, D), InputAssumption
  PROVE  Eases(s, Pump(s)) /\ Ready(Pump(s), D) /\ Served(Pump(s))
<1> DEFINE q == DropWithdrawn(s)
           batch == LiveBatch(q)
           d == [q EXCEPT !.lane.detecting = TRUE]
           a == [q EXCEPT !.lane.awaitingSlot = FALSE]
           w == [q EXCEPT !.lane.awaitingSlot = TRUE]
           n == Run(a, batch, FALSE)
<1>1. /\ Fits(q, D) /\ Frame(s, q) /\ Eases(s, q) /\ q.talk = s.talk
      /\ q.plan.limit = s.plan.limit /\ q.plan.paused = s.plan.paused
  BY DropWithdrawnEases DEF Ready
<1>2. Ready(q, D)
  BY <1>1, FrameReady
<1>3. batch = {} => Calls(q) = {}
  <2>1. batch = {} => Elems(q.plan.pending) \intersect User = {}
    BY DEF LiveBatch
  <2> HIDE DEF batch, q
  <2> QED
    BY <2>1 DEF Calls
<1>4. batch \subseteq Sent(q.lane.caller)
  <2> HIDE DEF q
  <2> QED
    BY <1>1, LiveBatchOf DEF Fits, Listed
<1>5. \/ ~Due(s) /\ Pump(s) = s
      \/ Due(s) /\ batch = {} /\ Pump(s) = q
      \/ Due(s) /\ ~s.talk.known /\ Pump(s) = d
      \/ Due(s) /\ Pump(s) = Refuse(q)
      \/ Due(s) /\ s.talk.known /\ Pump(s) = n
      \/ Due(s) /\ ~HasRoom(s) /\ Pump(s) = w
  BY DEF Pump
<1> HIDE DEF q, batch
<1>6. CASE ~Due(s) /\ Pump(s) = s
  <2>1. Eases(s, s)
    BY DEF Eases
  <2>2. \/ s.lane.restored \/ s.lane.running # None \/ s.lane.detecting \/ Holds(s) \/ s.plan.paused
        \/ s.talk.live # None \/ FreeTurns(s) = {}
    BY <1>6 DEF Due
  <2>3. s.talk.live = None /\ s.lane.running = None => FreeTurns(s) # {}
    BY DEF Ready, Turning, FreeTurns, InputAssumption
  <2>4. Served(s)
    BY <2>2, <2>3 DEF Served, Waits, Ready, Calling
  <2> QED
    BY <1>6, <2>1, <2>4
<1>7. CASE Due(s) /\ batch = {} /\ Pump(s) = q
  BY <1>1, <1>2, <1>3, <1>7 DEF Served
<1>8. Shaped(q)
      /\ (Due(s) => q.lane.running = None /\ q.talk.live = None /\ FreeTurns(q) # {})
  BY <1>1 DEF Fits, Due, Frame, FreeTurns
<1>9. CASE Due(s) /\ ~s.talk.known /\ Pump(s) = d
  <2>1. Fits(d, D)
    BY <1>1, SetRestFits
  <2>2. /\ d.plan = q.plan /\ d.talk = q.talk /\ d.lane.running = q.lane.running /\ d.lane.tails = q.lane.tails
        /\ d.lane.withdrawn = q.lane.withdrawn /\ d.lane.restored = q.lane.restored /\ d.lane.detecting
        /\ d.lane.caller = q.lane.caller
    BY <1>8 DEF Shaped, LaneShaped
  <2> HIDE DEF d
  <2>3. Owing(d) = Owing(q) /\ (\A i \in Input : Somewhere(d, i) <=> Somewhere(q, i)) /\ Calls(d) = Calls(q)
    BY <2>2 DEF Owing, Somewhere, TakenBy, Calls
  <2>4. Eases(q, d)
    BY <2>3 DEF Eases, Lost, Owing
  <2>5. Ready(d, D)
    BY <1>1, <1>2, <1>9, <2>1, <2>2, <2>3 DEF Ready, Turning, Calling
  <2>6. Served(d)
    BY <1>1, <1>9, <2>2 DEF Served
  <2> QED
    BY <1>1, <1>9, <2>4, <2>5, <2>6, EasesTrans
<1>10. CASE Due(s) /\ Pump(s) = Refuse(q)
  <2>1. Fits(Refuse(q), D) /\ Frame(q, Refuse(q)) /\ Eases(q, Refuse(q)) /\ Calls(Refuse(q)) = {}
    BY <1>1, RefuseEases
  <2>2. Ready(Refuse(q), D)
    BY <1>2, <2>1, FrameReady
  <2> QED
    BY <1>1, <1>10, <2>1, <2>2, EasesTrans DEF Served
<1>11. ASSUME NEW v \in BOOLEAN
       PROVE  LET r == [q EXCEPT !.lane.awaitingSlot = v]
              IN  /\ Ready(r, D) /\ Eases(q, r) /\ r.talk = q.talk /\ r.lane.awaitingSlot = v
                  /\ r.lane.caller = q.lane.caller /\ r.lane.running = q.lane.running
  <2> DEFINE r == [q EXCEPT !.lane.awaitingSlot = v]
  <2>1. Fits(r, D)
    BY <1>1, SetRestFits
  <2>2. /\ r.plan = q.plan /\ r.talk = q.talk /\ r.lane.running = q.lane.running /\ r.lane.tails = q.lane.tails
        /\ r.lane.withdrawn = q.lane.withdrawn /\ r.lane.restored = q.lane.restored
        /\ r.lane.detecting = q.lane.detecting /\ r.lane.caller = q.lane.caller /\ r.lane.awaitingSlot = v
    BY <1>8 DEF Shaped, LaneShaped
  <2> HIDE DEF r
  <2>3. Owing(r) = Owing(q) /\ (\A i \in Input : Somewhere(r, i) <=> Somewhere(q, i)) /\ Calls(r) = Calls(q)
    BY <2>2 DEF Owing, Somewhere, TakenBy, Calls
  <2>4. Eases(q, r)
    BY <2>3 DEF Eases, Lost, Owing
  <2>5. Ready(r, D)
    BY <1>2, <2>1, <2>2, <2>3 DEF Ready, Turning, Calling
  <2> QED
    BY <2>2, <2>4, <2>5 DEF r
<1>12. CASE Due(s) /\ ~HasRoom(s) /\ Pump(s) = w
  <2>1. Ready(w, D) /\ Eases(q, w) /\ w.talk = q.talk /\ w.lane.awaitingSlot
    BY <1>11
  <2> HIDE DEF w
  <2>2. Served(w)
    BY <1>1, <1>12, <2>1 DEF Served, Waits, HasRoom
  <2> QED
    BY <1>1, <1>12, <2>1, <2>2, EasesTrans
<1>13. CASE Due(s) /\ s.talk.known /\ Pump(s) = n
  <2>1. /\ Ready(a, D) /\ Eases(q, a) /\ a.talk = q.talk
        /\ a.lane.caller = q.lane.caller /\ a.lane.running = q.lane.running
    BY <1>11
  <2> HIDE DEF a
  <2>2. Shaped(a) /\ FreeTurns(a) # {} /\ a.talk.live = None /\ a.lane.running = None
    BY <1>8, <1>13, <2>1 DEF Ready, Fits, FreeTurns
  <2> DEFINE t == NextTurn(a)
  <2>3. TurnTaken(a, n, t, "reply", batch) /\ LaneSame(a, n) /\ n.lane.running = t
    BY <2>2, RunSays
  <2>4. Fits(n, D)
    BY <1>4, <2>1, <2>2, RunFits DEF Ready
  <2> HIDE DEF n, t
  <2>5. Eases(a, n)
    BY <2>2, <2>3, TakenEases
  <2>6. Ready(n, D)
    BY <2>1, <2>3, <2>4, <2>5, TakenReady
  <2>7. Served(n)
    BY <2>3 DEF Served, TurnTaken, InputAssumption
  <2> QED
    BY <1>1, <1>13, <2>1, <2>5, <2>6, <2>7, EasesTrans
<1> HIDE DEF d, a, w, n
<1> QED
  BY <1>5, <1>6, <1>7, <1>9, <1>10, <1>12, <1>13

-----------------------------------------------------------------------------
LEMMA PumpOwed ==
  ASSUME NEW s, NEW D, Ready(s, D), Lost(s) = {}, InputAssumption
  PROVE  Owed(Pump(s), D)
BY PumpServes DEF Owed, Eases

LEMMA FrameOwed ==
  ASSUME NEW s, NEW r, NEW D, Owed(s, D), Frame(s, r), Fits(r, D), Eases(s, r), Waits(s) => Waits(r)
  PROVE  Owed(r, D)
<1>1. Ready(r, D)
  BY FrameReady DEF Owed
<1> QED
  BY <1>1 DEF Owed, Eases, Served, Frame

LEMMA SetMark ==
  ASSUME NEW s, Shaped(s), NEW t \in Turn, NEW b \in BOOLEAN
  PROVE  /\ Marked(s, [s EXCEPT !.talk.turn[t].aborted = b], t)
         /\ Marked(s, [s EXCEPT !.talk.turn[t].forceStopped = b], t)
         /\ Marked(s, [s EXCEPT !.talk.turn[t].late = b], t)
         /\ Marked(s, [s EXCEPT !.talk.turn[t].hold = FALSE], t)
<1> DEFINE Put(n) == [s EXCEPT !.talk.turn[t] = n]
           o == s.talk.turn[t]
           n1 == [o EXCEPT !.aborted = b]
           n2 == [o EXCEPT !.forceStopped = b]
           n3 == [o EXCEPT !.late = b]
           n4 == [o EXCEPT !.hold = FALSE]
           Same(n) == n.at = o.at /\ n.kind = o.kind /\ n.ids = o.ids /\ n.dropped = o.dropped /\ n.checking = o.checking
<1>0. TurnIsRecord(o)
  BY DEF Shaped, TalkShaped
<1>1. TurnIsRecord(n1) /\ Same(n1) /\ TurnIsRecord(n2) /\ Same(n2)
  BY <1>0 DEF TurnIsRecord
<1>2. TurnIsRecord(n3) /\ Same(n3) /\ TurnIsRecord(n4) /\ Same(n4)
  BY <1>0 DEF TurnIsRecord
<1>3. ASSUME NEW n, TurnIsRecord(n), Same(n) PROVE Marked(s, Put(n), t)
  <2>1. ButTurn(s, Put(n), t) /\ Put(n).talk.turn[t] = n
    BY <1>3, PutTurn
  <2>2. Put(n).talk.known = s.talk.known /\ Put(n).talk.room = s.talk.room
    BY DEF Shaped, TalkShaped
  <2> HIDE DEF Put, o
  <2> QED
    BY <1>3, <2>1, <2>2 DEF Marked, ButTurn, o
<1>4. /\ [s EXCEPT !.talk.turn[t].aborted = b] = Put(n1) /\ [s EXCEPT !.talk.turn[t].forceStopped = b] = Put(n2)
      /\ [s EXCEPT !.talk.turn[t].late = b] = Put(n3) /\ [s EXCEPT !.talk.turn[t].hold = FALSE] = Put(n4)
  OBVIOUS
<1> HIDE DEF Put, n1, n2, n3, n4, Same
<1>5. Marked(s, Put(n1), t) /\ Marked(s, Put(n2), t) /\ Marked(s, Put(n3), t) /\ Marked(s, Put(n4), t)
  BY <1>1, <1>2, <1>3
<1> QED
  BY <1>4, <1>5

LEMMA MarkedOwed ==
  ASSUME NEW s, NEW r, NEW D, NEW t \in Turn, Marked(s, r, t), s.talk.turn[t].at = "talking", Fits(r, D)
  PROVE  /\ Eases(s, r) /\ (Ready(s, D) => Ready(r, D)) /\ (Owed(s, D) => Owed(r, D))
<1>1. Owing(r) = Owing(s) /\ Calls(r) = Calls(s)
  BY DEF Marked, Owing, Calls
<1>2. \A u \in Turn, i \in Input : TakenBy(s, u, i) => TakenBy(r, u, i)
  BY DEF Marked, TakenBy
<1>3. \A i \in Input : Somewhere(s, i) => Somewhere(r, i)
  BY <1>2 DEF Marked, Somewhere
<1>4. Eases(s, r)
  BY <1>1, <1>3 DEF Eases, Lost, Owing
<1>5. ASSUME Ready(s, D) PROVE Ready(r, D)
  <2>1. \A u \in Turn : /\ r.talk.turn[u].at = s.talk.turn[u].at /\ r.talk.turn[u].kind = s.talk.turn[u].kind
                        /\ r.talk.turn[u].ids = s.talk.turn[u].ids
                        /\ r.talk.turn[u].dropped = s.talk.turn[u].dropped
                        /\ r.talk.turn[u].checking = s.talk.turn[u].checking
                        /\ s.talk.turn[u].at = "free" => r.talk.turn[u] = s.talk.turn[u]
    BY DEF Marked
  <2>2. s.talk.live = None => \E u \in Turn : r.talk.turn[u] = Idle
    BY <1>5, <2>1, IdleShape DEF Ready, Turning
  <2>3. Turning(r, D)
    BY <1>5, <2>1, <2>2 DEF Ready, Turning, Marked
  <2>4. Calling(r, D)
    BY <1>1, <1>5 DEF Ready, Calling, Marked
  <2> QED
    BY <2>3, <2>4 DEF Ready
<1>6. Owed(s, D) => Owed(r, D)
  BY <1>1, <1>4, <1>5 DEF Owed, Eases, Served, Waits, Holds, Marked
<1> QED
  BY <1>4, <1>5, <1>6

LEMMA StopLiveOwed ==
  ASSUME NEW s, NEW D, Owed(s, D), LiveOwn(s)
  PROVE  Owed(StopLive(s), D)
<1>1. Fits(s, D) /\ Shaped(s) /\ s.talk.live \in Turn \union {None}
  BY DEF Owed, Ready, Fits, Shaped, TalkShaped
<1>2. CASE s.talk.live = None
  BY <1>2 DEF StopLive
<1>3. CASE s.talk.live # None
  <2> DEFINE l == s.talk.live
             r == [s EXCEPT !.talk.turn[l].aborted = TRUE]
  <2>1. l \in Turn /\ s.talk.turn[l].at = "talking"
    BY <1>1, <1>3 DEF LiveOwn
  <2>2. Marked(s, r, l) /\ Fits(r, D)
    BY <1>1, <2>1, SetMark, FlagFits
  <2>3. StopLive(s) = r
    BY <1>3 DEF StopLive
  <2> HIDE DEF r
  <2> QED
    BY <2>1, <2>2, <2>3, MarkedOwed
<1> QED
  BY <1>1, <1>2, <1>3

-----------------------------------------------------------------------------
\* One that is taken in waits in the list, or has heard that it is kept.
LEMMA AdmitOwed ==
  ASSUME NEW s, NEW D, Owed(s, D), NEW i \in Input, i \in D, s.lane.caller[i] = "none",
         NEW force \in BOOLEAN, force => i \in User, InputAssumption
  PROVE  Owed(Admit(s, i, force), D)
<1> DEFINE l == Lifted(s)
           e == Enlisted(l.plan.pending, i, force, s.plan.forced \union Taken(s))
           f == IF force THEN l.plan.forced \union {i} ELSE l.plan.forced
           q == [l EXCEPT !.lane.restored = FALSE, !.lane.quiet = FALSE, !.lane.asked = TRUE,
                          !.plan.pending = e, !.plan.forced = f]
           w == IF i \in User /\ (Holds(q) \/ q.plan.paused) THEN "kept" ELSE "waiting"
           r == Tell(q, {i}, w)
<1>1. /\ Shaped(l) /\ l.lane = s.lane /\ l.talk = s.talk /\ l.plan.pending = s.plan.pending
      /\ Listed(l.plan, l.lane.caller)
  <2>1. Fits([s EXCEPT !.plan.limit = "none"], D)
    BY SetPlanFits DEF Owed, Ready
  <2>2. Shaped(s) /\ Fits(s, D)
    BY DEF Fits, Owed, Ready
  <2>3. l \in {s, [s EXCEPT !.plan.limit = "none"]}
    BY DEF Lifted
  <2>4. [s EXCEPT !.plan.limit = "none"].lane = s.lane /\ [s EXCEPT !.plan.limit = "none"].talk = s.talk
        /\ [s EXCEPT !.plan.limit = "none"].plan.pending = s.plan.pending
    BY <2>2 DEF Shaped, PlanShaped
  <2> QED
    BY <2>1, <2>2, <2>3, <2>4 DEF Fits
<1>0. i \notin Sent(s.lane.caller)
  BY DEF Sent
<1> HIDE DEF l
<1>2. Elems(e) = Elems(s.plan.pending) \union {i}
  <2>1. i \notin Elems(l.plan.pending) /\ l.plan.pending \in Seq(Input) /\ OneEach(l.plan.pending)
    BY <1>0, <1>1 DEF Listed
  <2>2. Elems(e) = Elems(l.plan.pending) \union {i}
    BY <2>1, EnlistedOf
  <2> QED
    BY <1>1, <2>2
<1> HIDE DEF e, f
<1>3. /\ Shaped(q) /\ q.talk = s.talk /\ q.plan.pending = e /\ ~q.lane.restored
      /\ q.lane.running = s.lane.running /\ q.lane.tails = s.lane.tails /\ q.lane.withdrawn = s.lane.withdrawn
      /\ q.lane.detecting = s.lane.detecting /\ q.lane.caller = s.lane.caller
  BY <1>1, ZenonT(60) DEF Shaped, PlanShaped, LaneShaped
<1>4. Admit(s, i, force) = Pump(r)
  BY <1>1 DEF Admit, r, w, q, f, e, l
<1>5. Fits(r, D)
  <2>1. Fits(Admitted(s, i, force), D)
    BY <1>0, AdmitFits DEF Owed, Ready
  <2>2. Admitted(s, i, force) = r
    BY <1>1 DEF Admitted, r, w, q, f, e, l
  <2> HIDE DEF r
  <2> QED
    BY <2>1, <2>2
<1> HIDE DEF q, w
<1>6. /\ r.plan = q.plan /\ r.talk = q.talk /\ ~r.lane.restored
      /\ r.lane.running = q.lane.running /\ r.lane.tails = q.lane.tails /\ r.lane.withdrawn = q.lane.withdrawn
      /\ r.lane.detecting = q.lane.detecting
      /\ \A j \in Input : j # i => r.lane.caller[j] = q.lane.caller[j]
  <2> DEFINE c == [j \in Input |-> IF j \in {i} THEN w ELSE q.lane.caller[j]]
  <2>1. r = [q EXCEPT !.lane.caller = c]
    BY <1>3 DEF Tell, Shaped, LaneShaped
  <2>2. \A j \in Input : j # i => c[j] = q.lane.caller[j]
    OBVIOUS
  <2> HIDE DEF c, r
  <2> QED
    BY <1>3, <2>1, <2>2 DEF Shaped, LaneShaped
<1> HIDE DEF r
<1>7. \A j \in Input : Somewhere(s, j) \/ j = i => Somewhere(r, j)
  BY <1>2, <1>3, <1>6 DEF Somewhere, TakenBy
<1>8. Owing(r) \subseteq Owing(s) \union {i}
  BY <1>3, <1>6 DEF Owing
<1>9. Lost(r) = {}
  BY <1>7, <1>8 DEF Lost, Owed, Owing
<1>10. Ready(r, D)
  BY <1>3, <1>5, <1>6, <1>8 DEF Owed, Ready, Turning, Calling
<1> QED
  BY <1>4, <1>9, <1>10, PumpOwed

-----------------------------------------------------------------------------
LEMMA LooseOwed ==
  ASSUME NEW s, NEW r, NEW D, Loose(s, r), Fits(r, D)
  PROVE  /\ Owing(r) = Owing(s) /\ Calls(r) = Calls(s) /\ Lost(r) = Lost(s)
         /\ Ready(s, D) => Ready(r, D)
         /\ Owed(s, D) /\ (s.lane.detecting => r.lane.detecting) /\ (Waits(s) => Waits(r)) => Owed(r, D)
<1>1. Owing(r) = Owing(s) /\ Calls(r) = Calls(s)
  BY DEF Loose, Owing, Calls
<1>2. \A i \in Input : Somewhere(r, i) <=> Somewhere(s, i)
  BY DEF Loose, Somewhere, TakenBy
<1>3. Lost(r) = Lost(s)
  BY <1>1, <1>2 DEF Lost, Owing
<1>4. Ready(s, D) => Ready(r, D)
  BY <1>1 DEF Ready, Turning, Calling, Loose
<1>5. Owed(s, D) /\ (s.lane.detecting => r.lane.detecting) /\ (Waits(s) => Waits(r)) => Owed(r, D)
  BY <1>1, <1>3, <1>4 DEF Owed, Served, Loose
<1> QED
  BY <1>1, <1>3, <1>4, <1>5

\* What a caller's own wait does not turn on is set.
LEMMA LimitLoose ==
  ASSUME NEW s, Shaped(s), s.lane.detecting => ~s.talk.known, NEW v
  PROVE  LET r == [s EXCEPT !.plan.limit = v] IN Loose(s, r) /\ r.lane = s.lane /\ r.plan.limit = v
BY DEF Shaped, PlanShaped, LaneShaped, TalkShaped, Loose

LEMMA SetLoose ==
  ASSUME NEW s, Shaped(s), s.lane.detecting => ~s.talk.known, NEW v
  PROVE  /\ LET r == [s EXCEPT !.lane.restored = FALSE]
            IN  Loose(s, r) /\ r.plan = s.plan /\ r.talk = s.talk /\ ~r.lane.restored /\ r.lane.detecting = s.lane.detecting
                /\ r.lane.awaitingSlot = s.lane.awaitingSlot
         /\ LET r == [s EXCEPT !.lane.quiet = v]
            IN  Loose(s, r) /\ r.plan = s.plan /\ r.talk = s.talk /\ r.lane.restored = s.lane.restored
                /\ r.lane.detecting = s.lane.detecting /\ r.lane.awaitingSlot = s.lane.awaitingSlot
         /\ LET r == [s EXCEPT !.lane.asked = v]
            IN  Loose(s, r) /\ r.plan = s.plan /\ r.talk = s.talk /\ r.lane.restored = s.lane.restored
                /\ r.lane.detecting = s.lane.detecting /\ r.lane.awaitingSlot = s.lane.awaitingSlot
         /\ LET r == [s EXCEPT !.lane.reportWake = v]
            IN  Loose(s, r) /\ r.plan = s.plan /\ r.talk = s.talk /\ r.lane.restored = s.lane.restored
                /\ r.lane.detecting = s.lane.detecting /\ r.lane.awaitingSlot = s.lane.awaitingSlot
         /\ LET r == [s EXCEPT !.talk.moved = v]
            IN  Loose(s, r) /\ r.plan = s.plan /\ r.lane = s.lane /\ r.talk.room = s.talk.room
         /\ v \in BOOLEAN => LET r == [s EXCEPT !.talk.able = v]
                             IN  Loose(s, r) /\ r.plan = s.plan /\ r.lane = s.lane /\ r.talk.room = s.talk.room
BY ZenonT(60) DEF Shaped, PlanShaped, LaneShaped, TalkShaped, Loose

-----------------------------------------------------------------------------
LEMMA OwedBecome == ASSUME NEW r, Becomes(r), Owed(r, day), day' = day PROVE Owed(Now', day')
<1>1. Now' = r
  <2>1. Fits(r, day)
    BY DEF Owed, Ready
  <2>2. r = [plan |-> r.plan, lane |-> r.lane, talk |-> r.talk]
    BY <2>1 DEF Fits, Shaped
  <2> QED
    BY <2>2 DEF Becomes, Now
<1> QED
  BY <1>1

LEMMA OwedGives ==
  ASSUME OwedInv, DaysOwe
  PROVE  /\ FitsInv /\ DaysGo /\ NoGoalChecks /\ InputAssumption /\ Own(Now, day) /\ day \in Days
         /\ Owed(Now, day) /\ Ready(Now, day) /\ Fits(Now, day) /\ Shaped(Now)
         /\ (Now.lane.detecting => ~Now.talk.known)
<1>1. NoGoalChecks
  BY DEF DaysOwe, ChecksStay, NoGoalChecks
<1> QED
  BY <1>1 DEF OwedInv, Owed, Ready, Calling, FitsInv, OwnInv, Own, DaysOwe, DaysGo

LEMMA ReportOwed == ASSUME OwedInv, DaysOwe, ReportWake PROVE Owed(Now', day')
<1> DEFINE s == [Now EXCEPT !.lane.reportWake = FALSE]
           a == [s EXCEPT !.lane.restored = FALSE]
           b == [a EXCEPT !.lane.asked = TRUE]
<1>1. day' = day /\ (Becomes(s) \/ Becomes(Pump([s EXCEPT !.lane.restored = FALSE, !.lane.asked = TRUE])))
  BY DEF ReportWake
<1>2. [s EXCEPT !.lane.restored = FALSE, !.lane.asked = TRUE] = b
  OBVIOUS
<1>3. /\ Fits(s, day) /\ Loose(Now, s) /\ s.plan = Now.plan /\ s.talk = Now.talk
      /\ s.lane.detecting = Now.lane.detecting /\ s.lane.awaitingSlot = Now.lane.awaitingSlot
  BY OwedGives, SetRestFits, SetLoose
<1> HIDE DEF s
<1>4. Owed(s, day) /\ Shaped(s) /\ (s.lane.detecting => ~s.talk.known)
  BY <1>3, OwedGives, LooseOwed DEF Waits, Holds, Loose
<1>5. Fits(a, day) /\ Loose(s, a) /\ a.talk = s.talk
  BY <1>3, <1>4, SetRestFits, SetLoose
<1> HIDE DEF a
<1>6. Ready(a, day) /\ Lost(a) = {} /\ Shaped(a) /\ (a.lane.detecting => ~a.talk.known)
  BY <1>4, <1>5, LooseOwed DEF Owed, Loose
<1>7. Fits(b, day) /\ Loose(a, b)
  BY <1>5, <1>6, SetRestFits, SetLoose
<1> HIDE DEF b
<1>8. Ready(b, day) /\ Lost(b) = {}
  BY <1>6, <1>7, LooseOwed
<1>9. Owed(Pump(b), day)
  BY <1>8, OwedGives, PumpOwed
<1> QED
  BY <1>1, <1>2, <1>4, <1>9, OwedBecome

LEMMA LimitOwed ==
  ASSUME OwedInv, DaysOwe, ResetComes \/ CancelResend \/ SwitchPlanner
  PROVE  Owed(Now', day')
<1> DEFINE h == [Now EXCEPT !.plan.limit = "held"]
           n == [Now EXCEPT !.plan.limit = "none"]
           m == [Now EXCEPT !.talk.moved = TRUE]
<1>1. day' = day /\ (Becomes(h) \/ Becomes(Pump(n)) \/ Becomes(m))
  BY DEF ResetComes, CancelResend, SwitchPlanner, Acts
<1>2. Fits(h, day) /\ Fits(n, day) /\ Fits(m, day)
  BY OwedGives, SetPlanFits, SetRestFits
<1>3. Loose(Now, h) /\ h.lane = Now.lane /\ h.plan.limit = "held" /\ Loose(Now, n)
  BY OwedGives, LimitLoose
<1>4. Loose(Now, m) /\ m.plan = Now.plan /\ m.lane = Now.lane /\ m.talk.room = Now.talk.room
  BY OwedGives, SetLoose
<1> HIDE DEF h, n, m
<1>5. Owed(h, day) /\ Owed(m, day)
  BY <1>2, <1>3, <1>4, OwedGives, LooseOwed DEF Waits, Holds
<1>6. Ready(n, day) /\ Lost(n) = {}
  BY <1>2, <1>3, OwedGives, LooseOwed DEF Owed
<1>7. Owed(Pump(n), day)
  BY <1>6, OwedGives, PumpOwed
<1> QED
  BY <1>1, <1>5, <1>7, OwedBecome

LEMMA AbleOwed == ASSUME OwedInv, DaysOwe, SetAble PROVE Owed(Now', day')
<1> DEFINE v == ~talk.able
           a == [Now EXCEPT !.talk.able = v]
<1>1. day' = day /\ Becomes(a) /\ v \in BOOLEAN
  BY NowFields DEF SetAble, Acts
<1> HIDE DEF v
<1>2. Fits(a, day) /\ Loose(Now, a) /\ a.plan = Now.plan /\ a.lane = Now.lane /\ a.talk.room = Now.talk.room
  BY <1>1, OwedGives, SetRestFits, SetLoose
<1> HIDE DEF a
<1>3. Owed(a, day)
  BY <1>2, OwedGives, LooseOwed DEF Waits, Holds
<1> QED
  BY <1>1, <1>3, OwedBecome

LEMMA TimesOutOwed == ASSUME OwedInv, DaysOwe, NEW t \in Turn, HoldTimesOut(t) \/ TurnTimesOut(t) PROVE Owed(Now', day')
<1> DEFINE h == [Now EXCEPT !.talk.turn[t].hold = FALSE]
           s == [Now EXCEPT !.talk.turn[t].late = TRUE]
           r == [s EXCEPT !.talk.turn[t].aborted = TRUE]
<1>1. /\ day' = day /\ Now.talk.turn[t].at = "talking"
      /\ Becomes(h) \/ Becomes([Now EXCEPT !.talk.turn[t].late = TRUE, !.talk.turn[t].aborted = TRUE])
  BY NowFields DEF HoldTimesOut, TurnTimesOut, Overdue
<1>2. [Now EXCEPT !.talk.turn[t].late = TRUE, !.talk.turn[t].aborted = TRUE] = r
  OBVIOUS
<1>3. Marked(Now, h, t) /\ Fits(h, day) /\ Marked(Now, s, t) /\ Fits(s, day)
  BY OwedGives, SetMark, FlagFits, ZenonT(60)
<1> HIDE DEF h, s
<1>4. Owed(h, day) /\ Owed(s, day) /\ Shaped(s) /\ s.talk.turn[t].at = "talking"
  BY <1>1, <1>3, OwedGives, MarkedOwed, ZenonT(60) DEF Marked
<1>5. Marked(s, r, t) /\ Fits(r, day)
  BY <1>3, <1>4, SetMark, FlagFits
<1> HIDE DEF r
<1>6. Owed(r, day)
  BY <1>4, <1>5, MarkedOwed
<1> QED
  BY <1>1, <1>2, <1>4, <1>6, OwedBecome

LEMMA CompactOwed == ASSUME OwedInv, DaysOwe, Compact PROVE Owed(Now', day')
<1> DEFINE c == Claimed(Now, "compaction", {}, FALSE)
           t == NextTurn(Now)
<1>1. day' = day /\ Becomes(c) /\ Now.talk.live = None /\ FreeTurns(Now) # {} /\ "compact" \in day
  BY NowFields DEF Compact, Acts, Spare
<1>2. TurnTaken(Now, c, t, "compaction", {}) /\ c.lane = Now.lane
  BY <1>1, OwedGives, ClaimedSays
<1>3. Fits(c, day)
  <2>1. Fits(Now', day')
    BY OwedGives, CompactedFits
  <2>2. Shaped(c)
    BY <1>2 DEF TurnTaken
  <2>3. c = Now'
    BY <1>1, <2>2 DEF Becomes, Now, Shaped
  <2> QED
    BY <1>1, <2>1, <2>3
<1> HIDE DEF c, t
<1>4. LaneSame(Now, c) /\ c.lane.running = Now.lane.running
  BY <1>2 DEF LaneSame
<1>5. Eases(Now, c)
  BY <1>2, <1>4, OwedGives, TakenEases
<1>6. Ready(c, day)
  BY <1>1, <1>2, <1>3, <1>4, <1>5, OwedGives, TakenReady
<1>7. c.talk.live # None
  BY <1>2, OwedGives DEF TurnTaken, InputAssumption
<1>8. Owed(c, day)
  BY <1>5, <1>6, <1>7, OwedGives DEF Owed, Eases, Served
<1> QED
  BY <1>1, <1>8, OwedBecome

LEMMA RetryOwed == ASSUME OwedInv, DaysOwe, RetryCompaction PROVE Owed(Now', day')
<1> DEFINE ids == Elems(plan.pending) \intersect plan.kept
           a == [Now EXCEPT !.lane.restored = FALSE]
           b == [a EXCEPT !.lane.quiet = FALSE]
           s == [b EXCEPT !.lane.asked = TRUE]
           r == Run(s, ids, TRUE)
           t == NextTurn(s)
<1>1. /\ day' = day /\ Now.talk.live = None /\ Now.lane.running = None /\ FreeTurns(Now) # {} /\ Now.plan.paused
      /\ Becomes(IF HasRoom(s) THEN Run(s, ids, TRUE) ELSE s)
  BY NowFields DEF RetryCompaction, Acts, Spare
<1>2. Fits(a, day) /\ Loose(Now, a) /\ a.plan = Now.plan /\ a.lane.detecting = Now.lane.detecting
  BY OwedGives, SetRestFits, SetLoose
<1> HIDE DEF a
<1>3. Owed(a, day) /\ Shaped(a) /\ (a.lane.detecting => ~a.talk.known)
  BY <1>1, <1>2, OwedGives, LooseOwed DEF Waits, Loose
<1>4. Fits(b, day) /\ Loose(a, b) /\ b.plan = a.plan /\ b.lane.detecting = a.lane.detecting
  BY <1>2, <1>3, SetRestFits, SetLoose
<1> HIDE DEF b
<1>5. Owed(b, day) /\ Shaped(b) /\ (b.lane.detecting => ~b.talk.known)
  BY <1>1, <1>2, <1>3, <1>4, LooseOwed DEF Waits, Loose
<1>6. Fits(s, day) /\ Loose(b, s) /\ s.plan = b.plan /\ s.lane.detecting = b.lane.detecting
  BY <1>4, <1>5, SetRestFits, SetLoose
<1> HIDE DEF s
<1>7. Owed(s, day)
  BY <1>1, <1>2, <1>4, <1>5, <1>6, LooseOwed DEF Waits, Loose
<1>8. Shaped(s) /\ s.talk.live = None /\ s.lane.running = None /\ FreeTurns(s) # {}
  BY <1>1, <1>2, <1>4, <1>6 DEF Loose, FreeTurns
<1>9. ids \subseteq Sent(s.lane.caller)
  BY <1>2, <1>4, <1>6, OwedGives, NowFields DEF Fits, Listed, Loose
<1> HIDE DEF ids
<1>10. TurnTaken(s, r, t, "reply", ids) /\ LaneSame(s, r) /\ r.lane.running = t
  BY <1>8, RunSays
<1>11. Fits(r, day)
  BY <1>6, <1>8, <1>9, RunFits
<1> HIDE DEF r, t
<1>12. Eases(s, r)
  BY <1>8, <1>10, OwedGives, TakenEases
<1>13. Ready(r, day)
  BY <1>7, <1>10, <1>11, <1>12, OwedGives, TakenReady DEF Owed
<1>14. r.talk.live # None
  BY <1>10, OwedGives DEF TurnTaken, InputAssumption
<1>15. Owed(r, day)
  BY <1>7, <1>12, <1>13, <1>14 DEF Owed, Eases, Served
<1> QED
  BY <1>1, <1>7, <1>15, OwedBecome DEF r

-----------------------------------------------------------------------------
LEMMA SetCheck ==
  ASSUME NEW s, Shaped(s), NEW t \in Turn, NEW b \in BOOLEAN
  PROVE  CheckSet(s, [s EXCEPT !.talk.turn[t].checking = b], t, b)
<1> DEFINE o == s.talk.turn[t]
           n == [o EXCEPT !.checking = b]
           r == [s EXCEPT !.talk.turn[t] = n]
<1>1. TurnIsRecord(o)
  BY DEF Shaped, TalkShaped
<1>2. /\ TurnIsRecord(n) /\ n.at = o.at /\ n.kind = o.kind /\ n.ids = o.ids /\ n.dropped = o.dropped
      /\ n.checking = b
  BY <1>1 DEF TurnIsRecord
<1>3. [s EXCEPT !.talk.turn[t].checking = b] = r
  OBVIOUS
<1>4. n = [s.talk.turn[t] EXCEPT !.checking = b]
  OBVIOUS
<1> HIDE DEF n
<1>5. ButTurn(s, r, t) /\ r.talk.turn[t] = n
  BY <1>2, PutTurn
<1>6. r.talk.known = s.talk.known /\ r.talk.room = s.talk.room
  BY DEF Shaped, TalkShaped
<1> HIDE DEF r
<1> QED
  BY <1>2, <1>3, <1>4, <1>5, <1>6 DEF CheckSet, ButTurn

LEMMA SameRecord ==
  ASSUME NEW n, NEW o, TurnIsRecord(n), TurnIsRecord(o), n.at = o.at, n.kind = o.kind, n.gen = o.gen, n.ids = o.ids,
         n.aborted = o.aborted, n.dropped = o.dropped, n.forceStopped = o.forceStopped, n.retry = o.retry,
         n.late = o.late, n.hold = o.hold, n.checking = o.checking
  PROVE  n = o
<1> DEFINE Of(r) == [at |-> r.at, kind |-> r.kind, gen |-> r.gen, ids |-> r.ids, aborted |-> r.aborted,
                     dropped |-> r.dropped, forceStopped |-> r.forceStopped, retry |-> r.retry, late |-> r.late,
                     hold |-> r.hold, checking |-> r.checking]
<1>1. n = Of(n)
  BY DEF TurnIsRecord
<1>2. o = Of(o)
  BY DEF TurnIsRecord
<1> QED
  BY <1>1, <1>2

LEMMA CheckOff == [Idle EXCEPT !.checking = FALSE] = Idle /\ [Checked EXCEPT !.checking = FALSE] = Idle
<1> DEFINE n == [Idle EXCEPT !.checking = FALSE]
           m == [Checked EXCEPT !.checking = FALSE]
           c == Checked
<1>1. TurnIsRecord(Idle) /\ Idle.checking = FALSE
  BY IdleShape DEF Idle
<1> HIDE DEF Idle
<1>2. /\ TurnIsRecord(c) /\ c.at = Idle.at /\ c.kind = Idle.kind /\ c.gen = Idle.gen /\ c.ids = Idle.ids
      /\ c.aborted = Idle.aborted /\ c.dropped = Idle.dropped /\ c.forceStopped = Idle.forceStopped
      /\ c.retry = Idle.retry /\ c.late = Idle.late /\ c.hold = Idle.hold
  BY <1>1 DEF TurnIsRecord, Checked
<1>3. n = Idle
  <2>1. /\ TurnIsRecord(n) /\ n.at = Idle.at /\ n.kind = Idle.kind /\ n.gen = Idle.gen /\ n.ids = Idle.ids
        /\ n.aborted = Idle.aborted /\ n.dropped = Idle.dropped /\ n.forceStopped = Idle.forceStopped
        /\ n.retry = Idle.retry /\ n.late = Idle.late /\ n.hold = Idle.hold /\ n.checking = FALSE
    BY <1>1 DEF TurnIsRecord
  <2> HIDE DEF n
  <2> QED
    BY <1>1, <2>1, SameRecord
<1>4. m = Idle
  <2>1. /\ TurnIsRecord(m) /\ m.at = c.at /\ m.kind = c.kind /\ m.gen = c.gen /\ m.ids = c.ids
        /\ m.aborted = c.aborted /\ m.dropped = c.dropped /\ m.forceStopped = c.forceStopped
        /\ m.retry = c.retry /\ m.late = c.late /\ m.hold = c.hold /\ m.checking = FALSE
    BY <1>2 DEF TurnIsRecord
  <2> HIDE DEF m, c
  <2> QED
    BY <1>1, <1>2, <2>1, SameRecord
<1> QED
  BY <1>3, <1>4

LEMMA CheckSetOwed ==
  ASSUME NEW s, NEW r, NEW D, NEW t \in Turn, NEW b \in BOOLEAN, CheckSet(s, r, t, b), Fits(r, D), Owed(s, D),
         b => s.talk.turn[t].at = "talking" /\ \A u \in Turn : ~s.talk.turn[u].checking
  PROVE  Owed(r, D)
<1>1. Owing(r) = Owing(s) /\ Calls(r) = Calls(s)
  BY DEF CheckSet, Owing, Calls
<1>2. \A u \in Turn, i \in Input : TakenBy(s, u, i) => TakenBy(r, u, i)
  BY ZenonT(60) DEF CheckSet, TakenBy
<1>3. \A i \in Input : Somewhere(s, i) => Somewhere(r, i)
  BY <1>2 DEF CheckSet, Somewhere
<1>4. Lost(r) = {}
  BY <1>1, <1>3 DEF Owed, Lost, Owing
<1>5. \A u \in Turn : /\ r.talk.turn[u].at = s.talk.turn[u].at /\ r.talk.turn[u].kind = s.talk.turn[u].kind
                      /\ r.talk.turn[u].ids = s.talk.turn[u].ids
                      /\ r.talk.turn[u].dropped = s.talk.turn[u].dropped
                      /\ r.talk.turn[u].checking = IF u = t THEN b ELSE s.talk.turn[u].checking
  BY DEF CheckSet
<1>6. ASSUME NEW u \in Turn, s.talk.turn[u] \in {Idle, Checked}, u # t \/ ~b
      PROVE  r.talk.turn[u] \in {Idle, Checked} /\ (s.talk.turn[u] = Idle => r.talk.turn[u] = Idle)
  <2>1. [Idle EXCEPT !.checking = FALSE] = Idle
    BY CheckOff
  <2>2. [Checked EXCEPT !.checking = FALSE] = Idle
    BY CheckOff
  <2>3. CASE u = t
    <3>1. b = FALSE
      BY <1>6, <2>3
    <3> QED
      BY <1>6, <2>1, <2>2, <2>3, <3>1 DEF CheckSet
  <2>4. CASE u # t
    BY <1>6, <2>4 DEF CheckSet
  <2> QED
    BY <2>3, <2>4
<1>7. b => s.talk.turn[t] \notin {Idle, Checked}
  <2>1. Idle.at = "free" /\ Checked.at = "free"
    BY IdleShape DEF Checked, TurnIsRecord
  <2> QED
    BY <2>1
<1>8. \A u \in Turn : s.talk.turn[u].at = "free" => r.talk.turn[u] \in {Idle, Checked}
  <2> SUFFICES ASSUME NEW u \in Turn, s.talk.turn[u].at = "free" PROVE r.talk.turn[u] \in {Idle, Checked}
    OBVIOUS
  <2>1. s.talk.turn[u] \in {Idle, Checked}
    BY DEF Owed, Ready, Turning
  <2> QED
    BY <1>6, <1>7, <2>1
<1>9. s.talk.live = None => \E u \in Turn : r.talk.turn[u] = Idle
  <2>1. ASSUME s.talk.live = None PROVE \E u \in Turn : s.talk.turn[u] = Idle
    BY <2>1 DEF Owed, Ready, Turning
  <2> QED
    BY <1>6, <1>7, <2>1
<1>10. Turning(r, D)
  BY <1>5, <1>8, <1>9 DEF Owed, Ready, Turning, CheckSet
<1>11. Ready(r, D)
  BY <1>1, <1>10 DEF Owed, Ready, Calling, CheckSet
<1> QED
  BY <1>1, <1>4, <1>11 DEF Owed, Served, Waits, Holds, CheckSet

LEMMA StartCheckOwed == ASSUME OwedInv, DaysOwe, NEW t \in Turn, StartCheck(t) PROVE Owed(Now', day')
<1> DEFINE r == [Now EXCEPT !.talk.turn[t].checking = TRUE]
<1>1. /\ day' = day /\ Becomes(r) /\ Now.talk.live = t /\ "check" \in day
      /\ \A u \in Turn : ~Now.talk.turn[u].checking
  BY NowFields DEF StartCheck, May
<1>2. Fits(r, day) /\ CheckSet(Now, r, t, TRUE)
  BY <1>1, OwedGives, FlagFits, SetCheck
<1>3. Now.talk.turn[t].at = "talking"
  BY <1>1, OwedGives DEF Own, LiveOwn, InputAssumption
<1> HIDE DEF r
<1>4. Owed(r, day)
  BY <1>1, <1>2, <1>3, OwedGives, CheckSetOwed
<1> QED
  BY <1>1, <1>4, OwedBecome

\* What is written with an answer leaves the list.
LEMMA LandedSays ==
  ASSUME NEW s, NEW D, Fits(s, D), NEW x
  PROVE  LET r == Landed(s, x)
         IN  /\ Frame(s, r) /\ r.lane = s.lane /\ r.talk = s.talk /\ r.plan.limit = s.plan.limit
             /\ Elems(r.plan.pending) = Elems(s.plan.pending) \ x.ids
<1> DEFINE k == Take(s, x.ids)
           h == k.plan.heard \union x.ids
           p == k.plan.paused /\ ~x.retry
           c == IF x.retry THEN {} ELSE k.plan.kept
           r == [k EXCEPT !.plan.heard = h, !.plan.paused = p, !.plan.kept = c]
<1>1. /\ Fits(k, D) /\ Frame(s, k) /\ k.lane = s.lane /\ k.talk = s.talk
      /\ Elems(k.plan.pending) = Elems(s.plan.pending) \ x.ids /\ k.plan.limit = s.plan.limit
  BY TakeSays
<1>2. Landed(s, x) = r
  BY DEF Landed
<1> HIDE DEF k
<1>3. Shaped(k) /\ p \in BOOLEAN
  BY <1>1 DEF Fits
<1> HIDE DEF h, p, c
<1>4. /\ Shaped(r) /\ r.lane = k.lane /\ r.talk = k.talk /\ r.plan.limit = k.plan.limit
      /\ r.plan.pending = k.plan.pending
  BY <1>3 DEF Shaped, PlanShaped
<1> HIDE DEF r
<1>5. Frame(s, r)
  BY <1>1, <1>4 DEF Frame
<1> QED
  BY <1>1, <1>2, <1>4, <1>5

LEMMA ChecksOutOwed == ASSUME OwedInv, DaysOwe, NEW t \in Turn, ChecksOut(t) PROVE Owed(Now', day')
<1> DEFINE s == [Now EXCEPT !.talk.turn[t].checking = FALSE]
           x == talk.turn[t]
           r == Landed(s, x)
<1>1. day' = day /\ Becomes(IF ToolTurn(t) THEN r ELSE s)
  BY DEF ChecksOut
<1>2. Fits(s, day) /\ CheckSet(Now, s, t, FALSE)
  <2>1. FALSE \in BOOLEAN
    OBVIOUS
  <2> QED
    BY <2>1, OwedGives, FlagFits, SetCheck
<1>3. s.talk.turn[t].ids = x.ids /\ s.talk.live = talk.live /\ s.talk.turn[t].at = x.at /\ s.talk.turn[t].kind = x.kind
      /\ s.lane = lane /\ s.talk.turn[t].dropped = x.dropped
  BY <1>2, NowFields DEF CheckSet
<1> HIDE DEF s
<1>4. Owed(s, day)
  BY <1>2, OwedGives, CheckSetOwed
<1>5. ASSUME ToolTurn(t) PROVE Owed(r, day)
  <2>1. /\ Frame(s, r) /\ r.lane = s.lane /\ r.talk = s.talk
        /\ Elems(r.plan.pending) = Elems(s.plan.pending) \ x.ids
    BY <1>2, LandedSays
  <2>2. Fits(r, day)
    <3>1. Fits(Now', day')
      BY OwedGives, CheckedFits
    <3>2. Shaped(r)
      BY <2>1 DEF Frame
    <3>3. r = Now'
      BY <1>1, <1>5, <3>2 DEF Becomes, Now, Shaped
    <3> QED
      BY <1>1, <3>1, <3>3
  <2>3. /\ s.talk.live = t /\ t # None /\ s.talk.turn[t].at = "talking" /\ ~s.talk.turn[t].dropped
        /\ s.talk.turn[t].kind = "reply" => s.lane.running = t
        /\ s.talk.turn[t].kind \in {"reply", "opening", "compaction", "hung"}
    BY <1>3, <1>5, OwedGives, NowFields
       DEF ToolTurn, Own, LiveOwn, FlightOwn, InputAssumption, Shaped, TalkShaped, TurnIsRecord
  <2>4. x.ids # {} => s.talk.turn[t].kind \in {"reply", "opening"}
    BY <1>3, <1>4, <2>3 DEF Owed, Ready, Turning
  <2>5. \A i \in x.ids : TakenBy(s, t, i)
    BY <1>3, <2>3, <2>4 DEF TakenBy
  <2> HIDE DEF r, x
  <2>6. \A i \in Input : Somewhere(s, i) => Somewhere(r, i)
    BY <2>1, <2>5 DEF Somewhere, TakenBy
  <2>7. Owing(r) = Owing(s) /\ Calls(r) \subseteq Calls(s)
    BY <2>1 DEF Owing, Calls
  <2>8. Eases(s, r)
    BY <2>6, <2>7 DEF Eases, Lost, Owing
  <2>9. Ready(r, day)
    BY <1>4, <2>1, <2>2, <2>8, FrameReady DEF Owed
  <2> QED
    BY <1>4, <2>1, <2>3, <2>8, <2>9 DEF Owed, Eases, Served
<1> QED
  BY <1>1, <1>4, <1>5, OwedBecome

-----------------------------------------------------------------------------
\* The list and the turns are as they were: whoever waits is somewhere, and was
\* waiting, or is not in the list.
LEMMA ToldOwed ==
  ASSUME NEW s, NEW r, NEW D, Owed(s, D), Fits(r, D),
         r.plan = s.plan, r.lane.running = s.lane.running, r.lane.tails = s.lane.tails,
         r.lane.withdrawn = s.lane.withdrawn, r.lane.restored = s.lane.restored,
         r.lane.detecting = s.lane.detecting, r.lane.awaitingSlot = s.lane.awaitingSlot,
         r.talk.turn = s.talk.turn, r.talk.live = s.talk.live, r.talk.known = s.talk.known,
         r.talk.room = s.talk.room,
         \A j \in Input : r.lane.caller[j] = "waiting" =>
             /\ j \in D /\ Somewhere(r, j)
             /\ s.lane.caller[j] = "waiting" \/ j \notin Elems(s.plan.pending)
  PROVE  Owed(r, D)
<1>1. Owing(r) \subseteq D /\ Lost(r) = {}
  BY DEF Lost, Owing
<1>2. Calls(r) \subseteq Calls(s)
  BY DEF Calls, Owing
<1>3. Ready(r, D)
  BY <1>1, <1>2 DEF Owed, Ready, Turning, Calling
<1> QED
  BY <1>1, <1>2, <1>3 DEF Owed, Served, Waits, Holds

LEMMA OwedSomewhere ==
  ASSUME NEW s, NEW D, Owed(s, D), NEW j \in Input, s.lane.caller[j] = "waiting"
  PROVE  j \in D /\ Somewhere(s, j)
BY DEF Owed, Ready, Calling, Lost, Owing

\* Held behind an opening at the gate.
LEMMA HeldOwed ==
  ASSUME NEW s, NEW D, Owed(s, D), NEW i \in User, i \in D, s.lane.caller[i] = "none",
         s.talk.opening.at \in {"probe", "slot"}, NEW X
  PROVE  /\ Owed([Tell(s, {i}, "waiting") EXCEPT !.talk.opening.held = Append(@, i)], D)
         /\ Owed([Tell(s, {i}, "waiting") EXCEPT !.talk.opening.held = Append(@, i), !.talk.opening.forced = X], D)
<1> DEFINE a == Tell(s, {i}, "waiting")
           h == Append(a.talk.opening.held, i)
           r == [a EXCEPT !.talk.opening.held = h]
           q == [a EXCEPT !.talk.opening.held = h, !.talk.opening.forced = X]
<1>1. Fits(s, D) /\ i \in Input /\ "waiting" \in Words
  BY DEF Owed, Ready, Input, Words
<1>2. /\ Fits(a, D) /\ Frame(s, a) /\ a.plan = s.plan /\ a.talk = s.talk
      /\ \A j \in Input : a.lane.caller[j] = IF j \in {i} THEN "waiting" ELSE s.lane.caller[j]
  BY <1>1, TellSays
<1>3. /\ i \in Sent(a.lane.caller) /\ i \notin Elems(s.talk.opening.held)
      /\ s.talk.opening.at \in {"probe", "slot"} => i # s.talk.opening.input
  BY <1>1, Unsent, SMTT(40)
<1> HIDE DEF a
<1>4. Fits(r, D) /\ Fits(q, D)
  BY <1>2, <1>3, HeldFits
<1>5. Shaped(a) /\ a.talk.opening.held \in Seq(Input)
  BY <1>2 DEF Fits, Gated
<1>6. Elems(h) = Elems(a.talk.opening.held) \union {i}
  BY <1>1, <1>5, AppendOf
<1> HIDE DEF h
<1> DEFINE Put(n) ==
             /\ n.plan = a.plan /\ n.lane = a.lane /\ n.talk.turn = a.talk.turn /\ n.talk.live = a.talk.live
             /\ n.talk.known = a.talk.known /\ n.talk.room = a.talk.room /\ n.talk.opening.at = a.talk.opening.at
             /\ n.talk.opening.input = a.talk.opening.input /\ n.talk.opening.held = h
<1>9. Put(r)
  BY <1>5 DEF Shaped, TalkShaped
<1>10. Put(q)
  BY <1>5 DEF Shaped, TalkShaped
<1>7. ASSUME NEW n, n \in {r, q} PROVE Put(n)
  BY <1>7, <1>9, <1>10
<1> HIDE DEF r, q
<1>8. ASSUME NEW n, n \in {r, q} PROVE Owed(n, D)
  <2>1. \A j \in Input : j = i \/ Somewhere(s, j) => Somewhere(n, j)
    BY <1>2, <1>6, <1>7, <1>8 DEF Somewhere, TakenBy, Frame
  <2>2. i \notin Elems(s.plan.pending)
    BY <1>1 DEF Fits, Listed, Sent
  <2>3. \A j \in Input : n.lane.caller[j] = "waiting" =>
             /\ j \in D /\ Somewhere(n, j)
             /\ s.lane.caller[j] = "waiting" \/ j \notin Elems(s.plan.pending)
    BY <1>2, <1>7, <1>8, <2>1, <2>2, OwedSomewhere
  <2> QED
    BY <1>1, <1>2, <1>4, <1>7, <1>8, <2>3, ToldOwed DEF Frame
<1> QED
  BY <1>8 DEF r, q, h, a

LEMMA SendOwed == ASSUME OwedInv, DaysOwe, NEW i \in Input, Send(i) PROVE Owed(Now', day')
<1> DEFINE h == [Tell(Now, {i}, "waiting") EXCEPT !.talk.opening.held = Append(@, i)]
           b == Tell(Now, {i}, "busy")
<1>1. /\ day' = day /\ i \in User /\ i \in day /\ Now.lane.caller[i] = "none"
      /\ (Now.talk.opening.at \in {"probe", "slot"} /\ Becomes(h)) \/ Becomes(b) \/ Becomes(Admit(Now, i, FALSE))
  BY NowFields, ZenonT(60) DEF Send, May, AtGate
<1>2. ASSUME Now.talk.opening.at \in {"probe", "slot"} PROVE Owed(h, day)
  BY <1>1, <1>2, OwedGives, HeldOwed
<1>3. Owed(b, day)
  <2>1. "busy" \in Words
    BY DEF Words
  <2>2. /\ Fits(b, day) /\ Frame(Now, b) /\ b.plan = Now.plan /\ b.talk = Now.talk
        /\ \A j \in Input : b.lane.caller[j] = IF j \in {i} THEN "busy" ELSE Now.lane.caller[j]
    BY <2>1, OwedGives, TellSays
  <2> HIDE DEF b
  <2>3. \A j \in Input : b.lane.caller[j] = "waiting" => Now.lane.caller[j] = "waiting" /\ j \notin {}
    BY <2>2
  <2>4. Eases(Now, b)
    BY <2>2, <2>3, FrameEases
  <2> QED
    BY <2>2, <2>4, OwedGives, FrameOwed DEF Waits, Holds, Frame
<1>4. Owed(Admit(Now, i, FALSE), day)
  BY <1>1, OwedGives, AdmitOwed
<1> HIDE DEF h, b
<1> QED
  BY <1>1, <1>2, <1>3, <1>4, OwedBecome

LEMMA DeliverOwed == ASSUME OwedInv, DaysOwe, NEW i \in Input, Deliver(i) PROVE Owed(Now', day')
<1> DEFINE a == Tell(Now, {i}, "kept")
           p == Append(a.plan.pending, i)
           r == [a EXCEPT !.plan.pending = p]
<1>1. /\ day' = day /\ i \notin User /\ i \in day /\ Now.lane.caller[i] = "none"
      /\ Becomes(r) \/ Becomes(Admit(Now, i, FALSE))
  BY NowFields DEF Deliver, May
<1>2. Owed(r, day)
  <2>1. "kept" \in Words
    BY DEF Words
  <2>2. /\ Fits(a, day) /\ Frame(Now, a) /\ a.plan = Now.plan /\ a.talk = Now.talk
        /\ \A j \in Input : a.lane.caller[j] = IF j \in {i} THEN "kept" ELSE Now.lane.caller[j]
    BY <2>1, OwedGives, TellSays
  <2>3. /\ i \in Sent(a.lane.caller) /\ i \notin Elems(a.plan.pending) \union a.plan.heard
        /\ \A t \in Turn : i \notin a.talk.turn[t].ids
    BY <1>1, <2>1, <2>2, OwedGives, Unsent
  <2> HIDE DEF a
  <2>4. Fits(r, day)
    BY <2>2, <2>3, EnlistFits
  <2>5. Elems(p) = Elems(a.plan.pending) \union {i}
    BY <2>2, AppendOf DEF Fits, Listed
  <2> HIDE DEF p
  <2>6. Shaped(r) /\ r.plan.limit = a.plan.limit /\ r.plan.paused = a.plan.paused /\ r.plan.pending = p
        /\ r.lane = a.lane /\ r.talk = a.talk
    BY <2>2 DEF Fits, Shaped, PlanShaped
  <2> HIDE DEF r
  <2>7. Frame(Now, r)
    BY <2>2, <2>6 DEF Frame
  <2>8. Owing(r) \subseteq Owing(Now) /\ \A j \in Input : Somewhere(Now, j) => Somewhere(r, j)
    BY <2>2, <2>5, <2>6, <2>7 DEF Owing, Somewhere, TakenBy, Frame
  <2>9. Eases(Now, r)
    BY <1>1, <2>2, <2>5, <2>6, <2>7, <2>8 DEF Eases, Lost, Owing, Calls, Frame
  <2> QED
    BY <2>2, <2>4, <2>6, <2>7, <2>9, OwedGives, FrameOwed DEF Waits, Holds, Frame
<1>3. Owed(Admit(Now, i, FALSE), day)
  BY <1>1, OwedGives, AdmitOwed
<1> HIDE DEF r
<1> QED
  BY <1>1, <1>2, <1>3, OwedBecome

LEMMA ForceOwed == ASSUME OwedInv, DaysOwe, NEW i \in Input, ForceSend(i) PROVE Owed(Now', day')
<1> DEFINE a == Tell(Now, {i}, "waiting")
           b == Admit(Now, i, TRUE)
           s == StopLive(b)
           r == [s EXCEPT !.talk.turn[s.lane.running].forceStopped = TRUE]
           X == a.talk.opening.forced \union {i}
           h == [a EXCEPT !.talk.opening.held = Append(@, i), !.talk.opening.forced = X]
<1>1. day' = day /\ i \in User /\ i \in day /\ Now.lane.caller[i] = "none"
  BY NowFields DEF ForceSend, Acts
<1>2. \/ /\ Now.talk.opening.at \in {"probe", "slot"}
         /\ Becomes([a EXCEPT !.talk.opening.held = Append(@, i), !.talk.opening.forced = @ \union {i}])
      \/ Becomes(Admit(Now, i, FALSE)) \/ Becomes(IF ~Speaks(s) THEN s ELSE r)
  BY NowFields DEF ForceSend, AtGate
<1>3. [a EXCEPT !.talk.opening.held = Append(@, i), !.talk.opening.forced = @ \union {i}] = h
  <2>1. Shaped(a)
    <3>1. "waiting" \in Words
      BY DEF Words
    <3> QED
      BY <3>1, OwedGives, TellSays, SMTT(40) DEF Fits
  <2> HIDE DEF a
  <2> QED
    BY <2>1 DEF Shaped, TalkShaped
<1> HIDE DEF X
<1>4. ASSUME Now.talk.opening.at \in {"probe", "slot"} PROVE Owed(h, day)
  BY <1>1, <1>4, OwedGives, HeldOwed
<1> HIDE DEF a, h
<1>5. Owed(Admit(Now, i, FALSE), day) /\ Owed(b, day)
  BY <1>1, OwedGives, AdmitOwed
<1>6. LiveOwn(b)
  BY OwedGives, AdmitQuiet DEF Quiet, Own
<1> HIDE DEF b
<1>7. Owed(s, day)
  BY <1>5, <1>6, StopLiveOwed
<1> HIDE DEF s
<1>8. ASSUME Speaks(s) PROVE Owed(r, day)
  <2>1. Fits(s, day) /\ Shaped(s) /\ s.lane.running \in Turn /\ s.talk.turn[s.lane.running].at = "talking"
    BY <1>7, <1>8 DEF Owed, Ready, Speaks, Fits, Shaped, LaneShaped
  <2>2. Marked(s, r, s.lane.running) /\ Fits(r, day)
    BY <2>1, SetMark, FlagFits
  <2> HIDE DEF r
  <2> QED
    BY <1>7, <2>1, <2>2, MarkedOwed
<1> HIDE DEF r
<1>9. Owed(IF ~Speaks(s) THEN s ELSE r, day)
  BY <1>7, <1>8
<1> QED
  BY <1>1, <1>2, <1>3, <1>4, <1>5, <1>9, OwedBecome

LEMMA WithdrawOwed == ASSUME OwedInv, DaysOwe, NEW i \in Input, Withdraw(i) PROVE Owed(Now', day')
<1> DEFINE W == lane.withdrawn \union {i}
           s == [Now EXCEPT !.lane.withdrawn = W]
           r == [s EXCEPT !.talk.turn[s.lane.running].aborted = TRUE]
<1>1. day' = day /\ Becomes(IF i \in Taken(s) /\ Speaks(s) THEN r ELSE s)
  BY NowFields DEF Withdraw, Acts
<1>2. Fits(s, day)
  BY OwedGives, SetRestFits
<1>3. /\ s.plan = plan /\ s.talk = talk /\ s.lane.running = lane.running /\ s.lane.tails = lane.tails
      /\ s.lane.caller = lane.caller /\ s.lane.restored = lane.restored /\ s.lane.detecting = lane.detecting
      /\ s.lane.awaitingSlot = lane.awaitingSlot /\ s.lane.withdrawn = W
  BY OwedGives, NowFields DEF Shaped, LaneShaped
<1> HIDE DEF s
<1>4. Owing(s) = Owing(Now) /\ Calls(s) \subseteq Calls(Now)
  BY <1>3, NowFields DEF Owing, Calls, W
<1>5. \A j \in Input : Somewhere(s, j) <=> Somewhere(Now, j)
  BY <1>3, NowFields DEF Somewhere, TakenBy
<1>6. Owed(s, day)
  BY <1>2, <1>3, <1>4, <1>5, OwedGives, NowFields DEF Owed, Ready, Turning, Calling, Served, Waits, Holds, Lost, Owing
<1>7. ASSUME Speaks(s) PROVE Owed(r, day)
  <2>1. Shaped(s) /\ s.lane.running \in Turn /\ s.talk.turn[s.lane.running].at = "talking"
    BY <1>2, <1>7 DEF Speaks, Fits, Shaped, LaneShaped
  <2>2. Marked(s, r, s.lane.running) /\ Fits(r, day)
    BY <1>2, <2>1, SetMark, FlagFits
  <2> HIDE DEF r
  <2> QED
    BY <1>6, <2>1, <2>2, MarkedOwed
<1> HIDE DEF r
<1>8. Owed(IF i \in Taken(s) /\ Speaks(s) THEN r ELSE s, day)
  BY <1>6, <1>7
<1> QED
  BY <1>1, <1>8, OwedBecome

LEMMA PauseLoose ==
  ASSUME NEW s, Shaped(s), s.lane.detecting => ~s.talk.known, NEW v
  PROVE  /\ v \in BOOLEAN => LET r == [s EXCEPT !.plan.paused = v] IN Loose(s, r) /\ r.lane = s.lane
         /\ LET r == [s EXCEPT !.plan.kept = v] IN Loose(s, r) /\ r.lane = s.lane
BY DEF Shaped, PlanShaped, LaneShaped, TalkShaped, Loose

\* The Stop strikes inputs off the list and tells whoever waits for them.
LEMMA StoppedOwed ==
  ASSUME NEW s, NEW D, Owed(s, D), NEW X, NEW a, NEW b
  PROVE  Owed([Tell(Take(s, X), X, "stopped") EXCEPT !.lane.asked = a, !.lane.quiet = @ \/ b], D)
<1> DEFINE q == Tell(Take(s, X), X, "stopped")
           m == [q EXCEPT !.lane.asked = a]
           v == m.lane.quiet \/ b
           r == [m EXCEPT !.lane.quiet = v]
<1>1. "stopped" \in Words \ {"waiting"} /\ Fits(s, D)
  BY DEF Words, Hows, Owed, Ready
<1>2. /\ Fits(q, D) /\ Frame(s, q) /\ Eases(s, q) /\ q.talk = s.talk
      /\ q.plan.limit = s.plan.limit /\ q.plan.paused = s.plan.paused
  BY <1>1, StruckEases
<1>3. [q EXCEPT !.lane.asked = a, !.lane.quiet = @ \/ b] = r
  OBVIOUS
<1> HIDE DEF q
<1>4. Owed(q, D) /\ Shaped(q) /\ (q.lane.detecting => ~q.talk.known)
  <2>1. Owed(q, D)
    BY <1>2, FrameOwed DEF Waits, Holds, Frame
  <2> QED
    BY <2>1 DEF Owed, Ready, Fits, Calling
<1>5. /\ Fits(m, D) /\ Loose(q, m) /\ m.plan = q.plan /\ m.talk = q.talk /\ m.lane.detecting = q.lane.detecting
      /\ m.lane.awaitingSlot = q.lane.awaitingSlot
  BY <1>2, <1>4, SetRestFits, SetLoose, ZenonT(60)
<1> HIDE DEF m, v
<1>6. Owed(m, D) /\ Shaped(m) /\ (m.lane.detecting => ~m.talk.known)
  BY <1>4, <1>5, LooseOwed DEF Waits, Holds, Loose
<1>7. /\ Fits(r, D) /\ Loose(m, r) /\ r.plan = m.plan /\ r.talk = m.talk /\ r.lane.detecting = m.lane.detecting
      /\ r.lane.awaitingSlot = m.lane.awaitingSlot
  BY <1>5, <1>6, SetRestFits, SetLoose, ZenonT(60)
<1> HIDE DEF r
<1>8. Owed(r, D)
  BY <1>6, <1>7, LooseOwed DEF Waits, Holds
<1> QED
  BY <1>3, <1>8 DEF q

LEMMA DropPauseOwed == ASSUME NEW s, NEW D, Owed(s, D) PROVE Owed(DropPause(s), D)
<1> DEFINE X == Elems(s.plan.pending) \intersect User
           q == Tell(Take(s, X), X, "stopped")
           q2 == [q EXCEPT !.plan.paused = FALSE]
           q3 == [q2 EXCEPT !.plan.kept = {}]
           q4 == [q3 EXCEPT !.lane.asked = FALSE]
           v == q4.lane.quiet \/ Elems(s.plan.pending) # X
           q5 == [q4 EXCEPT !.lane.quiet = v]
<1>1. "stopped" \in Words \ {"waiting"} /\ Fits(s, D)
  BY DEF Words, Hows, Owed, Ready
<1>2. /\ Fits(q, D) /\ Frame(s, q) /\ Eases(s, q) /\ Elems(q.plan.pending) = Elems(s.plan.pending) \ X
  BY <1>1, StruckEases
<1>0. DropPause(s) = [q EXCEPT !.plan.paused = FALSE, !.plan.kept = {}, !.lane.asked = FALSE,
                               !.lane.quiet = @ \/ Elems(s.plan.pending) # X]
  BY DEF DropPause
<1>3. Calls(q) = {}
  <2> HIDE DEF q
  <2> QED
    BY <1>2 DEF Calls
<1> HIDE DEF q, X
<1>4. Ready(q, D) /\ Lost(q) = {} /\ Shaped(q) /\ (q.lane.detecting => ~q.talk.known)
  <2>1. Ready(q, D) /\ Lost(q) = {}
    BY <1>2, FrameReady DEF Owed, Eases
  <2> QED
    BY <2>1 DEF Ready, Fits, Calling
<1>5. DropPause(s) = q5
  BY <1>0, <1>4 DEF Shaped, PlanShaped, LaneShaped
<1>6. Fits(q2, D) /\ Loose(q, q2)
  BY <1>2, <1>4, SetPlanFits, PauseLoose
<1> HIDE DEF q2
<1>7. Ready(q2, D) /\ Lost(q2) = {} /\ Calls(q2) = {} /\ Shaped(q2) /\ (q2.lane.detecting => ~q2.talk.known)
  BY <1>3, <1>4, <1>6, LooseOwed DEF Loose
<1>8. Fits(q3, D) /\ Loose(q2, q3)
  BY <1>6, <1>7, SetPlanFits, PauseLoose
<1> HIDE DEF q3
<1>9. Ready(q3, D) /\ Lost(q3) = {} /\ Calls(q3) = {} /\ Shaped(q3) /\ (q3.lane.detecting => ~q3.talk.known)
  BY <1>7, <1>8, LooseOwed DEF Loose
<1>10. Fits(q4, D) /\ Loose(q3, q4)
  BY <1>8, <1>9, SetRestFits, SetLoose
<1> HIDE DEF q4, v
<1>11. Ready(q4, D) /\ Lost(q4) = {} /\ Calls(q4) = {} /\ Shaped(q4) /\ (q4.lane.detecting => ~q4.talk.known)
  BY <1>9, <1>10, LooseOwed DEF Loose
<1>12. Fits(q5, D) /\ Loose(q4, q5)
  BY <1>10, <1>11, SetRestFits, SetLoose
<1> HIDE DEF q5
<1>13. Owed(q5, D)
  BY <1>11, <1>12, LooseOwed DEF Owed, Served
<1> QED
  BY <1>5, <1>13

LEMMA StopQueuedOwed == ASSUME NEW s, NEW D, Owed(s, D) PROVE Owed(StopQueued(s), D)
BY StoppedOwed, DropPauseOwed, Zenon DEF StopQueued

\* An opening at the gate ends, and each whose message was at the gate is told.
LEMMA EndWaitingOwed ==
  ASSUME NEW s, NEW D, Owed(s, D), NEW why \in Words \ {"waiting"}
  PROVE  /\ Owed(EndWaiting(s, why), D) /\ EndWaiting(s, why).plan = s.plan
         /\ EndWaiting(s, why).talk.opening.at \notin {"probe", "slot"}
         /\ \A i \in Input : s.lane.caller[i] = "none" => EndWaiting(s, why).lane.caller[i] = "none"
<1> DEFINE X == Elems(s.talk.opening.held) \union {s.talk.opening.input}
           a == Tell(s, X, why)
           r == [a EXCEPT !.talk.opening = NoOpening]
<1>1. Fits(s, D)
  BY DEF Owed, Ready
<1>2. CASE s.talk.opening.at \notin {"probe", "slot"}
  BY <1>2 DEF EndWaiting
<1>3. CASE s.talk.opening.at \in {"probe", "slot"}
  <2>1. EndWaiting(s, why) = r
    BY <1>3 DEF EndWaiting
  <2>2. /\ Fits(a, D) /\ Frame(s, a) /\ a.plan = s.plan /\ a.talk = s.talk
        /\ \A i \in Input : a.lane.caller[i] = IF i \in X THEN why ELSE s.lane.caller[i]
    BY <1>1, TellSays
  <2>3. \A i \in X : i \in Sent(s.lane.caller)
    BY <1>1, <1>3 DEF Fits, Gated
  <2> HIDE DEF a
  <2>4. Fits(r, D)
    BY <2>2, SetRestFits
  <2>5. /\ Shaped(r) /\ r.plan = a.plan /\ r.lane = a.lane /\ r.talk.turn = a.talk.turn /\ r.talk.live = a.talk.live
        /\ r.talk.known = a.talk.known /\ r.talk.room = a.talk.room /\ r.talk.opening = NoOpening
    BY <2>2, <2>4 DEF Fits, Shaped, TalkShaped
  <2> HIDE DEF r
  <2>6. NoOpening.at \notin {"probe", "slot"}
    BY DEF NoOpening
  <2>7. \A j \in Input : r.lane.caller[j] = "waiting" => s.lane.caller[j] = "waiting" /\ j \notin X
    BY <2>2, <2>5
  <2>8. \A j \in Input : r.lane.caller[j] = "waiting" => j \in D /\ Somewhere(s, j) /\ j \notin X
    BY <2>7, OwedSomewhere
  <2>9. \A j \in Input : Somewhere(s, j) /\ j \notin X => Somewhere(r, j)
    BY <2>2, <2>5 DEF Somewhere, TakenBy, Frame
  <2>10. Owed(r, D)
    BY <1>1, <2>2, <2>4, <2>5, <2>7, <2>8, <2>9, ToldOwed DEF Frame
  <2>11. \A i \in Input : s.lane.caller[i] = "none" => r.lane.caller[i] = "none"
    BY <2>2, <2>3, <2>5 DEF Sent
  <2> QED
    BY <2>1, <2>2, <2>5, <2>6, <2>10, <2>11
<1> QED
  BY <1>2, <1>3

LEMMA AbortOwed == ASSUME OwedInv, DaysOwe, AbortPlannerTurn PROVE Owed(Now', day')
<1> DEFINE q == StopQueued(Now)
           l == StopLive(q)
<1>1. day' = day /\ Becomes(EndWaiting(l, "stopped"))
  BY DEF AbortPlannerTurn, Acts
<1>2. Owed(q, day)
  BY OwedGives, StopQueuedOwed
<1>3. LiveOwn(q)
  <2>1. Alike(Now, q)
    BY OwedGives, AlikeSelf, StopQueuedAlike
  <2> QED
    BY <2>1, OwedGives, AlikeOwn DEF Own
<1> HIDE DEF q
<1>4. Owed(l, day)
  BY <1>2, <1>3, StopLiveOwed
<1> HIDE DEF l
<1>5. "stopped" \in Words \ {"waiting"}
  BY DEF Words, Hows
<1>6. Owed(EndWaiting(l, "stopped"), day)
  BY <1>4, <1>5, EndWaitingOwed
<1> QED
  BY <1>1, <1>6, OwedBecome

LEMMA CrashOwed == ASSUME OwedInv, DaysOwe, Crash PROVE Owed(Now', day')
<1>1. Fits(Now', day') /\ day' = day
  BY OwedGives, CrashedFits DEF Crash, Acts
<1>2. /\ lane'.caller = [i \in Input |-> IF lane.caller[i] # "waiting" THEN lane.caller[i]
                                         ELSE IF i \in Elems(plan.pending) THEN "kept" ELSE "discarded"]
      /\ lane'.detecting = FALSE
      /\ talk'.live = None /\ talk'.turn = [t \in Turn |-> Idle]
  BY OwedGives, NowFields DEF Crash, Shaped, TalkShaped
<1>3. Now'.lane = lane' /\ Now'.talk = talk'
  BY DEF Now
<1>4. Owing(Now') = {}
  <2>1. \A i \in Input : lane'.caller[i] # "waiting"
    BY <1>2
  <2> QED
    BY <1>3, <2>1 DEF Owing
<1>5. Lost(Now') = {} /\ Calls(Now') = {}
  BY <1>4 DEF Lost, Calls
<1>6. Turning(Now', day')
  <2>1. /\ Idle.at = "free" /\ Idle.checking = FALSE /\ Idle.dropped = FALSE /\ Idle.kind # "hung"
    BY DEF Idle
  <2>2. \E t \in Turn : TRUE
    BY DEF DaysOwe, TwoTurns
  <2> HIDE DEF Idle
  <2>3. \A t \in Turn : Now'.talk.turn[t] = Idle
    BY <1>2, <1>3
  <2> QED
    BY <2>1, <2>2, <2>3 DEF Turning
<1>7. Calling(Now', day')
  BY <1>2, <1>3, <1>4, <1>5 DEF Calling
<1> QED
  BY <1>1, <1>5, <1>6, <1>7 DEF Owed, Ready, Served

-----------------------------------------------------------------------------
LEMMA StayTrans ==
  ASSUME NEW s, NEW r, NEW q, TurnsStay(s, r), TurnsStay(r, q) PROVE TurnsStay(s, q)
BY DEF TurnsStay

LEMMA PutStays ==
  ASSUME NEW s, Shaped(s), NEW t \in Turn, s.talk.turn[t].at = "talking"
  PROVE  /\ LET r == [s EXCEPT !.talk.turn[t].dropped = TRUE]
            IN  TurnsStay(s, r) /\ r.plan = s.plan /\ r.lane = s.lane /\ r.talk.live = s.talk.live
         /\ LET r == [s EXCEPT !.talk.turn[t].aborted = TRUE]
            IN  TurnsStay(s, r) /\ r.plan = s.plan /\ r.lane = s.lane /\ r.talk.live = s.talk.live
         /\ LET r == [s EXCEPT !.talk.turn[t].hold = FALSE]
            IN  TurnsStay(s, r) /\ r.plan = s.plan /\ r.lane = s.lane /\ r.talk.live = s.talk.live
<1> DEFINE o == s.talk.turn[t]
           Put(n) == [s EXCEPT !.talk.turn[t] = n]
           Same(n) == /\ TurnIsRecord(n) /\ n.at = o.at /\ n.kind = o.kind /\ n.ids = o.ids /\ n.checking = o.checking
                      /\ (o.dropped => n.dropped)
           n1 == [o EXCEPT !.dropped = TRUE]
           n2 == [o EXCEPT !.aborted = TRUE]
           n3 == [o EXCEPT !.hold = FALSE]
<1>1. TurnIsRecord(o) /\ o.at # "free"
  BY DEF Shaped, TalkShaped
<1>2. Same(n1) /\ Same(n2)
  BY <1>1 DEF TurnIsRecord
<1>3. Same(n3)
  BY <1>1 DEF TurnIsRecord
<1>4. ASSUME NEW n, Same(n)
      PROVE  TurnsStay(s, Put(n)) /\ Put(n).plan = s.plan /\ Put(n).lane = s.lane /\ Put(n).talk.live = s.talk.live
  <2>1. ButTurn(s, Put(n), t) /\ Put(n).talk.turn[t] = n
    BY <1>4, PutTurn
  <2>2. Put(n).talk.known = s.talk.known
    BY DEF Shaped, TalkShaped
  <2> HIDE DEF Put
  <2>3. \A u \in Turn : LET m == Put(n).talk.turn[u]
                           v == s.talk.turn[u]
                       IN  /\ m.at = v.at /\ m.kind = v.kind /\ m.ids = v.ids /\ m.checking = v.checking
                           /\ v.dropped => m.dropped
                           /\ v.at = "free" => m = v
    <3> SUFFICES ASSUME NEW u \in Turn
                 PROVE  LET m == Put(n).talk.turn[u]
                            v == s.talk.turn[u]
                        IN  /\ m.at = v.at /\ m.kind = v.kind /\ m.ids = v.ids /\ m.checking = v.checking
                            /\ v.dropped => m.dropped
                            /\ v.at = "free" => m = v
      OBVIOUS
    <3>1. CASE u = t
      BY <1>1, <1>4, <2>1, <3>1
    <3>2. CASE u # t
      BY <2>1, <3>2 DEF ButTurn
    <3> QED
      BY <3>1, <3>2
  <2> QED
    BY <2>1, <2>2, <2>3 DEF TurnsStay, ButTurn
<1>5. /\ [s EXCEPT !.talk.turn[t].dropped = TRUE] = Put(n1) /\ [s EXCEPT !.talk.turn[t].aborted = TRUE] = Put(n2)
      /\ [s EXCEPT !.talk.turn[t].hold = FALSE] = Put(n3)
  OBVIOUS
<1> HIDE DEF Put, n1, n2, n3, Same
<1> QED
  BY <1>2, <1>3, <1>4, <1>5, ZenonT(60)

LEMMA LeaseStays ==
  ASSUME NEW s, Shaped(s), NEW free
  PROVE  LET r == EndTurnLease(s, free)
         IN  /\ TurnsStay(s, r) /\ r.plan = s.plan /\ r.lane = s.lane /\ r.talk.live = s.talk.live
             /\ r.talk.turn = s.talk.turn
<1> DEFINE r == EndTurnLease(s, free)
<1>1. /\ Shaped(r) /\ r.plan = s.plan /\ r.lane = s.lane /\ r.talk.live = s.talk.live /\ r.talk.turn = s.talk.turn
      /\ r.talk.opening = s.talk.opening
  BY EndTurnLeaseSays
<1>2. r.talk.known = s.talk.known
  BY DEF EndTurnLease, Shaped, TalkShaped
<1> HIDE DEF r
<1>3. TurnsStay(s, r)
  BY <1>1, <1>2 DEF TurnsStay
<1> QED
  BY <1>1, <1>3 DEF r

LEMMA DropStays ==
  ASSUME NEW s, Shaped(s), LiveOwn(s), InputAssumption
  PROVE  LET r == Drop(s)
         IN  /\ TurnsStay(s, r) /\ r.plan = s.plan /\ r.lane = s.lane /\ r.talk.live = None
             /\ s.talk.live # None => r.talk.turn[s.talk.live].dropped
<1>1. CASE s.talk.live = None
  BY <1>1 DEF Drop, TurnsStay
<1>2. CASE s.talk.live # None
  <2> DEFINE l == s.talk.live
             p == [s EXCEPT !.talk.live = None]
             o == [p EXCEPT !.talk.turn[l].dropped = TRUE]
             k == [o EXCEPT !.talk.turn[l].aborted = TRUE]
             e == EndTurnLease(k, TRUE)
  <2>1. l \in Turn /\ s.talk.turn[l].at = "talking"
    BY <1>2 DEF Shaped, TalkShaped, LiveOwn
  <2>2. Drop(s) = IF s.lane.running = None THEN e ELSE k
    BY <1>2 DEF Drop
  <2>3. /\ Shaped(p) /\ p.plan = s.plan /\ p.lane = s.lane /\ p.talk.live = None /\ p.talk.known = s.talk.known
        /\ p.talk.opening = s.talk.opening /\ p.talk.turn = s.talk.turn
    BY DEF Shaped, TalkShaped
  <2> HIDE DEF p
  <2>4. TurnsStay(s, p)
    BY <2>3 DEF TurnsStay
  <2>5. TurnsStay(p, o) /\ o.plan = p.plan /\ o.lane = p.lane /\ o.talk.live = p.talk.live
    BY <2>1, <2>3, PutStays, ZenonT(60)
  <2>6. TurnDropped(p, o, l)
    BY <2>1, <2>3, SetFlag
  <2> HIDE DEF o
  <2>7. Shaped(o) /\ o.talk.turn[l].at = "talking" /\ o.talk.turn[l].dropped
    BY <2>1, <2>3, <2>5, <2>6 DEF TurnsStay, TurnDropped
  <2>8. TurnsStay(o, k) /\ k.plan = o.plan /\ k.lane = o.lane /\ k.talk.live = o.talk.live
    BY <2>1, <2>7, PutStays
  <2> HIDE DEF k
  <2>9. Shaped(k) /\ k.talk.turn[l].dropped
    BY <2>1, <2>7, <2>8 DEF TurnsStay
  <2>10. /\ TurnsStay(k, e) /\ e.plan = k.plan /\ e.lane = k.lane /\ e.talk.live = k.talk.live
         /\ e.talk.turn = k.talk.turn
    BY <2>9, LeaseStays
  <2> HIDE DEF e
  <2>11. TurnsStay(s, k) /\ TurnsStay(s, e)
    BY <2>4, <2>5, <2>8, <2>10, StayTrans
  <2> QED
    BY <2>2, <2>3, <2>5, <2>8, <2>9, <2>10, <2>11
<1> QED
  BY <1>1, <1>2

LEMMA AbandonGone ==
  ASSUME NEW s, Shaped(s), LiveOwn(s), TailOwn(s), s.lane.tails = {}, InputAssumption
  PROVE  Gone(s, Abandon(Drop(s)))
<1> DEFINE d == Drop(s)
           l == d.lane.running
           k == IF d.lane.running = None THEN d ELSE [d EXCEPT !.talk.turn[l].hold = FALSE]
           e == EndTurnLease(k, TRUE)
           X == Waiting(d, Elems(d.plan.pending) \union Taken(d))
           f == Tell(e, X, "discarded")
           g == [f EXCEPT !.lane.running = None, !.lane.quiet = FALSE, !.lane.restored = FALSE, !.lane.reportWake = FALSE]
<1>1. TurnsStay(s, d) /\ d.plan = s.plan /\ d.lane = s.lane /\ d.talk.live = None
  BY DropStays
<1>0. Abandon(d) = g
  BY DEF Abandon
<1> HIDE DEF d
<1>2. Shaped(d) /\ l = s.lane.running /\ l \in Turn \union {None}
  BY <1>1 DEF TurnsStay, Shaped, LaneShaped
<1>3. TurnsStay(d, k) /\ k.plan = d.plan /\ k.lane = d.lane /\ k.talk.live = d.talk.live
  <2>1. CASE d.lane.running = None
    BY <1>2, <2>1 DEF TurnsStay
  <2>2. CASE d.lane.running # None
    <3>1. s.talk.turn[l].at = "talking" /\ l \in Turn
      BY <1>2, <2>2 DEF TailOwn
    <3>2. d.talk.turn[l].at = "talking"
      BY <1>1, <3>1 DEF TurnsStay
    <3> QED
      BY <1>2, <2>2, <3>1, <3>2, PutStays
  <2> QED
    BY <2>1, <2>2
<1> HIDE DEF k
<1>4. TurnsStay(k, e) /\ e.plan = k.plan /\ e.lane = k.lane /\ e.talk.live = k.talk.live
  <2>1. Shaped(k)
    BY <1>3 DEF TurnsStay
  <2> QED
    BY <2>1, LeaseStays
<1> HIDE DEF e
<1>5. \A j \in Input : j \notin X /\ d.lane.caller[j] = "waiting" =>
          /\ j \notin Elems(s.plan.pending)
          /\ \A t \in Turn : s.lane.running = t => j \notin s.talk.turn[t].ids
  BY <1>1, <1>2 DEF X, Waiting, Taken, TurnsStay, InputAssumption
<1> HIDE DEF X
<1> DEFINE c == [j \in Input |-> IF j \in X THEN "discarded" ELSE e.lane.caller[j]]
<1>6. Shaped(e) /\ \A j \in Input : c[j] = "waiting" => e.lane.caller[j] = "waiting" /\ j \notin X
  BY <1>4 DEF TurnsStay
<1>7. f = [e EXCEPT !.lane.caller = c]
  BY <1>6 DEF Tell, Shaped, LaneShaped
<1> HIDE DEF c, f
<1>8. /\ Shaped(f) /\ f.plan = e.plan /\ f.talk = e.talk /\ f.lane.caller = c
      /\ f.lane.tails = e.lane.tails /\ f.lane.withdrawn = e.lane.withdrawn
      /\ f.lane.detecting = e.lane.detecting /\ f.lane.awaitingSlot = e.lane.awaitingSlot
  BY <1>6, <1>7 DEF Shaped, LaneShaped
<1>9. /\ Shaped(g) /\ g.plan = f.plan /\ g.talk = f.talk /\ g.lane.caller = f.lane.caller /\ g.lane.running = None
      /\ g.lane.tails = f.lane.tails /\ g.lane.withdrawn = f.lane.withdrawn /\ ~g.lane.restored
      /\ g.lane.detecting = f.lane.detecting /\ g.lane.awaitingSlot = f.lane.awaitingSlot
  BY <1>8 DEF Shaped, LaneShaped
<1> HIDE DEF g
<1>10. TurnsStay(e, g)
  BY <1>8, <1>9 DEF TurnsStay
<1>11. TurnsStay(s, g)
  BY <1>1, <1>3, <1>4, <1>10, StayTrans
<1>12. Gone(s, g)
  BY <1>1, <1>3, <1>4, <1>5, <1>6, <1>8, <1>9, <1>11 DEF Gone
<1> QED
  BY <1>0, <1>12 DEF d

\* Turns that go on as they were keep what is so of turns.
LEMMA TurningStays ==
  ASSUME NEW s, NEW r, NEW D, Turning(s, D), TurnsStay(s, r), "check" \notin D,
         r.talk.live = None => \E t \in Turn : s.talk.turn[t] = Idle
  PROVE  Turning(r, D)
<1>1. \A t \in Turn : s.talk.turn[t].at = "free" => r.talk.turn[t] = s.talk.turn[t]
  BY DEF TurnsStay
<1>2. \A t \in Turn : /\ r.talk.turn[t].at = s.talk.turn[t].at /\ r.talk.turn[t].kind = s.talk.turn[t].kind
                      /\ r.talk.turn[t].ids = s.talk.turn[t].ids
                      /\ r.talk.turn[t].checking = s.talk.turn[t].checking
                      /\ s.talk.turn[t].dropped => r.talk.turn[t].dropped
  BY DEF TurnsStay
<1>3. r.talk.live = None => \E t \in Turn : r.talk.turn[t] = Idle
  BY <1>1, IdleShape
<1> QED
  BY <1>1, <1>2, <1>3 DEF Turning

LEMMA TurningTakes ==
  ASSUME NEW s, NEW r, NEW D, Turning(s, D), NEW t, NEW k \in {"reply", "opening", "compaction"}, NEW ids,
         TurnTaken(s, r, t, k, ids), k = "compaction" => "compact" \in D /\ ids = {}, InputAssumption
  PROVE  Turning(r, D)
<1> DEFINE Good(n) == /\ n.at = "free" => n \in {Idle, Checked}
                      /\ n.checking \in BOOLEAN
                      /\ "check" \in D => ~n.dropped
                      /\ n.at = "talking" /\ n.kind = "compaction" => "compact" \in D /\ n.ids = {}
                      /\ n.kind = "hung" => n.dropped
<1>1. \A u \in Turn : Good(s.talk.turn[u])
  BY DEF Turning
<1>2. Good(r.talk.turn[t])
  BY DEF TurnTaken
<1>3. \A u \in Turn : Good(r.talk.turn[u])
  <2> HIDE DEF Good
  <2>1. ASSUME NEW u \in Turn PROVE Good(r.talk.turn[u])
    <3>1. CASE u = t
      BY <1>2, <3>1
    <3>2. CASE u # t
      BY <1>1, <3>2 DEF TurnTaken
    <3> QED
      BY <3>1, <3>2
  <2> QED
    BY <2>1
<1>4. \A u, v \in Turn : r.talk.turn[u].checking /\ r.talk.turn[v].checking => u = v
  BY DEF TurnTaken, Turning
<1>5. r.talk.live # None
  BY DEF TurnTaken, InputAssumption
<1> QED
  BY <1>3, <1>4, <1>5 DEF Turning

\* The opening's turn has the goal, its list what was held, and the rest has heard.
LEMMA OpenGoalOwed ==
  ASSUME NEW s, NEW D, Ready(s, D), Lost(s) = {}, Own(s, D), FreeTurns(s) # {}, "ticks" \notin D, "check" \notin D,
         s.talk.opening.at \in {"probe", "slot"}, InputAssumption
  PROVE  Owed(OpenGoal(s), D)
<1> DEFINE i == s.talk.opening.input
           held == s.talk.opening.held
           F == s.talk.opening.forced
           ahead == Those(held, F)
           q == ahead \o Without(held, Elems(ahead))
           w == WithSlot(s)
           x == [w EXCEPT !.talk.lease = FALSE]
           a == Abandon(Drop(x))
           p == FreshPlan(s.plan.gen + 1, i, q)
           O == [NoOpening EXCEPT !.at = "open", !.input = i]
           f == [a EXCEPT !.plan = p, !.plan.forced = Elems(ahead), !.lane.asked = TRUE, !.talk.lease = TRUE,
                          !.talk.moved = FALSE, !.talk.opening = O]
           r == Claimed(f, "opening", {i}, FALSE)
<1>0. OpenGoal(s) = r
  BY DEF OpenGoal
<1>1. /\ Shaped(s) /\ HoldsOwn(s) /\ LiveOwn(s) /\ TailOwn(s) /\ s.lane.tails = {} /\ s.plan.gen \in Nat
      /\ Fits(s, D) /\ Turning(s, D) /\ Calling(s, D)
  BY DEF Own, TickOwn, Shaped, PlanShaped, Ready
<1>2. Fits(r, D)
  BY <1>0, <1>1, OpenGoalFits
<1>3. held \in Seq(Input) /\ OneEach(held) /\ i \in Input
  BY <1>1 DEF Fits, Gated, Input
<1>4. Elems(q) = Elems(held)
  <2> DEFINE u == Without(held, Elems(ahead))
  <2>1. u \in Seq(Input) /\ Elems(u) = Elems(held) \ Elems(ahead) /\ OneEach(u)
    BY <1>3, WithoutOf
  <2>2. /\ ahead \in Seq(Input) /\ Elems(ahead) = Elems(held) \intersect F /\ OneEach(ahead)
    BY <1>3, ThoseOf
  <2>4. q = ahead \o u
    OBVIOUS
  <2> HIDE DEF u, ahead, q
  <2>5. Elems(ahead) \intersect Elems(u) = {}
    BY <2>1
  <2>3. q \in Seq(Input) /\ Elems(q) = Elems(ahead) \union Elems(u) /\ OneEach(q)
    BY <2>1, <2>2, <2>4, <2>5, JoinOf
  <2> QED
    BY <2>1, <2>2, <2>3
<1>5. /\ Shaped(w) /\ w.plan = s.plan /\ w.lane = s.lane /\ w.talk.live = s.talk.live
      /\ w.talk.turn = s.talk.turn /\ w.talk.opening = s.talk.opening
  BY <1>1, WithSlotSays
<1>6. w.talk.known = s.talk.known
  BY <1>1 DEF WithSlot, Shaped, TalkShaped
<1> HIDE DEF w, q
<1>7. /\ Shaped(x) /\ x.plan = s.plan /\ x.lane = s.lane /\ x.talk.live = s.talk.live /\ x.talk.turn = s.talk.turn
      /\ x.talk.opening = s.talk.opening /\ x.talk.known = s.talk.known
  BY <1>5, <1>6 DEF Shaped, TalkShaped
<1> HIDE DEF x
<1>8. HoldsOwn(x) /\ LiveOwn(x) /\ TailOwn(x) /\ x.lane.tails = {} /\ FreeTurns(x) = FreeTurns(s)
  BY <1>1, <1>7 DEF HoldsOwn, LiveOwn, TailOwn, FreeTurns
<1>9. Vacant(a) /\ FreeTurns(s) \subseteq FreeTurns(a)
  BY <1>7, <1>8, LettingGoVacates
<1>10. Gone(x, a)
  BY <1>7, <1>8, AbandonGone
<1> HIDE DEF a, ahead
<1>11. TurnsStay(s, a)
  BY <1>7, <1>10 DEF Gone, TurnsStay
<1>12. Turning(a, D)
  <2>1. \E t \in Turn : s.talk.turn[t] = Idle
    BY DEF FreeTurns
  <2> QED
    BY <1>1, <1>11, <2>1, TurningStays
<1>13. /\ f.plan = [p EXCEPT !.forced = Elems(ahead)] /\ f.lane = [a.lane EXCEPT !.asked = TRUE]
       /\ f.talk = [a.talk EXCEPT !.lease = TRUE, !.moved = FALSE, !.opening = O] /\ f \in [plan : {f.plan}, lane : {f.lane}, talk : {f.talk}]
  <2> HIDE DEF p, O, i, held, F
  <2>1. a = [plan |-> a.plan, lane |-> a.lane, talk |-> a.talk]
    BY <1>9 DEF Vacant, Shaped
  <2> QED
    BY <2>1
<1> HIDE DEF f
<1>14. f.plan.pending = q /\ PlanShaped(f.plan)
  <2>1. s.plan.gen + 1 \in Nat
    BY <1>1
  <2> QED
    BY <1>13, <2>1 DEF FreshPlan, PlanShaped
<1>15. LaneShaped(a.lane) /\ TalkShaped(a.talk) /\ a.lane.running = None /\ a.lane.tails = {} /\ a.talk.live = None
  BY <1>9 DEF Vacant, Shaped
<1>16. /\ LaneShaped(f.lane) /\ f.lane.caller = a.lane.caller /\ f.lane.tails = {} /\ f.lane.running = None
       /\ f.lane.withdrawn = a.lane.withdrawn /\ f.lane.restored = a.lane.restored
       /\ f.lane.detecting = a.lane.detecting
  BY <1>13, <1>15 DEF LaneShaped
<1>17. /\ TalkShaped(f.talk) /\ f.talk.turn = a.talk.turn /\ f.talk.live = None
       /\ f.talk.known = a.talk.known
  <2>1. /\ O \in [at : {O.at}, input : {O.input}, held : {O.held}, forced : {O.forced}]
        /\ O.at = "open" /\ O.held = <<>>
    BY DEF NoOpening
  <2> HIDE DEF O, i
  <2> QED
    BY <1>13, <1>15, <2>1, ZenonT(60) DEF TalkShaped
<1> HIDE DEF p, O
<1>18. Shaped(f)
  BY <1>13, <1>14, <1>16, <1>17 DEF Shaped
<1>19. FreeTurns(f) # {}
  BY <1>9, <1>15, <1>16, <1>17 DEF FreeTurns
<1>20. TurnTaken(f, r, NextTurn(f), "opening", {i}) /\ r.lane = f.lane
  BY <1>17, <1>18, <1>19, ClaimedSays
<1> DEFINE t == NextTurn(f)
<1> HIDE DEF r, t, held, i
<1>21. Turning(r, D)
  <2>1. Turning(f, D)
    BY <1>12, <1>15, <1>17 DEF Turning
  <2>2. TurnTaken(f, r, t, "opening", {i})
    BY <1>20 DEF t
  <2> QED
    BY <2>1, <2>2, TurningTakes
<1>22. /\ t \in Turn /\ f.talk.turn[t] = Idle /\ r.talk.live = t /\ r.plan = f.plan
       /\ r.talk.turn[t].at = "talking" /\ r.talk.turn[t].kind = "opening" /\ r.talk.turn[t].ids = {i}
       /\ \A u \in Turn \ {t} : r.talk.turn[u] = f.talk.turn[u]
       /\ r.talk.known = f.talk.known
  BY <1>20 DEF TurnTaken, t
<1>23. ASSUME NEW j \in Owing(r)
       PROVE  j \in Owing(s) /\ Somewhere(r, j)
  <2>1. /\ j \in Owing(s) /\ j \notin Elems(s.plan.pending)
        /\ \A u \in Turn : s.lane.running = u => j \notin s.talk.turn[u].ids
    BY <1>7, <1>10, <1>16, <1>20 DEF Gone, Owing
  <2>2. Somewhere(s, j)
    BY <2>1 DEF Lost
  <2>3. CASE s.talk.opening.at \in {"probe", "slot"} /\ j \in Elems(held) \union {i}
    <3>1. CASE j \in Elems(held)
      BY <1>4, <1>14, <1>22, <2>1, <3>1 DEF Somewhere
    <3>2. CASE j = i
      <4>1. TakenBy(r, t, j)
        BY <1>22, <3>2 DEF TakenBy
      <4> QED
        BY <1>22, <2>1, <4>1 DEF Somewhere
    <3> QED
      BY <2>3, <3>1, <3>2
  <2>4. CASE \E u \in Turn : TakenBy(s, u, j)
    <3>1. PICK u \in Turn : TakenBy(s, u, j)
      BY <2>4
    <3>2. s.talk.turn[u].at = "talking" /\ s.talk.turn[u].kind = "opening" /\ j \in s.talk.turn[u].ids
      BY <2>1, <3>1 DEF TakenBy
    <3>3. f.talk.turn[u].at = "talking" /\ f.talk.turn[u].kind = "opening" /\ j \in f.talk.turn[u].ids
      BY <1>11, <1>17, <3>2 DEF TurnsStay
    <3>4. u # t
      BY <1>22, <3>3, IdleShape
    <3>5. TakenBy(r, u, j)
      BY <1>22, <3>3, <3>4 DEF TakenBy
    <3> QED
      BY <2>1, <3>5 DEF Somewhere
  <2> QED
    BY <1>1, <2>1, <2>2, <2>3, <2>4 DEF Somewhere, held, i
<1>24. Lost(r) = {}
  BY <1>23 DEF Lost
<1>25. Calling(r, D)
  <2>1. Owing(r) \subseteq D
    BY <1>1, <1>23 DEF Calling
  <2>2. ~r.lane.restored
    BY <1>10, <1>16, <1>20 DEF Gone
  <2>3. r.lane.detecting => ~r.talk.known
    BY <1>1, <1>7, <1>10, <1>11, <1>16, <1>17, <1>20, <1>22 DEF Gone, TurnsStay, Calling
  <2> QED
    BY <2>1, <2>2, <2>3 DEF Calling
<1>26. Served(r)
  BY <1>22 DEF Served, InputAssumption
<1>27. Owed(r, D)
  BY <1>2, <1>21, <1>24, <1>25, <1>26 DEF Owed, Ready
<1> QED
  BY <1>0, <1>27

LEMMA SlotOwed ==
  ASSUME NEW s, NEW D, Owed(s, D), s.talk.opening.at \in {"probe", "slot"}
  PROVE  Owed([s EXCEPT !.talk.opening.at = "slot"], D)
<1> DEFINE r == [s EXCEPT !.talk.opening.at = "slot"]
<1>1. Fits(s, D) /\ Shaped(s)
  BY DEF Owed, Ready, Fits
<1>2. /\ Shaped(r) /\ r.plan = s.plan /\ r.lane = s.lane /\ r.talk.turn = s.talk.turn
      /\ r.talk.live = s.talk.live /\ r.talk.known = s.talk.known /\ r.talk.room = s.talk.room
      /\ r.talk.opening.at = "slot" /\ r.talk.opening.held = s.talk.opening.held
      /\ r.talk.opening.input = s.talk.opening.input
  BY <1>1 DEF Shaped, TalkShaped
<1> HIDE DEF r
<1>3. Gated(r.talk.opening, r.plan.gen, r.lane.caller, D)
  BY <1>1, <1>2 DEF Fits, Gated
<1>4. Fits(r, D)
  BY <1>1, <1>2, <1>3 DEF Fits
<1>5. \A j \in Input : Somewhere(s, j) => Somewhere(r, j)
  BY <1>2 DEF Somewhere, TakenBy
<1>6. \A j \in Input : r.lane.caller[j] = "waiting" => j \in D /\ Somewhere(r, j) /\ s.lane.caller[j] = "waiting"
  BY <1>2, <1>5, OwedSomewhere
<1>7. Owed(r, D)
  BY <1>2, <1>4, <1>6, ToldOwed
<1> QED
  BY <1>7 DEF r

LEMMA ThroughGateOwed ==
  ASSUME NEW s, NEW D, Owed(s, D), Own(s, D), FreeTurns(s) # {}, "ticks" \notin D, "check" \notin D,
         s.talk.opening.at \in {"probe", "slot"}, InputAssumption
  PROVE  Owed(ThroughGate(s), D)
<1>1. "refused" \in Words \ {"waiting"}
  BY DEF Words, Hows
<1>2. Owed(EndWaiting(s, "refused"), D)
  BY <1>1, EndWaitingOwed
<1>3. Owed(OpenGoal(s), D)
  BY OpenGoalOwed DEF Owed
<1>4. ThroughGate(s) \in {s, EndWaiting(s, "refused"), OpenGoal(s), [s EXCEPT !.talk.opening.at = "slot"]}
  BY DEF ThroughGate
<1> QED
  BY <1>2, <1>3, <1>4, SlotOwed

\* A day of goals is not one of checks.
LEMMA GoalUnchecked ==
  ASSUME NEW s, NEW D \in Days, Fits(s, D), s.talk.opening.at \in {"probe", "slot"}, DaysOwe
  PROVE  "check" \notin D
BY DEF Fits, Gated, DaysOwe, ChecksStay

LEMMA RoomOwed == ASSUME OwedInv, DaysOwe, TurnRoomFreed PROVE Owed(Now', day')
<1> DEFINE s == [Now EXCEPT !.talk.room = TRUE]
<1>0. FitsInv /\ DaysGo /\ Own(Now, day) /\ Owed(Now, day) /\ Ready(Now, day) /\ Fits(Now, day) /\ Shaped(Now) /\ InputAssumption /\ day \in Days
  BY OwedGives
<1>1. /\ day' = day
      /\ talk.opening.at = "slot" => Spare /\ Becomes(OpenGoal(s))
      /\ talk.opening.at # "slot" => Becomes(IF lane.awaitingSlot THEN Pump(s) ELSE s)
  BY DEF TurnRoomFreed
<1>2. /\ Fits(s, day) /\ Own(s, day) /\ s.talk.opening = talk.opening /\ s.talk.turn = talk.turn
      /\ s.lane = lane /\ s.plan = plan /\ s.talk.live = talk.live /\ s.talk.known = talk.known
  <2>1. Alike(Now, s)
    BY <1>0, AlikeSelf, SetTalk
  <2>2. /\ s.talk.opening = talk.opening /\ s.talk.turn = talk.turn /\ s.lane = lane /\ s.plan = plan
        /\ s.talk.live = talk.live /\ s.talk.known = talk.known
    <3>1. TalkShaped(talk)
      BY <1>0, NowFields DEF Shaped
    <3> QED
      BY <3>1 DEF Now, TalkShaped
  <2> QED
    BY <1>0, <2>1, <2>2, AlikeOwn, SetRestFits
<1> HIDE DEF s
<1>3. Loose(Now, s)
  BY <1>2, NowFields, OwedGives DEF Loose, Fits
<1>4. Ready(s, day) /\ Lost(s) = {}
  BY <1>0, <1>2, <1>3, LooseOwed DEF Owed
<1>5. ASSUME talk.opening.at = "slot" PROVE Owed(OpenGoal(s), day)
  <2>1. "ticks" \notin day
    BY <1>0, <1>5, NowFields DEF Own, DayOwn
  <2>2. FreeTurns(s) # {}
    BY <1>1, <1>2, <1>5, NowFields DEF Spare, FreeTurns
  <2>3. "check" \notin day
    BY <1>0, <1>2, <1>5, GoalUnchecked
  <2> QED
    BY <1>0, <1>2, <1>4, <1>5, <2>1, <2>2, <2>3, OpenGoalOwed
<1>6. Owed(Pump(s), day)
  BY <1>0, <1>4, PumpOwed
<1>7. ~lane.awaitingSlot => Owed(s, day)
  <2>1. ~lane.awaitingSlot /\ Waits(Now) => Waits(s)
    BY <1>2, NowFields DEF Waits, Holds
  <2> QED
    BY <1>0, <1>2, <1>3, <2>1, NowFields, LooseOwed
<1>8. talk.opening.at # "slot" => Owed(IF lane.awaitingSlot THEN Pump(s) ELSE s, day)
  BY <1>6, <1>7
<1> QED
  BY <1>1, <1>5, <1>8, OwedBecome

LEMMA DetectedOwed == ASSUME OwedInv, DaysOwe, PlannerDetected PROVE Owed(Now', day')
<1> DEFINE s1 == [Now EXCEPT !.talk.known = TRUE]
           s == [s1 EXCEPT !.lane.detecting = FALSE]
           q == IF lane.detecting THEN Pump(s) ELSE s
<1>0. FitsInv /\ DaysGo /\ Own(Now, day) /\ Owed(Now, day) /\ Ready(Now, day) /\ Fits(Now, day) /\ Shaped(Now) /\ InputAssumption /\ day \in Days
  BY OwedGives
<1>1. /\ day' = day
      /\ talk.opening.at = "probe" => FreeTurns(q) # {} /\ Becomes(ThroughGate(q))
      /\ talk.opening.at # "probe" => Becomes(q)
  BY DEF PlannerDetected
<1>2. /\ Alike(Now, s) /\ Fits(s, day) /\ Loose(Now, s) /\ s.plan = plan /\ s.lane.awaitingSlot = lane.awaitingSlot
      /\ s.talk.room = talk.room /\ s.talk.opening = talk.opening
  <2>1. TalkShaped(talk) /\ LaneShaped(lane)
    BY <1>0, NowFields DEF Shaped
  <2>2. Alike(Now, s1) /\ Fits(s1, day)
    BY <1>0, AlikeSelf, SetTalk, SetRestFits
  <2>3. /\ s1.plan = plan /\ s1.lane = lane /\ s1.talk.turn = talk.turn /\ s1.talk.live = talk.live
        /\ s1.talk.opening = talk.opening /\ s1.talk.room = talk.room
    BY <2>1 DEF Now, TalkShaped
  <2> HIDE DEF s1
  <2>4. Alike(Now, s) /\ Fits(s, day)
    BY <2>2, SetLane, SetRestFits
  <2>5. /\ s.plan = plan /\ s.talk = s1.talk /\ s.lane.running = lane.running /\ s.lane.tails = lane.tails
        /\ s.lane.withdrawn = lane.withdrawn /\ s.lane.caller = lane.caller /\ s.lane.restored = lane.restored
        /\ s.lane.detecting = FALSE /\ s.lane.awaitingSlot = lane.awaitingSlot
    BY <2>1, <2>2, <2>3 DEF Fits, Shaped, LaneShaped
  <2> HIDE DEF s
  <2> QED
    BY <2>3, <2>4, <2>5, NowFields DEF Loose, Fits
<1> HIDE DEF s, s1
<1>3. Ready(s, day) /\ Lost(s) = {}
  BY <1>0, <1>2, LooseOwed DEF Owed
<1>4. Owed(q, day)
  <2>1. Owed(Pump(s), day)
    BY <1>0, <1>3, PumpOwed
  <2>2. Waits(Now) => Waits(s)
    BY <1>2, NowFields DEF Waits, Holds
  <2>3. ~lane.detecting => Owed(s, day)
    BY <1>0, <1>2, <2>2, NowFields, LooseOwed
  <2> QED
    BY <2>1, <2>3
<1>5. Own(q, day) /\ q.talk.opening = talk.opening
  <2>1. Own(s, day) /\ Own(Pump(s), day) /\ Pump(s).talk.opening = talk.opening
    BY <1>0, <1>2, AlikeOwn, PumpOwn, PumpFits
  <2> QED
    BY <1>2, <2>1
<1> HIDE DEF q
<1>6. ASSUME talk.opening.at = "probe" PROVE Owed(ThroughGate(q), day)
  <2>1. "ticks" \notin day
    BY <1>0, <1>6, NowFields DEF Own, DayOwn
  <2>2. "check" \notin day
    BY <1>0, <1>6, NowFields, GoalUnchecked
  <2> QED
    BY <1>0, <1>1, <1>4, <1>5, <1>6, <2>1, <2>2, ThroughGateOwed
<1> QED
  BY <1>1, <1>4, <1>6, OwedBecome

LEMMA StartOwed == ASSUME OwedInv, DaysOwe, NEW i \in Input, StartPlanning(i) PROVE Owed(Now', day')
<1> DEFINE e == EndWaiting(Now, "discarded")
           a == Tell(e, {i}, "waiting")
           O == [NoOpening EXCEPT !.at = "probe", !.input = i]
           s == [a EXCEPT !.talk.opening = O]
<1>0. FitsInv /\ DaysGo /\ Owed(Now, day) /\ Fits(Now, day) /\ Shaped(Now) /\ InputAssumption /\ OwnInv /\ day \in Days
  BY OwedGives DEF OwedInv
<1>1. /\ day' = day /\ i \in User /\ "goal" \in day /\ i \in day /\ lane.caller[i] = "none"
      /\ "ticks" \notin day /\ Now.plan.gen < MaxPlans
  BY <1>0, NowFields DEF OwnInv, DaysGo, TicksAlone, StartPlanning, Acts
<1>2. Own(s, day) /\ FreeTurns(s) # {}
  BY <1>0, StartsAtGate
<1>3. Becomes(ThroughGate(s))
  BY DEF StartPlanning
<1>4. "discarded" \in Words \ {"waiting"} /\ "waiting" \in Words
  BY DEF Words, Hows
<1>5. /\ Owed(e, day) /\ e.plan = Now.plan /\ e.talk.opening.at \notin {"probe", "slot"}
      /\ e.lane.caller[i] = "none"
  BY <1>0, <1>1, <1>4, NowFields, EndWaitingOwed
<1> HIDE DEF e
<1>6. Fits(e, day)
  BY <1>5 DEF Owed, Ready
<1>7. i \notin Elems(e.plan.pending)
  BY <1>5, <1>6 DEF Fits, Listed, Sent
<1>8. /\ Fits(a, day) /\ Frame(e, a) /\ a.plan = e.plan /\ a.talk = e.talk
      /\ \A j \in Input : a.lane.caller[j] = IF j \in {i} THEN "waiting" ELSE e.lane.caller[j]
  BY <1>4, <1>6, TellSays
<1> HIDE DEF a
<1>9. /\ O \in [at : {O.at}, input : {O.input}, held : {O.held}, forced : {O.forced}]
      /\ O.at = "probe" /\ O.input = i /\ O.held = <<>>
  BY DEF NoOpening
<1> HIDE DEF O
<1>10. /\ Shaped(s) /\ s.plan = a.plan /\ s.lane = a.lane /\ s.talk.turn = a.talk.turn /\ s.talk.opening = O
       /\ s.talk.live = a.talk.live /\ s.talk.known = a.talk.known /\ s.talk.room = a.talk.room
  <2>1. Shaped(a)
    BY <1>8 DEF Fits
  <2> QED
    BY <1>9, <2>1 DEF Shaped, TalkShaped
<1> HIDE DEF s
<1>11. Gated(s.talk.opening, s.plan.gen, s.lane.caller, day)
  <2>1. <<>> \in Seq(Input) /\ Elems(<<>>) = {} /\ OneEach(<<>>)
    BY DEF Elems, OneEach
  <2>2. i \in Sent(s.lane.caller)
    BY <1>8, <1>10 DEF Sent
  <2> QED
    BY <1>1, <1>5, <1>8, <1>9, <1>10, <2>1, <2>2, ZenonT(60) DEF Gated
<1>12. Fits(s, day)
  BY <1>8, <1>10, <1>11 DEF Fits
<1>13. ASSUME NEW j \in Input, s.lane.caller[j] = "waiting"
       PROVE  /\ j \in day /\ Somewhere(s, j)
              /\ e.lane.caller[j] = "waiting" \/ j \notin Elems(e.plan.pending)
  <2>1. CASE j = i
    BY <1>1, <1>7, <1>9, <1>10, <2>1 DEF Somewhere
  <2>2. CASE j # i
    <3>1. e.lane.caller[j] = "waiting"
      BY <1>8, <1>10, <1>13, <2>2
    <3>2. j \in day /\ Somewhere(e, j)
      BY <1>5, <3>1, OwedSomewhere
    <3>3. Somewhere(s, j)
      BY <1>5, <1>8, <1>10, <3>2 DEF Somewhere, TakenBy, Frame
    <3> QED
      BY <3>1, <3>2, <3>3
  <2> QED
    BY <2>1, <2>2
<1>14. Owed(s, day)
  BY <1>5, <1>8, <1>10, <1>12, <1>13, ToldOwed DEF Frame
<1>15. "check" \notin day
  BY <1>0, <1>9, <1>10, <1>12, GoalUnchecked
<1>16. Owed(ThroughGate(s), day)
  BY <1>0, <1>1, <1>2, <1>9, <1>10, <1>14, <1>15, ThroughGateOwed
<1> QED
  BY <1>1, <1>3, <1>16, OwedBecome

\* An adopted plan's own inputs have no caller, and the plan before it had its say.
LEMMA LoadIsOwed ==
  ASSUME NEW s, NEW D, Owed(s, D), Own(s, D), FreeTurns(s) # {}, "ticks" \notin D, "check" \notin D,
         s.plan.gen < MaxPlans, InputAssumption, NEW saved \in Seq(Input), OneEach(saved), NEW wakes
  PROVE  Owed(Loaded(s, saved, Elems(saved), wakes), D)
<1> DEFINE e == EndWaiting(s, "discarded")
           a == Abandon(Drop(e))
           X == Elems(saved)
           k == Tell(a, X, "kept")
           p == FreshPlan(s.plan.gen + 1, None, saved)
           f == [k EXCEPT !.plan = p, !.lane.restored = TRUE, !.lane.asked = FALSE, !.lane.reportWake = wakes,
                          !.talk.moved = FALSE]
<1>0. Loaded(s, saved, X, wakes) = f
  BY DEF Loaded
<1>1. Shaped(s) /\ s.plan.gen \in Nat /\ s.lane.tails = {} /\ Fits(s, D)
  BY DEF Own, Shaped, PlanShaped, TickOwn, Owed, Ready
<1>2. "discarded" \in Words \ {"waiting"} /\ "kept" \in Words
  BY DEF Words, Hows
<1>3. Own(e, D) /\ e.lane.tails = {} /\ FreeTurns(e) # {}
  BY <1>1, EndWaitingAt, AlikeOwn DEF Alike, SameTurns, FreeTurns
<1>4. Owed(e, D) /\ e.talk.opening.at \notin {"probe", "slot"}
  BY <1>2, EndWaitingOwed
<1>19. Fits(f, D)
  BY <1>0, <1>1, LoadFits
<1> HIDE DEF e
<1>5. Vacant(a) /\ Gone(e, a)
  BY <1>3, LettingGoVacates, AbandonGone DEF Own
<1>6. Fits(a, D)
  <2>1. Fits(e, D)
    BY <1>4 DEF Owed, Ready
  <2> QED
    BY <2>1, DropFits, AbandonFits
<1> HIDE DEF a, X
<1>7. /\ Fits(k, D) /\ Frame(a, k) /\ k.talk = a.talk
      /\ \A j \in Input : k.lane.caller[j] = IF j \in X THEN "kept" ELSE a.lane.caller[j]
  BY <1>2, <1>6, TellSays
<1>8. Vacant(k)
  BY <1>5 DEF Tell, Vacant, Shaped, LaneShaped
<1> HIDE DEF k
<1>9. /\ f.plan = p /\ f.lane = [k.lane EXCEPT !.restored = TRUE, !.asked = FALSE, !.reportWake = wakes]
      /\ f.talk = [k.talk EXCEPT !.moved = FALSE] /\ f \in [plan : {f.plan}, lane : {f.lane}, talk : {f.talk}]
  <2> HIDE DEF p
  <2>1. k = [plan |-> k.plan, lane |-> k.lane, talk |-> k.talk]
    BY <1>8 DEF Vacant, Shaped
  <2> QED
    BY <2>1
<1> HIDE DEF f
<1>11. f.plan.pending = saved
  BY <1>9 DEF FreshPlan
<1> HIDE DEF p
<1>12. LaneShaped(k.lane) /\ TalkShaped(k.talk) /\ k.lane.tails = {} /\ k.talk.live = None
  BY <1>8 DEF Vacant, Shaped
<1>13. /\ f.lane.caller = k.lane.caller /\ f.lane.detecting = k.lane.detecting
  BY <1>9, <1>12 DEF LaneShaped
<1>14. f.talk.turn = k.talk.turn /\ f.talk.live = None /\ f.talk.known = k.talk.known
  BY <1>9, <1>12 DEF TalkShaped
<1>15. Turning(f, D)
  <2>1. \E t \in Turn : e.talk.turn[t] = Idle
    BY <1>3 DEF FreeTurns
  <2>2. Turning(a, D)
    BY <1>4, <1>5, <2>1, TurningStays DEF Owed, Ready, Gone
  <2> QED
    BY <1>5, <1>7, <1>14, <2>2 DEF Turning, Vacant
<1>16. ASSUME NEW j \in Owing(f)
       PROVE  j \notin X /\ j \in Owing(e) /\ Somewhere(f, j)
  <2>0. j \in Input /\ f.lane.caller[j] = "waiting"
    BY <1>16 DEF Owing
  <2>1. /\ j \notin X /\ j \in Owing(e) /\ j \notin Elems(e.plan.pending)
        /\ \A u \in Turn : e.lane.running = u => j \notin e.talk.turn[u].ids
    BY <1>5, <1>7, <1>13, <2>0 DEF Gone, Owing
  <2>2. Somewhere(e, j)
    BY <1>4, <2>1 DEF Owed, Lost
  <2>3. PICK u \in Turn : TakenBy(e, u, j)
    BY <1>3, <1>4, <2>1, <2>2 DEF Somewhere
  <2>4. e.talk.turn[u].at = "talking" /\ e.talk.turn[u].kind = "opening" /\ j \in e.talk.turn[u].ids
    BY <2>1, <2>3 DEF TakenBy
  <2>5. TakenBy(f, u, j)
    BY <1>5, <1>7, <1>14, <2>4 DEF Gone, TurnsStay, TakenBy
  <2> QED
    BY <2>1, <2>5 DEF Somewhere
<1>17. Calls(f) = {}
  BY <1>11, <1>16 DEF Calls, X
<1>18. Calling(f, D)
  <2>1. Owing(f) \subseteq D
    BY <1>4, <1>16 DEF Owed, Ready, Calling
  <2>2. f.lane.detecting => ~f.talk.known
    BY <1>4, <1>5, <1>7, <1>13, <1>14 DEF Owed, Ready, Calling, Gone, TurnsStay, Frame
  <2> QED
    BY <1>17, <2>1, <2>2 DEF Calling
<1>20. Lost(f) = {}
  BY <1>16 DEF Lost
<1>21. Owed(f, D)
  BY <1>15, <1>17, <1>18, <1>19, <1>20 DEF Owed, Ready, Served
<1> QED
  BY <1>0, <1>21 DEF X

LEMMA LoadOwed ==
  ASSUME OwedInv, DaysOwe, NEW saved \in Seq(Input), OneEach(saved), LoadPlan(saved)
  PROVE  Owed(Now', day')
<1>0. FitsInv /\ DaysGo /\ Own(Now, day) /\ Owed(Now, day) /\ Fits(Now, day) /\ Shaped(Now) /\ InputAssumption /\ day \in Days
  BY OwedGives
<1>1. day' = day /\ "ticks" \notin day /\ "check" \notin day /\ Now.plan.gen < MaxPlans /\ FreeTurns(Now) # {}
  BY <1>0, NowFields DEF DaysGo, TicksAlone, LoadPlan, Acts, DaysOwe, ChecksStay, Spare
<1>2. Becomes(Loaded(Now, saved, Elems(saved), Elems(saved) \intersect Report # {}))
  BY DEF LoadPlan, Loaded, Now
<1>3. Owed(Loaded(Now, saved, Elems(saved), Elems(saved) \intersect Report # {}), day)
  BY <1>0, <1>1, LoadIsOwed
<1> QED
  BY <1>1, <1>2, <1>3, OwedBecome

\* A session is lost: its turn goes on, and what it had taken is its own still.
LEMMA LostOwed == ASSUME OwedInv, DaysOwe, LeaseLost PROVE Owed(Now', day')
<1> DEFINE d == Drop(Now)
           r == [d EXCEPT !.talk.able = FALSE]
<1>0. FitsInv /\ DaysGo /\ Own(Now, day) /\ Owed(Now, day) /\ Ready(Now, day) /\ Fits(Now, day) /\ Shaped(Now) /\ InputAssumption /\ day \in Days
  BY OwedGives
<1>1. /\ day' = day /\ Becomes(r) /\ "check" \notin day /\ "goal" \notin day
      /\ ("compact" \notin day \/ day \intersect User = {}) /\ Spare
  <2>1. day' = day /\ Becomes(r) /\ "lease lost" \in day /\ Spare
    BY DEF LeaseLost, Acts
  <2> QED
    BY <1>0, <2>1 DEF DaysOwe, ChecksStay, LostQuietly
<1>2. TurnsStay(Now, d) /\ d.plan = Now.plan /\ d.lane = Now.lane /\ d.talk.live = None
  BY <1>0, DropStays DEF Own
<1>3. Fits(d, day)
  BY <1>0, DropFits
<1>4. Now.talk.live = None => d = Now
  BY DEF Drop
<1> HIDE DEF d
<1>5. Fits(r, day)
  <2>1. FALSE \in BOOLEAN
    OBVIOUS
  <2> QED
    BY <1>3, <2>1, SetRestFits
<1>6. /\ Shaped(r) /\ r.plan = d.plan /\ r.lane = d.lane /\ r.talk.live = d.talk.live /\ r.talk.turn = d.talk.turn
      /\ r.talk.opening = d.talk.opening /\ r.talk.known = d.talk.known /\ r.talk.room = d.talk.room
  BY <1>3 DEF Fits, Shaped, TalkShaped
<1> HIDE DEF r
<1>7. TurnsStay(Now, r) /\ r.plan = Now.plan /\ r.lane = Now.lane
  BY <1>2, <1>6 DEF TurnsStay
<1>8. Turning(r, day)
  <2>1. \E t \in Turn : Now.talk.turn[t] = Idle
    BY <1>1 DEF Spare, FreeTurns
  <2> QED
    BY <1>0, <1>1, <1>7, <2>1, TurningStays DEF Ready
<1>9. Owing(r) = Owing(Now) /\ Calls(r) = Calls(Now)
  BY <1>7 DEF Owing, Calls
<1>10. \A j \in Input : Somewhere(Now, j) => Somewhere(r, j)
  BY <1>7 DEF Somewhere, TakenBy, TurnsStay
<1>11. Lost(r) = {}
  BY <1>0, <1>9, <1>10 DEF Owed, Lost, Owing
<1>12. Ready(r, day)
  BY <1>0, <1>5, <1>7, <1>8, <1>9 DEF Ready, Calling, TurnsStay
<1>13. Served(r)
  <2>1. CASE Now.talk.live = None
    BY <1>0, <1>2, <1>4, <1>6, <1>9, <2>1 DEF Owed, Served, Waits, Holds
  <2>2. CASE Now.talk.live # None /\ Now.lane.running # None
    BY <1>7, <2>2 DEF Served
  <2>3. CASE Now.talk.live # None /\ Now.lane.running = None
    <3> DEFINE l == Now.talk.live
               o == Now.talk.turn[l]
    <3>1. l \in Turn /\ l # None
      BY <1>0, <2>3 DEF Shaped, TalkShaped
    <3>2. o.at = "talking" /\ ~o.dropped /\ o.kind # "reply" /\ o.kind \in {"reply", "opening", "compaction", "hung"}
      BY <1>0, <2>3, <3>1 DEF Own, LiveOwn, FlightOwn, Shaped, TalkShaped, TurnIsRecord
    <3>3. o.kind # "opening"
      BY <1>0, <1>1, <3>1, <3>2 DEF Fits, TurnFits
    <3>4. "compact" \in day
      BY <1>0, <3>1, <3>2, <3>3 DEF Ready, Turning
    <3>5. Calls(Now) = {}
      BY <1>0, <1>1, <3>4 DEF Ready, Calling, Calls
    <3> QED
      BY <1>9, <3>5 DEF Served
  <2> QED
    BY <2>1, <2>2, <2>3
<1>14. Owed(r, day)
  BY <1>11, <1>12, <1>13 DEF Owed
<1> QED
  BY <1>1, <1>14, OwedBecome

-----------------------------------------------------------------------------
\* A place whose call is over is free, its check apart.
LEMMA PlaceFreed ==
  /\ [Idle EXCEPT !.checking = FALSE, !.hold = FALSE] = Idle
  /\ [Idle EXCEPT !.checking = TRUE, !.hold = FALSE] = Checked
<1> DEFINE n == [Idle EXCEPT !.checking = FALSE, !.hold = FALSE]
           m == [Idle EXCEPT !.checking = TRUE, !.hold = FALSE]
           c == Checked
<1>1. TurnIsRecord(Idle) /\ Idle.checking = FALSE /\ Idle.hold = FALSE
  BY IdleShape DEF Idle
<1> HIDE DEF Idle
<1>2. /\ TurnIsRecord(c) /\ c.at = Idle.at /\ c.kind = Idle.kind /\ c.gen = Idle.gen /\ c.ids = Idle.ids
      /\ c.aborted = Idle.aborted /\ c.dropped = Idle.dropped /\ c.forceStopped = Idle.forceStopped
      /\ c.retry = Idle.retry /\ c.late = Idle.late /\ c.hold = Idle.hold /\ c.checking = TRUE
  BY <1>1 DEF TurnIsRecord, Checked
<1>3. n = Idle
  <2>1. /\ TurnIsRecord(n) /\ n.at = Idle.at /\ n.kind = Idle.kind /\ n.gen = Idle.gen /\ n.ids = Idle.ids
        /\ n.aborted = Idle.aborted /\ n.dropped = Idle.dropped /\ n.forceStopped = Idle.forceStopped
        /\ n.retry = Idle.retry /\ n.late = Idle.late /\ n.hold = FALSE /\ n.checking = FALSE
    BY <1>1 DEF TurnIsRecord
  <2> HIDE DEF n
  <2> QED
    BY <1>1, <2>1, SameRecord
<1>4. m = c
  <2>1. /\ TurnIsRecord(m) /\ m.at = Idle.at /\ m.kind = Idle.kind /\ m.gen = Idle.gen /\ m.ids = Idle.ids
        /\ m.aborted = Idle.aborted /\ m.dropped = Idle.dropped /\ m.forceStopped = Idle.forceStopped
        /\ m.retry = Idle.retry /\ m.late = Idle.late /\ m.hold = FALSE /\ m.checking = TRUE
    BY <1>1 DEF TurnIsRecord
  <2> HIDE DEF m, c
  <2> QED
    BY <1>1, <1>2, <2>1, SameRecord
<1> QED
  BY <1>3, <1>4

LEMMA CountedSays ==
  ASSUME NEW s, Shaped(s), NEW r, NEW how
  PROVE  LET c == Counted(s, r, how)
         IN  /\ Frame(s, c) /\ c.talk = s.talk /\ c.lane.caller = s.lane.caller
             /\ c.plan.pending = s.plan.pending /\ c.plan.limit = s.plan.limit /\ c.plan.paused = s.plan.paused
<1> DEFINE q == [s EXCEPT !.lane.asked = @ \/ (how = "failed" /\ r.late)]
           f == CASE how = "answered" -> 0
                  [] how = "failed" -> IF q.plan.failures = 0 THEN 1 ELSE 2
                  [] how = "limited" /\ s.plan.limit = "held" -> 2
                  [] OTHER -> q.plan.failures
           c == [q EXCEPT !.plan.failures = f]
<1>1. Frame(s, q) /\ q.plan = s.plan /\ q.talk = s.talk /\ q.lane.caller = s.lane.caller
  BY DEF Shaped, LaneShaped, Frame
<1>2. Counted(s, r, how) = IF ~IsWakeUp(r) THEN s ELSE c
  BY DEF Counted
<1> HIDE DEF q, f
<1>3. /\ Shaped(c) /\ c.talk = q.talk /\ c.lane = q.lane
      /\ c.plan.pending = q.plan.pending /\ c.plan.limit = q.plan.limit /\ c.plan.paused = q.plan.paused
  BY <1>1 DEF Frame, Shaped, PlanShaped
<1> HIDE DEF c
<1>4. Frame(s, c)
  BY <1>1, <1>3 DEF Frame
<1>5. Frame(s, s)
  BY DEF Frame
<1> QED
  BY <1>1, <1>2, <1>3, <1>4, <1>5

LEMMA EndsFrame ==
  ASSUME NEW s, NEW q, NEW r, NEW t, NEW X, NEW Y, Ends(s, q, t, X), Frame(q, r), r.lane.caller = q.lane.caller,
         Elems(r.plan.pending) = Elems(q.plan.pending) \ Y, X \subseteq Y
  PROVE  Ends(s, r, t, Y)
BY DEF Ends, Frame

LEMMA OverEnds ==
  ASSUME NEW s, NEW D, Fits(s, D), NEW t \in Turn, NEW how, NEW wait
  PROVE  LET x == s.talk.turn[t]
             r == Over(s, t, how, wait)
         IN  /\ Ends(s, r, t, IF how = "answered" /\ x.kind # "compaction" THEN x.ids ELSE {})
             /\ how = "discarded" => /\ r.plan.limit = s.plan.limit /\ r.plan.paused = s.plan.paused
                                     /\ r.talk.room = s.talk.room
<1> DEFINE x == s.talk.turn[t]
           n == [Idle EXCEPT !.checking = x.checking, !.hold = x.hold]
           q0 == [s EXCEPT !.talk.turn[t] = n]
           v == IF q0.talk.live = t THEN None ELSE q0.talk.live
           q == [q0 EXCEPT !.talk.live = v]
           X == IF how = "answered" /\ x.kind # "compaction" THEN x.ids ELSE {}
           unread == ~(x.ids \subseteq s.plan.heard)
           a1 == [q EXCEPT !.plan.limit = wait]
           a2 == [a1 EXCEPT !.talk.moved = FALSE]
           b1 == [q EXCEPT !.plan.paused = TRUE]
           b2 == [b1 EXCEPT !.plan.kept = x.ids]
           p == CASE how = "answered" /\ x.kind # "compaction" -> Landed(q, x)
                  [] how = "limited" /\ unread -> a2
                  [] how = "paused" -> b2
                  [] OTHER -> q
           c == Counted(p, x, how)
<1>0. Over(s, t, how, wait) = c
  BY DEF Over
<1>1. Shaped(s) /\ TurnIsRecord(x) /\ TurnFits(x, s.plan, s.lane.caller, D)
  BY DEF Fits, Shaped, TalkShaped
<1>2. TurnIsRecord(n) /\ n.at = "free" /\ n.ids = {} /\ n.checking = x.checking
  BY <1>1 DEF TurnIsRecord, Idle
<1>20. n = [Idle EXCEPT !.checking = s.talk.turn[t].checking, !.hold = s.talk.turn[t].hold]
  OBVIOUS
<1> HIDE DEF n
<1>3. ButTurn(s, q0, t) /\ q0.talk.turn[t] = n
  BY <1>1, <1>2, PutTurn
<1>21. q0.talk.known = s.talk.known /\ q0.talk.room = s.talk.room /\ q0.talk.live = s.talk.live
  BY <1>1 DEF Shaped, TalkShaped
<1>4. Fits(q0, D)
  <2>1. n.at # "talking" /\ n.ids \subseteq s.talk.turn[t].ids
    BY <1>2
  <2> QED
    BY <1>2, <2>1, PutFits
<1> HIDE DEF q0
<1>5. v \in Turn \union {None} /\ v = IF s.talk.live = t THEN None ELSE s.talk.live
  BY <1>4, <1>21 DEF Fits, Shaped, TalkShaped
<1> HIDE DEF v
<1>6. Fits(q, D) /\ Shaped(q)
  <2>1. Fits(q, D)
    BY <1>4, <1>5, SetRestFits
  <2> QED
    BY <2>1 DEF Fits
<1>7. /\ q.plan = s.plan /\ q.lane = s.lane /\ q.talk.turn = q0.talk.turn /\ q.talk.live = v
      /\ q.talk.opening = s.talk.opening /\ q.talk.known = s.talk.known /\ q.talk.room = s.talk.room
  BY <1>3, <1>21 DEF ButTurn, Shaped, TalkShaped
<1> HIDE DEF q
<1>8. Ends(s, q, t, {})
  BY <1>3, <1>5, <1>6, <1>7, <1>20 DEF Ends, ButTurn
<1>9. /\ Frame(q, Landed(q, x)) /\ Landed(q, x).lane = q.lane
      /\ Elems(Landed(q, x).plan.pending) = Elems(q.plan.pending) \ x.ids
  BY <1>6, LandedSays
<1>10. Frame(q, a1) /\ a1.lane = q.lane /\ a1.plan.pending = q.plan.pending
  BY <1>6 DEF Shaped, PlanShaped, Frame
<1>11. Frame(q, b1) /\ b1.lane = q.lane /\ b1.plan.pending = q.plan.pending
  BY <1>6 DEF Shaped, PlanShaped, Frame
<1> HIDE DEF a1, b1
<1>12. Frame(a1, a2) /\ a2.lane = a1.lane /\ a2.plan = a1.plan
  BY <1>10 DEF Shaped, TalkShaped, Frame
<1>13. Frame(b1, b2) /\ b2.lane = b1.lane /\ b2.plan.pending = b1.plan.pending
  BY <1>11 DEF Shaped, PlanShaped, Frame
<1> HIDE DEF a2, b2
<1>14. Frame(q, a2) /\ Frame(q, b2) /\ Frame(q, q)
  BY <1>6, <1>10, <1>11, <1>12, <1>13, FrameTrans DEF Frame
<1>15. Ends(s, p, t, X)
  <2>1. CASE how = "answered" /\ x.kind # "compaction"
    <3>1. p = Landed(q, x) /\ X = x.ids
      BY <2>1
    <3> HIDE DEF p, X, x
    <3> QED
      BY <1>8, <1>9, <3>1, EndsFrame
  <2>2. CASE ~(how = "answered" /\ x.kind # "compaction")
    <3>1. p \in {a2, b2, q} /\ X = {}
      BY <2>2
    <3> HIDE DEF p, X
    <3>2. /\ Frame(q, p) /\ p.lane.caller = q.lane.caller /\ Elems(p.plan.pending) = Elems(q.plan.pending) \ {}
      BY <1>10, <1>11, <1>12, <1>13, <1>14, <3>1
    <3> QED
      BY <1>8, <3>1, <3>2, EndsFrame
  <2> QED
    BY <2>1, <2>2
<1>16. how = "discarded" => p = q
  OBVIOUS
<1> HIDE DEF p, X, x
<1>17. /\ Frame(p, c) /\ c.talk = p.talk /\ c.lane.caller = p.lane.caller
       /\ c.plan.pending = p.plan.pending /\ c.plan.limit = p.plan.limit /\ c.plan.paused = p.plan.paused
  <2>1. Shaped(p)
    BY <1>15 DEF Ends
  <2> QED
    BY <2>1, CountedSays
<1> HIDE DEF c
<1>18. Ends(s, c, t, X)
  <2>1. Elems(p.plan.pending) = Elems(s.plan.pending) \ X
    BY <1>15 DEF Ends
  <2>2. Elems(c.plan.pending) = Elems(p.plan.pending) \ X
    BY <1>17, <2>1
  <2>3. X \subseteq X
    OBVIOUS
  <2> QED
    BY <1>15, <1>17, <2>2, <2>3, EndsFrame
<1>19. how = "discarded" => /\ c.plan.limit = s.plan.limit /\ c.plan.paused = s.plan.paused
                            /\ c.talk.room = s.talk.room
  BY <1>7, <1>16, <1>17
<1> QED
  BY <1>0, <1>18, <1>19, SMTT(40) DEF X, x

\* Whoever is nowhere once it is over was of that turn.
LEMMA EndsLoses ==
  ASSUME NEW s, NEW r, NEW t, NEW X, Ends(s, r, t, X), Lost(s) = {}, InputAssumption
  PROVE  /\ Owing(r) = Owing(s) /\ Calls(r) \subseteq Calls(s)
         /\ \A j \in Lost(r) : j \in X \/ TakenBy(s, t, j)
<1>1. Owing(r) = Owing(s) /\ Calls(r) \subseteq Calls(s)
  BY DEF Ends, Owing, Calls
<1>2. ASSUME NEW j \in Lost(r), j \notin X, ~TakenBy(s, t, j) PROVE FALSE
  <2>1. j \in Input /\ j \in Owing(s) /\ ~Somewhere(r, j)
    BY <1>1, <1>2 DEF Lost, Owing
  <2>2. Somewhere(s, j)
    BY <2>1 DEF Lost
  <2>3. \A u \in Turn : TakenBy(s, u, j) => u # t /\ TakenBy(r, u, j)
    BY <1>2 DEF Ends, TakenBy
  <2> QED
    BY <1>2, <2>1, <2>2, <2>3 DEF Somewhere, Ends
<1> QED
  BY <1>1, <1>2

\* The places that are left: one for the next turn, whenever none is live.
LEMMA EndsTurning ==
  ASSUME NEW s, NEW D, Fits(s, D), Turning(s, D), LiveOwn(s), TwoTurns, NEW t \in Turn,
         s.talk.turn[t].at = "talking", NEW r,
         r.talk.live = (IF s.talk.live = t THEN None ELSE s.talk.live),
         r.talk.turn[t] = [Idle EXCEPT !.checking = s.talk.turn[t].checking, !.hold = FALSE],
         \A u \in Turn \ {t} : r.talk.turn[u] = s.talk.turn[u], InputAssumption
  PROVE  Turning(r, D)
<1>1. TurnFits(s.talk.turn[t], s.plan, s.lane.caller, D) /\ s.talk.turn[t].checking \in BOOLEAN
  BY DEF Fits, Turning
<1>2. r.talk.turn[t] = IF s.talk.turn[t].checking THEN Checked ELSE Idle
  BY <1>1, PlaceFreed
<1>3. /\ Idle.at = "free" /\ Idle.checking = FALSE /\ Idle.dropped = FALSE /\ Idle.kind # "hung"
      /\ Checked.at = "free" /\ Checked.checking = TRUE /\ Checked.dropped = FALSE /\ Checked.kind # "hung"
  BY DEF Checked, Idle
<1>4. r.talk.turn[t].checking = s.talk.turn[t].checking
  BY <1>1, <1>2, <1>3
<1> DEFINE Good(n) == /\ n.at = "free" => n \in {Idle, Checked}
                      /\ n.checking \in BOOLEAN
                      /\ "check" \in D => ~n.dropped
                      /\ n.at = "talking" /\ n.kind = "compaction" => "compact" \in D /\ n.ids = {}
                      /\ n.kind = "hung" => n.dropped
<1>5. Good(r.talk.turn[t])
  <2>1. Good(Idle) /\ Good(Checked)
    BY <1>3
  <2> HIDE DEF Good
  <2> QED
    BY <1>2, <2>1
<1>6. \A u \in Turn : Good(r.talk.turn[u])
  <2>1. \A u \in Turn : Good(s.talk.turn[u])
    BY DEF Turning
  <2> HIDE DEF Good
  <2> QED
    BY <1>5, <2>1
<1>7. \A u, v \in Turn : r.talk.turn[u].checking /\ r.talk.turn[v].checking => u = v
  BY <1>4, ZenonT(60) DEF Turning
<1>8. ASSUME r.talk.live = None PROVE \E u \in Turn : r.talk.turn[u] = Idle
  <2>1. CASE ~s.talk.turn[t].checking
    BY <1>2, <2>1
  <2>2. CASE s.talk.turn[t].checking /\ s.talk.live = t
    <3>1. PICK u \in Turn : u # t
      BY DEF TwoTurns
    <3>2. ~s.talk.turn[u].dropped
      BY <1>1, <2>2 DEF Turning, TurnFits
    <3>3. s.talk.turn[u].at # "talking"
      BY <2>2, <3>1, <3>2 DEF LiveOwn
    <3>4. s.talk.turn[u].at = "free"
      BY <3>3 DEF Fits, Shaped, TalkShaped, TurnIsRecord
    <3>5. s.talk.turn[u] \in {Idle, Checked} /\ ~s.talk.turn[u].checking
      BY <2>2, <3>1, <3>4 DEF Turning
    <3>6. s.talk.turn[u] = Idle
      BY <1>3, <3>5
    <3> QED
      BY <3>1, <3>6
  <2>3. CASE s.talk.live # t
    <3>1. s.talk.live = None
      BY <1>8, <2>3
    <3>2. PICK u \in Turn : s.talk.turn[u] = Idle
      BY <3>1 DEF Turning
    <3>3. u # t
      BY <1>3, <3>2
    <3> QED
      BY <3>2, <3>3
  <2> QED
    BY <2>1, <2>2, <2>3
<1> QED
  BY <1>6, <1>7, <1>8 DEF Turning

\* What follows the end of a turn in flight: what is dropped of it is owed by its end.
LEMMA LetGoOwed ==
  ASSUME NEW s, NEW D, Fits(s, D), NEW t \in Turn, s.lane.running = t, s.talk.turn[t].at = "free" \/ s.talk.turn[t].kind # "reply",
         NEW e, e.how \in Hows, Calling(s, D), Lost(s) \subseteq e.ids,
         Turning([s EXCEPT !.talk.turn[t].hold = FALSE], D), InputAssumption
  PROVE  LET g == LetGo(s, t, e)
         IN  /\ Owed(g, D) /\ g.lane.running = t
             /\ g.talk.turn[t].at = "free" \/ g.talk.turn[t].kind # "reply"
<1> DEFINE q == Take(s, Dropped(e))
           unpaused == e.retry /\ (Interrupted(e) \/ ForceStopped(e))
           ahead == Those(q.plan.pending, q.plan.forced)
           y == IF ForceStopped(e) THEN ahead \o Without(q.plan.pending, Elems(ahead)) ELSE q.plan.pending
           v == q.plan.paused /\ ~unpaused
           z == IF unpaused THEN {} ELSE q.plan.kept
           T == q.lane.tails \union {e}
           h == [s EXCEPT !.talk.turn[t].hold = FALSE]
           g == LetGo(s, t, e)
<1>1. /\ Fits(q, D) /\ Frame(s, q) /\ q.lane = s.lane /\ q.talk = s.talk
      /\ Elems(q.plan.pending) = Elems(s.plan.pending) \ Dropped(e)
  BY TakeSays
<1>2. Shaped(q) /\ Listed(q.plan, q.lane.caller) /\ Shaped(s)
  BY <1>1 DEF Fits
<1>3. Fits(g, D)
  BY LetGoFits
<1>0. g = [q EXCEPT !.plan.pending = y, !.plan.paused = v, !.plan.kept = z, !.talk.turn[t].hold = FALSE, !.lane.tails = T]
  <2>1. g = [q EXCEPT !.plan.pending = IF ForceStopped(e) THEN ahead \o Without(@, Elems(ahead)) ELSE @,
                    !.plan.paused = @ /\ ~unpaused, !.plan.kept = IF unpaused THEN {} ELSE @,
                    !.talk.turn[t].hold = FALSE, !.lane.tails = @ \union {e}]
    BY DEF LetGo
  <2> HIDE DEF q, ahead, unpaused, g
  <2> QED
    BY <1>2, <2>1 DEF Shaped, PlanShaped, LaneShaped
<1>4. Dropped(e) \subseteq e.ids
  BY DEF Dropped
<1> HIDE DEF g, q, unpaused
<1>5. Elems(y) = Elems(q.plan.pending)
  <2> DEFINE P == q.plan.pending
             u == Without(P, Elems(ahead))
  <2>1. P \in Seq(Input) /\ OneEach(P)
    BY <1>2 DEF Listed
  <2>2. ahead \in Seq(Input) /\ Elems(ahead) \subseteq Elems(P) /\ OneEach(ahead)
    BY <2>1, ThoseOf
  <2>3. u \in Seq(Input) /\ Elems(u) = Elems(P) \ Elems(ahead) /\ OneEach(u)
    BY <2>1, WithoutOf
  <2>4. y \in {ahead \o u, P}
    OBVIOUS
  <2> HIDE DEF u, ahead, y, P
  <2>5. Elems(ahead) \intersect Elems(u) = {}
    BY <2>3
  <2>6. Elems(ahead \o u) = Elems(ahead) \union Elems(u)
    BY <2>2, <2>3, <2>5, JoinOf
  <2>7. Elems(ahead \o u) = Elems(P)
    BY <2>2, <2>3, <2>6
  <2> QED
    BY <2>1, <2>4, <2>6, <2>7 DEF P
<1> HIDE DEF y, v, z, ahead
<1>6. /\ g.plan = [q.plan EXCEPT !.pending = y, !.paused = v, !.kept = z] /\ g.lane = [q.lane EXCEPT !.tails = T]
      /\ g.talk = [q.talk EXCEPT !.turn[t].hold = FALSE] /\ h.talk = [s.talk EXCEPT !.turn[t].hold = FALSE]
  <2> HIDE DEF T
  <2> QED
    BY <1>0, <1>2 DEF Shaped
<1>7. g.plan.pending = y
  BY <1>2, <1>6 DEF Shaped, PlanShaped
<1>8. /\ g.lane.running = s.lane.running /\ g.lane.tails = s.lane.tails \union {e} /\ g.lane.withdrawn = s.lane.withdrawn
      /\ g.lane.restored = s.lane.restored /\ g.lane.detecting = s.lane.detecting /\ g.lane.caller = s.lane.caller
  BY <1>1, <1>2, <1>6 DEF Shaped, LaneShaped
<1>9. Marked(s, h, t)
  <2>1. TRUE \in BOOLEAN
    OBVIOUS
  <2> QED
    BY <1>2, <2>1, SetMark
<1>10. g.talk = h.talk
  BY <1>1, <1>6
<1> HIDE DEF h, T
<1>11. /\ g.talk.opening = s.talk.opening /\ g.talk.known = s.talk.known
       /\ \A u \in Turn : /\ g.talk.turn[u].at = s.talk.turn[u].at /\ g.talk.turn[u].kind = s.talk.turn[u].kind
                          /\ g.talk.turn[u].ids = s.talk.turn[u].ids
  BY <1>9, <1>10, SMTT(40) DEF Marked
<1>12. Turning(g, D)
  BY <1>10 DEF Turning, h
<1>13. Owing(g) = Owing(s) /\ Calls(g) \subseteq Calls(s)
  BY <1>1, <1>5, <1>7, <1>8 DEF Owing, Calls
<1>14. ASSUME NEW j \in Owing(g) PROVE Somewhere(g, j)
  <2>1. j \in Input /\ j \in Owing(s)
    BY <1>13, <1>14 DEF Owing
  <2>2. CASE j \in e.ids
    BY <1>8, <2>2 DEF Somewhere
  <2>3. CASE j \notin e.ids
    <3>1. Somewhere(s, j)
      BY <2>1, <2>3 DEF Lost
    <3>2. \A u \in Turn : TakenBy(s, u, j) => TakenBy(g, u, j)
      BY <1>8, <1>11 DEF TakenBy
    <3> QED
      BY <1>1, <1>4, <1>5, <1>7, <1>8, <1>11, <2>3, <3>1, <3>2 DEF Somewhere
  <2> QED
    BY <2>2, <2>3
<1>15. Lost(g) = {}
  BY <1>14 DEF Lost
<1>16. Calling(g, D)
  BY <1>8, <1>11, <1>13 DEF Calling
<1>17. g.lane.running = t /\ t # None
  BY <1>8 DEF InputAssumption
<1>18. Owed(g, D)
  BY <1>3, <1>12, <1>15, <1>16, <1>17 DEF Owed, Ready, Served
<1> QED
  BY <1>11, <1>17, <1>18 DEF g

\* And once that is over each of its callers has heard, or waits in the list.
LEMMA SettledOwed ==
  ASSUME NEW s, NEW D, Owed(s, D), NEW e, e.how \in Hows, NEW free, InputAssumption,
         \A u \in Turn : s.lane.running = u => s.talk.turn[u].at = "free" \/ s.talk.turn[u].kind # "reply"
  PROVE  Owed(Settled(s, e, free), D)
<1> DEFINE q1 == [s EXCEPT !.lane.running = None]
           T == s.lane.tails \ {e}
           q2 == [q1 EXCEPT !.lane.tails = T]
           q == EndTurnLease(q2, free)
           early == IF e.how \in {"limited", "paused"} THEN e.ids \intersect User ELSE {}
           stays == IF ForceStopped(e) \/ Kept(e) THEN e.ids \intersect Elems(q.plan.pending) ELSE {}
           heard == Waiting(q, e.ids \ (early \union stays))
           noticed == IF e.how = "failed" /\ ~e.retry THEN (e.ids \intersect User) \ stays ELSE {}
           told == Waiting(q, early)
           p1 == Tell(q, noticed, "failed")
           p2 == Tell(p1, heard, e.how)
           p3 == Tell(p2, told, "kept")
<1>0. Settled(s, e, free) = Pump(p3)
  BY DEF Settled
<1>1. Fits(s, D) /\ Shaped(s) /\ Turning(s, D) /\ Calling(s, D) /\ Lost(s) = {}
  BY DEF Owed, Ready, Fits
<1>2. Fits(q1, D)
  <2>1. None \in Turn \union {None}
    OBVIOUS
  <2> QED
    BY <1>1, <2>1, SetRestFits
<1>3. /\ q1.plan = s.plan /\ q1.talk = s.talk /\ q1.lane.running = None /\ q1.lane.tails = s.lane.tails
      /\ q1.lane.withdrawn = s.lane.withdrawn /\ q1.lane.caller = s.lane.caller
      /\ q1.lane.restored = s.lane.restored /\ q1.lane.detecting = s.lane.detecting
  BY <1>1 DEF Shaped, LaneShaped
<1> HIDE DEF q1
<1>4. Still(q1, q2)
  BY <1>2, <1>3 DEF Still, Fits, Shaped, LaneShaped
<1>5. Fits(q2, D)
  BY <1>2, <1>4, StillFits
<1>6. /\ q2.plan = s.plan /\ q2.talk = s.talk /\ q2.lane.running = None /\ q2.lane.tails = T
      /\ q2.lane.withdrawn = s.lane.withdrawn /\ q2.lane.caller = s.lane.caller
      /\ q2.lane.restored = s.lane.restored /\ q2.lane.detecting = s.lane.detecting
  <2> HIDE DEF T
  <2> QED
    BY <1>2, <1>3 DEF Fits, Shaped, LaneShaped
<1> HIDE DEF q2
<1>7. Fits(q, D)
  BY <1>5, EndTurnLeaseFits
<1>8. /\ TurnsStay(q2, q) /\ q.plan = q2.plan /\ q.lane = q2.lane /\ q.talk.live = q2.talk.live
      /\ q.talk.turn = q2.talk.turn
  <2>1. Shaped(q2)
    BY <1>5 DEF Fits
  <2> QED
    BY <2>1, LeaseStays
<1> HIDE DEF q, heard, noticed, told, T
<1>9. "failed" \in Words \ {"waiting"} /\ "kept" \in Words \ {"waiting"} /\ e.how \in Words \ {"waiting"}
  BY DEF Words, Hows
<1>10. /\ Fits(p1, D) /\ Frame(q, p1) /\ p1.plan = q.plan /\ p1.talk = q.talk
       /\ \A i \in Input : p1.lane.caller[i] = IF i \in noticed THEN "failed" ELSE q.lane.caller[i]
  BY <1>7, <1>9, TellSays
<1> HIDE DEF p1
<1>11. /\ Fits(p2, D) /\ Frame(p1, p2) /\ p2.plan = p1.plan /\ p2.talk = p1.talk
       /\ \A i \in Input : p2.lane.caller[i] = IF i \in heard THEN e.how ELSE p1.lane.caller[i]
  BY <1>9, <1>10, TellSays
<1> HIDE DEF p2
<1>12. /\ Fits(p3, D) /\ Frame(p2, p3) /\ p3.plan = p2.plan /\ p3.talk = p2.talk
       /\ \A i \in Input : p3.lane.caller[i] = IF i \in told THEN "kept" ELSE p2.lane.caller[i]
  BY <1>9, <1>11, TellSays
<1> HIDE DEF p3
<1>13. Frame(q, p3)
  BY <1>10, <1>11, <1>12, FrameTrans
<1>14. p3.plan = s.plan /\ p3.talk = q.talk
  BY <1>6, <1>8, <1>10, <1>11, <1>12
<1>15. ASSUME NEW j \in Owing(p3)
       PROVE  /\ j \in Owing(s) /\ j \notin told /\ j \notin heard
              /\ q.lane.caller[j] = "waiting"
  <2>1. j \in Input /\ p3.lane.caller[j] = "waiting"
    BY <1>15 DEF Owing
  <2>2. j \notin told /\ p2.lane.caller[j] = "waiting"
    BY <1>12, <2>1
  <2>3. j \notin heard /\ p1.lane.caller[j] = "waiting"
    BY <1>9, <1>11, <2>1, <2>2
  <2>4. q.lane.caller[j] = "waiting"
    BY <1>10, <2>1, <2>3
  <2> QED
    BY <1>6, <1>8, <2>1, <2>2, <2>3, <2>4 DEF Owing
<1>16. /\ p3.talk.opening = s.talk.opening /\ p3.talk.known = s.talk.known /\ p3.talk.turn = s.talk.turn
       /\ p3.talk.live = s.talk.live
  BY <1>6, <1>8, <1>14 DEF TurnsStay
<1>17. /\ p3.lane.tails = T /\ p3.lane.withdrawn = s.lane.withdrawn
       /\ p3.lane.restored = s.lane.restored /\ p3.lane.detecting = s.lane.detecting
  BY <1>6, <1>8, <1>13 DEF Frame
<1>18. ASSUME NEW j \in Owing(p3) PROVE Somewhere(p3, j)
  <2>1. j \in Input /\ j \in Owing(s) /\ j \notin told /\ j \notin heard /\ q.lane.caller[j] = "waiting"
    BY <1>15 DEF Owing
  <2>2. Somewhere(s, j)
    BY <1>1, <2>1 DEF Lost
  <2>3. CASE j \in e.ids
    <3>1. j \notin early /\ j \notin e.ids \ (early \union stays)
      BY <2>1 DEF told, heard, Waiting
    <3>2. j \in Elems(q.plan.pending)
      BY <2>3, <3>1
    <3> QED
      BY <1>6, <1>8, <1>14, <3>2 DEF Somewhere
  <2>4. CASE j \notin e.ids
    <3>1. \A u \in Turn : TakenBy(s, u, j) => TakenBy(p3, u, j)
      BY <1>16 DEF TakenBy
    <3>2. \A d \in s.lane.tails : j \in d.ids => d \in p3.lane.tails
      BY <1>17, <2>4 DEF T
    <3> QED
      BY <1>14, <1>16, <2>2, <3>1, <3>2 DEF Somewhere
  <2> QED
    BY <2>3, <2>4
<1>19. Lost(p3) = {}
  BY <1>18 DEF Lost
<1>20. Owing(p3) \subseteq Owing(s) /\ Calls(p3) \subseteq Calls(s)
  BY <1>14, <1>15, <1>17 DEF Calls
<1>21. Calling(p3, D)
  BY <1>1, <1>16, <1>17, <1>20 DEF Calling
<1>22. Turning(p3, D)
  BY <1>1, <1>16 DEF Turning
<1>23. Owed(Pump(p3), D)
  BY <1>12, <1>19, <1>21, <1>22, PumpOwed DEF Ready
<1> QED
  BY <1>0, <1>23

LEMMA EndedOwed ==
  ASSUME NEW s, Fits(s, day), NEW t \in Turn, s.lane.running = t,
         s.talk.turn[t].at = "free" \/ s.talk.turn[t].kind # "reply",
         NEW x, NEW how \in Hows, NEW free, Calling(s, day), Lost(s) \subseteq x.ids,
         Turning([s EXCEPT !.talk.turn[t].hold = FALSE], day), InputAssumption
  PROVE  Owed(Ended(s, t, x, how, free), day)
<1> DEFINE e == [how |-> how, ids |-> x.ids, forceStopped |-> x.forceStopped, retry |-> x.retry]
           g == LetGo(s, t, e)
<1>1. e.how \in Hows /\ Lost(s) \subseteq e.ids
  OBVIOUS
<1>2. Ended(s, t, x, how, free) = IF "ticks" \in day THEN g ELSE Settled(g, e, free)
  BY DEF Ended
<1> HIDE DEF e
<1>3. Owed(g, day) /\ g.lane.running = t /\ (g.talk.turn[t].at = "free" \/ g.talk.turn[t].kind # "reply")
  BY <1>1, LetGoOwed
<1> HIDE DEF g
<1>4. Owed(Settled(g, e, free), day)
  BY <1>1, <1>3, SettledOwed
<1> QED
  BY <1>2, <1>3, <1>4

LEMMA TickOwed == ASSUME OwedInv, DaysOwe, NEW e, TickOver(e) PROVE Owed(Now', day')
<1>0. Own(Now, day) /\ Owed(Now, day) /\ Fits(Now, day) /\ InputAssumption
  BY OwedGives
<1>1. day' = day /\ e \in Now.lane.tails
  BY NowFields DEF TickOver
<1>2. PICK free \in BOOLEAN : Becomes(Settled(Now, e, free))
  BY DEF TickOver
<1>3. e.how \in Hows
  BY <1>0, <1>1 DEF Fits
<1>4. \A u \in Turn : Now.lane.running = u => Now.talk.turn[u].at = "free" \/ Now.talk.turn[u].kind # "reply"
  <2>1. \A u \in Turn : Now.talk.turn[u].at \in {"free", "talking"}
    BY <1>0 DEF Fits, Shaped, TalkShaped, TurnIsRecord
  <2> QED
    BY <1>0, <1>1, <2>1 DEF Own, TailOwn, InputAssumption
<1>5. Owed(Settled(Now, e, free), day)
  BY <1>0, <1>3, <1>4, SettledOwed
<1> QED
  BY <1>1, <1>2, <1>5, OwedBecome

\* The end of an opening: whoever waited for it has heard, or its goal is in the list.
LEMMA OpeningOverOwed ==
  ASSUME NEW s, NEW D, Fits(s, D), NEW x, NEW how \in Hows, Lost(s) \subseteq x.ids,
         how \in {"paused", "limited"} =>
             /\ \E g \in Sent(s.lane.caller) : x.ids = {g} /\ g \notin Elems(s.plan.pending) \union s.plan.heard
             /\ \A t \in Turn : s.talk.turn[t].at = "talking" => s.talk.turn[t].dropped
  PROVE  LET r == OpeningOver(s, x, how)
         IN  /\ Fits(r, D) /\ Lost(r) = {} /\ Owing(r) \subseteq Owing(s) /\ Calls(r) \subseteq Calls(s)
             /\ r.lane.running = s.lane.running /\ r.lane.tails = s.lane.tails
             /\ r.lane.restored = s.lane.restored /\ r.lane.detecting = s.lane.detecting
             /\ r.lane.awaitingSlot = s.lane.awaitingSlot
             /\ r.talk.turn = s.talk.turn /\ r.talk.live = s.talk.live /\ r.talk.known = s.talk.known
             /\ r.talk.room = s.talk.room /\ r.plan.limit = s.plan.limit /\ r.plan.paused = s.plan.paused
<1> DEFINE kept == how = "paused" \/ (how = "limited" /\ Holds(s) /\ ~(x.ids \subseteq s.plan.heard))
           g == CHOOSE i \in x.ids : TRUE
           z == <<g>> \o s.plan.pending
           k == [s EXCEPT !.plan.pending = z]
           q == IF kept THEN k ELSE s
           X == Waiting(q, IF kept THEN Elems(q.plan.pending) \intersect User ELSE x.ids)
           w == IF kept THEN "kept" ELSE how
           c == [i \in Input |-> IF i \in X THEN w ELSE q.lane.caller[i]]
           a == [q EXCEPT !.lane.caller = c]
           o == IF a.talk.opening.at = "open" /\ a.talk.opening.input = g THEN NoOpening ELSE a.talk.opening
           r == [a EXCEPT !.talk.opening = o]
<1>1. Shaped(s) /\ Listed(s.plan, s.lane.caller)
  BY DEF Fits
<1>2. Fits(OpeningOver(s, x, how), D)
  BY OpeningOverFits
<1>3. w \in Words \ {"waiting"}
  BY DEF Words, Hows
<1>4. kept => \E f \in Input : x.ids = {f} /\ Elems(z) = {f} \union Elems(s.plan.pending)
  <2> SUFFICES ASSUME kept PROVE \E f \in Input : x.ids = {f} /\ Elems(z) = {f} \union Elems(s.plan.pending)
    OBVIOUS
  <2>1. PICK f \in Sent(s.lane.caller) : x.ids = {f} /\ f \notin Elems(s.plan.pending) \union s.plan.heard
    OBVIOUS
  <2>2. g = f /\ f \in Input
    BY <2>1 DEF Sent
  <2> DEFINE one == <<f>>
  <2>3. one \in Seq(Input) /\ Elems(one) = {f} /\ OneEach(one)
    BY <2>2 DEF Elems, OneEach
  <2>4. z = one \o s.plan.pending
    BY <2>2
  <2> HIDE DEF one, z, g
  <2>5. Elems(z) = {f} \union Elems(s.plan.pending)
    BY <1>1, <2>1, <2>3, <2>4, JoinOf DEF Listed
  <2> QED
    BY <2>1, <2>2, <2>5
<1> HIDE DEF z
<1>5. /\ Shaped(q) /\ q.lane = s.lane /\ q.talk = s.talk /\ q.plan.limit = s.plan.limit /\ q.plan.paused = s.plan.paused
      /\ q.plan.pending = IF kept THEN z ELSE s.plan.pending
  <2>1. /\ Shaped(k) /\ k.lane = s.lane /\ k.talk = s.talk /\ k.plan.limit = s.plan.limit
        /\ k.plan.paused = s.plan.paused /\ k.plan.pending = z
    BY <1>1 DEF Shaped, PlanShaped
  <2> HIDE DEF k, kept
  <2> QED
    BY <1>1, <2>1
<1>6. OpeningOver(s, x, how) = [Tell(q, X, w) EXCEPT !.talk.opening = IF @.at = "open" /\ @.input = g THEN NoOpening ELSE @]
  BY DEF OpeningOver, z
<1> HIDE DEF kept, q, g, w
<1>7. Tell(q, X, w) = a
  BY <1>5 DEF Tell, Shaped, LaneShaped
<1>8. \A i \in Input : c[i] = IF i \in X THEN w ELSE s.lane.caller[i]
  BY <1>5
<1> HIDE DEF X, c
<1>9. /\ Shaped(a) /\ a.plan = q.plan /\ a.talk = q.talk /\ a.lane.caller = c
      /\ a.lane.running = q.lane.running /\ a.lane.tails = q.lane.tails /\ a.lane.withdrawn = q.lane.withdrawn
      /\ a.lane.restored = q.lane.restored /\ a.lane.detecting = q.lane.detecting
      /\ a.lane.awaitingSlot = q.lane.awaitingSlot
  BY <1>5 DEF Shaped, LaneShaped
<1>10. OpeningOver(s, x, how) = r
  <2> HIDE DEF a
  <2> QED
    BY <1>6, <1>7, <1>9 DEF Shaped, TalkShaped
<1> HIDE DEF a
<1>11. o = a.talk.opening \/ (a.talk.opening.at = "open" /\ o = NoOpening)
  OBVIOUS
<1> HIDE DEF o
<1>12. /\ r.plan = a.plan /\ r.lane = a.lane /\ r.talk.turn = a.talk.turn /\ r.talk.live = a.talk.live
       /\ r.talk.known = a.talk.known /\ r.talk.room = a.talk.room /\ r.talk.opening = o
  BY <1>9 DEF Shaped, TalkShaped
<1> HIDE DEF r
<1>13. /\ r.lane.running = s.lane.running /\ r.lane.tails = s.lane.tails /\ r.lane.withdrawn = s.lane.withdrawn
       /\ r.lane.restored = s.lane.restored /\ r.lane.detecting = s.lane.detecting
       /\ r.lane.awaitingSlot = s.lane.awaitingSlot /\ r.lane.caller = c
       /\ r.talk.turn = s.talk.turn /\ r.talk.live = s.talk.live /\ r.talk.known = s.talk.known
       /\ r.talk.room = s.talk.room /\ r.plan.limit = s.plan.limit /\ r.plan.paused = s.plan.paused
       /\ r.plan.pending = IF kept THEN z ELSE s.plan.pending
  BY <1>5, <1>9, <1>12
<1>14. ASSUME NEW j \in Owing(r) PROVE j \in Owing(s) /\ j \notin X
  BY <1>3, <1>8, <1>13, <1>14 DEF Owing
<1>15. \A j \in Input : Somewhere(s, j) => Somewhere(r, j)
  <2>1. Elems(s.plan.pending) \subseteq Elems(r.plan.pending)
    BY <1>4, <1>13
  <2>2. s.talk.opening.at \in {"probe", "slot"} => r.talk.opening = s.talk.opening
    BY <1>5, <1>9, <1>11, <1>12
  <2>3. \A t \in Turn, j \in Input : TakenBy(s, t, j) => TakenBy(r, t, j)
    BY <1>13 DEF TakenBy
  <2> QED
    BY <1>13, <2>1, <2>2, <2>3 DEF Somewhere
<1>16. ASSUME NEW j \in Owing(r) PROVE Somewhere(r, j)
  <2>1. j \in Input /\ j \in Owing(s) /\ j \notin X
    BY <1>14 DEF Owing
  <2>2. CASE j \notin x.ids
    BY <1>15, <2>1, <2>2 DEF Lost
  <2>3. CASE j \in x.ids /\ kept
    BY <1>4, <1>13, <2>3 DEF Somewhere
  <2>4. CASE j \in x.ids /\ ~kept
    BY <1>5, <2>1, <2>4 DEF X, Waiting, Owing
  <2> QED
    BY <2>2, <2>3, <2>4
<1>17. Lost(r) = {}
  BY <1>16 DEF Lost
<1>18. Calls(r) \subseteq Calls(s)
  <2>1. CASE kept
    <3>1. ASSUME NEW j \in Calls(r) PROVE FALSE
      <4>1. j \in Owing(r) /\ j \in Elems(r.plan.pending) /\ j \in User
        BY <3>1 DEF Calls
      <4>2. j \in Owing(s) /\ j \notin X
        BY <1>14, <4>1
      <4>3. j \in Elems(q.plan.pending) \intersect User
        BY <1>5, <1>13, <4>1
      <4> QED
        BY <1>5, <2>1, <4>2, <4>3 DEF X, Waiting, Owing
    <3> QED
      BY <3>1
  <2>2. CASE ~kept
    BY <1>13, <1>14, <2>2 DEF Calls
  <2> QED
    BY <2>1, <2>2
<1>19. Owing(r) \subseteq Owing(s)
  BY <1>14
<1> QED
  BY <1>2, <1>10, <1>13, <1>17, <1>18, <1>19

\* The slot given back, the pump serves whoever waits.
LEMMA LeasePumpOwed ==
  ASSUME NEW s, NEW D, Ready(s, D), Lost(s) = {}, NEW free, InputAssumption
  PROVE  Owed(Pump(s), D) /\ Owed(Pump(EndTurnLease(s, free)), D)
<1> DEFINE e == EndTurnLease(s, free)
<1>1. Fits(s, D) /\ Shaped(s) /\ Calling(s, D)
  BY DEF Ready, Fits
<1>2. /\ TurnsStay(s, e) /\ e.plan = s.plan /\ e.lane = s.lane /\ e.talk.live = s.talk.live
      /\ e.talk.turn = s.talk.turn /\ Fits(e, D)
  BY <1>1, LeaseStays, EndTurnLeaseFits
<1> HIDE DEF e
<1>3. Loose(s, e)
  BY <1>1, <1>2 DEF Loose, TurnsStay, Calling
<1>4. Ready(e, D) /\ Lost(e) = {}
  BY <1>2, <1>3, LooseOwed
<1> QED
  BY <1>4, PumpOwed DEF e

LEMMA EndTurnOwed == ASSUME OwedInv, DaysOwe, NEW t \in Turn, EndTurn(t) PROVE Owed(Now', day')
<1> DEFINE x == talk.turn[t]
<1>1. /\ FitsInv /\ DaysGo /\ Own(Now, day) /\ Owed(Now, day) /\ Ready(Now, day) /\ Fits(Now, day) /\ Shaped(Now)
      /\ InputAssumption /\ day \in Days /\ TwoTurns
  BY OwedGives DEF DaysOwe
<1>2. day' = day /\ x.at = "talking" /\ x = Now.talk.turn[t]
  BY NowFields DEF EndTurn
<1>3. PICK how \in Outcomes(x), free \in BOOLEAN :
        \E wait \in IF how = "limited" THEN {"armed", "held"} ELSE {"none"} :
         LET s == Over(Now, t, how, wait)
             mine == talk.live = t
             lets == IF lane.running = None THEN EndTurnLease(s, free) ELSE s
         IN  Becomes(CASE lane.running = t /\ x.kind = "reply" -> Ended(s, t, x, how, free)
                       [] x.kind = "opening" -> LET q == OpeningOver(s, x, how)
                                                IN  IF mine THEN Pump(EndTurnLease(q, free)) ELSE q
                       [] OTHER -> IF mine THEN Pump(lets) ELSE s)
  BY DEF EndTurn
<1>4. PICK wait \in IF how = "limited" THEN {"armed", "held"} ELSE {"none"} :
         LET s == Over(Now, t, how, wait)
             mine == talk.live = t
             lets == IF lane.running = None THEN EndTurnLease(s, free) ELSE s
         IN  Becomes(CASE lane.running = t /\ x.kind = "reply" -> Ended(s, t, x, how, free)
                       [] x.kind = "opening" -> LET q == OpeningOver(s, x, how)
                                                IN  IF mine THEN Pump(EndTurnLease(q, free)) ELSE q
                       [] OTHER -> IF mine THEN Pump(lets) ELSE s)
  BY <1>3
<1>5. how \in Hows /\ wait \in {"none", "armed", "held"} /\ (x.dropped => how = "discarded")
  <2>1. x.dropped \in BOOLEAN /\ x.aborted \in BOOLEAN
    BY <1>1, <1>2 DEF Shaped, TalkShaped, TurnIsRecord
  <2>2. wait \in {"none", "armed", "held"}
    BY <1>4
  <2>3. how \in Hows /\ (x.dropped => how = "discarded")
    BY <1>3, <2>1 DEF Outcomes, Hows
  <2> QED
    BY <2>2, <2>3
<1> DEFINE s == Over(Now, t, how, wait)
           q == OpeningOver(s, x, how)
           X == IF how = "answered" /\ x.kind # "compaction" THEN x.ids ELSE {}
           flight == lane.running = t /\ x.kind = "reply"
           mine == talk.live = t
<1>6. PICK n : /\ Becomes(n)
               /\ n = CASE flight -> Ended(s, t, x, how, free)
                        [] x.kind = "opening" -> IF mine THEN Pump(EndTurnLease(q, free)) ELSE q
                        [] OTHER -> IF mine THEN Pump(IF lane.running = None THEN EndTurnLease(s, free) ELSE s) ELSE s
  BY <1>4
<1>7. how # "discarded" => \A u \in Turn \ {t} : Now.talk.turn[u].at = "talking" => Now.talk.turn[u].dropped
  BY <1>1, <1>2, <1>5 DEF Own, LiveOwn
<1>8. Fits(s, day) /\ (how # "answered" => s.plan.pending = plan.pending /\ s.plan.heard = plan.heard)
  BY <1>1, <1>2, <1>5, <1>7, OverFits, NowFields
<1>9. /\ Ends(Now, s, t, X)
      /\ how = "discarded" => /\ s.plan.limit = Now.plan.limit /\ s.plan.paused = Now.plan.paused
                              /\ s.talk.room = Now.talk.room
  BY <1>1, <1>2, OverEnds
<1> HIDE DEF s
<1>10. /\ Owing(s) = Owing(Now) /\ Calls(s) \subseteq Calls(Now)
       /\ \A j \in Lost(s) : j \in X \/ TakenBy(Now, t, j)
  BY <1>1, <1>9, EndsLoses DEF Owed
<1>11. Lost(s) \subseteq x.ids
  BY <1>2, <1>10 DEF TakenBy
<1>12. Calling(s, day)
  BY <1>1, <1>9, <1>10 DEF Ready, Calling, Ends
<1>20. /\ Turning(Now, day) /\ LiveOwn(Now) /\ Now.talk.turn[t].at = "talking"
       /\ Fits(Now, day) /\ TwoTurns /\ InputAssumption
  BY <1>1, <1>2 DEF Ready, Own
<1>13. ASSUME flight PROVE Owed(n, day)
  <2> DEFINE h == [s EXCEPT !.talk.turn[t].hold = FALSE]
             a == x.checking
             m == [Idle EXCEPT !.checking = a, !.hold = x.hold]
  <2>1. s.talk.turn[t] = m
    BY <1>2, <1>9 DEF Ends
  <2>2. [m EXCEPT !.hold = FALSE] = [Idle EXCEPT !.checking = a, !.hold = FALSE] /\ m.at = "free"
    BY DEF Idle
  <2> HIDE DEF m
  <2>3. h.talk.live = s.talk.live /\ h.talk.turn[t] = [m EXCEPT !.hold = FALSE]
        /\ \A u \in Turn \ {t} : h.talk.turn[u] = s.talk.turn[u]
    <3>1. Shaped(s)
      BY <1>9, SMTT(40) DEF Ends
    <3> QED
      BY <2>1, <3>1 DEF Shaped, TalkShaped
  <2> HIDE DEF h
  <2>4. Turning(h, day)
    <3>1. /\ h.talk.live = IF Now.talk.live = t THEN None ELSE Now.talk.live
          /\ \A u \in Turn \ {t} : h.talk.turn[u] = Now.talk.turn[u]
          /\ h.talk.turn[t] = [Idle EXCEPT !.checking = Now.talk.turn[t].checking, !.hold = FALSE]
      BY <1>2, <1>9, <2>2, <2>3 DEF Ends
    <3> QED
      BY <1>20, <3>1, EndsTurning, ZenonT(60)
  <2>5. s.lane.running = t /\ s.talk.turn[t].at = "free"
    BY <1>9, <1>13, <2>1, <2>2, NowFields DEF Ends
  <2>6. Owed(Ended(s, t, x, how, free), day)
    BY <1>1, <1>5, <1>8, <1>11, <1>12, <2>4, <2>5, EndedOwed DEF h
  <2> QED
    BY <1>6, <1>13, <2>6
<1>14. ASSUME ~flight PROVE Turning(s, day)
  <2>1. x.hold = FALSE
    <3>1. x.hold \in BOOLEAN
      BY <1>1, <1>2 DEF Shaped, TalkShaped, TurnIsRecord
    <3> QED
      BY <1>1, <1>2, <1>14, <3>1, NowFields DEF Own, HoldsOwn
  <2>2. /\ s.talk.live = IF Now.talk.live = t THEN None ELSE Now.talk.live
        /\ \A u \in Turn \ {t} : s.talk.turn[u] = Now.talk.turn[u]
        /\ s.talk.turn[t] = [Idle EXCEPT !.checking = Now.talk.turn[t].checking, !.hold = FALSE]
    BY <1>2, <1>9, <2>1 DEF Ends
  <2> QED
    BY <1>20, <2>2, EndsTurning, ZenonT(60)
<1>15. ~mine => how = "discarded"
  <2>1. ~mine => Now.talk.turn[t].dropped
    BY <1>1, <1>2, NowFields DEF Own, LiveOwn
  <2> QED
    BY <1>2, <1>5, <2>1
<1>16. ASSUME NEW r, Ready(r, day), Lost(r) = {}, Calls(r) \subseteq Calls(Now), ~mine,
              r.lane.running = Now.lane.running, r.lane.detecting = Now.lane.detecting,
              r.lane.awaitingSlot = Now.lane.awaitingSlot, r.talk.live = s.talk.live,
              r.talk.known = Now.talk.known, r.talk.room = s.talk.room, r.plan.limit = s.plan.limit,
              r.plan.paused = s.plan.paused
       PROVE  Owed(r, day)
  <2>1. r.talk.live = Now.talk.live
    BY <1>9, <1>16, NowFields DEF Ends
  <2>2. r.plan.limit = Now.plan.limit /\ r.plan.paused = Now.plan.paused /\ r.talk.room = Now.talk.room
    BY <1>9, <1>15, <1>16
  <2>3. Served(r)
    BY <1>1, <1>16, <2>1, <2>2 DEF Owed, Served, Waits, Holds
  <2> QED
    BY <1>16, <2>3 DEF Owed
<1>17. ASSUME ~flight, x.kind = "opening" PROVE Owed(n, day)
  <2>1. how \in {"paused", "limited"} =>
             /\ \E g \in Sent(s.lane.caller) : x.ids = {g} /\ g \notin Elems(s.plan.pending) \union s.plan.heard
             /\ \A u \in Turn : s.talk.turn[u].at = "talking" => s.talk.turn[u].dropped
    <3> SUFFICES ASSUME how \in {"paused", "limited"}
                 PROVE  /\ \E g \in Sent(s.lane.caller) : x.ids = {g} /\ g \notin Elems(s.plan.pending) \union s.plan.heard
                        /\ \A u \in Turn : s.talk.turn[u].at = "talking" => s.talk.turn[u].dropped
      OBVIOUS
    <3>1. ~x.dropped
      BY <1>5
    <3>2. TurnFits(x, plan, lane.caller, day)
      BY <1>1, <1>2, NowFields DEF Fits
    <3>3. \E g \in Input : x.ids = {g} /\ g \notin Elems(plan.pending) \union plan.heard
      BY <1>2, <1>17, <3>1, <3>2 DEF TurnFits
    <3>4. x.ids \subseteq Sent(lane.caller)
      BY <3>2 DEF TurnFits
    <3>5. s.lane.caller = lane.caller
      BY <1>9, NowFields DEF Ends
    <3>6. \A u \in Turn : s.talk.turn[u].at = "talking" => s.talk.turn[u].dropped
      <4>1. s.talk.turn[t].at = "free"
        BY <1>9 DEF Ends, Idle
      <4> QED
        BY <1>7, <1>9, <4>1 DEF Ends
    <3> QED
      BY <1>8, <3>3, <3>4, <3>5, <3>6
  <2>2. /\ Fits(q, day) /\ Lost(q) = {} /\ Owing(q) \subseteq Owing(s) /\ Calls(q) \subseteq Calls(s)
        /\ q.lane.running = s.lane.running /\ q.lane.tails = s.lane.tails
        /\ q.lane.restored = s.lane.restored /\ q.lane.detecting = s.lane.detecting
        /\ q.lane.awaitingSlot = s.lane.awaitingSlot
        /\ q.talk.turn = s.talk.turn /\ q.talk.live = s.talk.live /\ q.talk.known = s.talk.known
        /\ q.talk.room = s.talk.room /\ q.plan.limit = s.plan.limit /\ q.plan.paused = s.plan.paused
    BY <1>5, <1>8, <1>11, <2>1, OpeningOverOwed
  <2> HIDE DEF q, x
  <2>3. Ready(q, day)
    BY <1>12, <1>14, <1>17, <2>2 DEF Ready, Turning, Calling
  <2>4. Owed(Pump(EndTurnLease(q, free)), day)
    BY <1>1, <2>2, <2>3, LeasePumpOwed
  <2>5. ~mine => Owed(q, day)
    <3>1. q.lane.running = Now.lane.running /\ q.lane.detecting = Now.lane.detecting
          /\ q.lane.awaitingSlot = Now.lane.awaitingSlot /\ q.talk.known = Now.talk.known
      BY <1>9, <2>2 DEF Ends
    <3>2. Calls(q) \subseteq Calls(Now)
      BY <1>10, <2>2
    <3> QED
      BY <1>16, <2>2, <2>3, <3>1, <3>2
  <2>6. n = IF mine THEN Pump(EndTurnLease(q, free)) ELSE q
    BY <1>6, <1>17
  <2> HIDE DEF mine
  <2> QED
    BY <2>4, <2>5, <2>6
<1>18. ASSUME ~flight, x.kind # "opening" PROVE Owed(n, day)
  <2>1. X = {}
    <3>1. CASE ~mine
      BY <1>15, <3>1
    <3>2. CASE mine
      <4>1. ~x.dropped
        BY <1>1, <1>2, <3>2, NowFields DEF Own, LiveOwn, InputAssumption
      <4>2. x.kind # "hung"
        BY <1>1, <1>2, <4>1 DEF Ready, Turning
      <4>3. x.kind # "reply"
        BY <1>1, <1>2, <1>18, <3>2, NowFields DEF Own, FlightOwn, InputAssumption
      <4>4. x.kind \in {"reply", "opening", "compaction", "hung"}
        BY <1>1, <1>2 DEF Shaped, TalkShaped, TurnIsRecord
      <4> QED
        BY <1>18, <4>2, <4>3, <4>4
    <3> QED
      BY <3>1, <3>2
  <2>2. \A j \in Input : ~TakenBy(Now, t, j)
    BY <1>2, <1>18, NowFields DEF TakenBy
  <2>3. Lost(s) = {}
    BY <1>10, <2>1, <2>2 DEF Lost, Owing
  <2> HIDE DEF x, X
  <2>4. Ready(s, day)
    BY <1>8, <1>12, <1>14, <1>18 DEF Ready
  <2>5. Owed(Pump(s), day) /\ Owed(Pump(EndTurnLease(s, free)), day)
    BY <1>1, <2>3, <2>4, LeasePumpOwed
  <2>6. ~mine => Owed(s, day)
    BY <1>9, <1>10, <1>16, <2>3, <2>4 DEF Ends
  <2>7. n \in {Pump(s), Pump(EndTurnLease(s, free))} \/ (~mine /\ n = s)
    BY <1>6, <1>18
  <2> HIDE DEF mine
  <2> QED
    BY <2>5, <2>6, <2>7
<1> HIDE DEF flight, x
<1>19. Owed(n, day)
  BY <1>13, <1>17, <1>18
<1> QED
  BY <1>2, <1>6, <1>19, OwedBecome

\* A wake-up let go after its grace: its end is the queue's, whatever its call does after.
LEMMA GraceOwed == ASSUME OwedInv, DaysOwe, NEW t \in Turn, GraceEnds(t) PROVE Owed(Now', day')
<1> DEFINE x == talk.turn[t]
           d == Drop(Now)
           o == d.talk.turn[t]
           n == [o EXCEPT !.kind = "hung"]
           h == [d EXCEPT !.talk.turn[t] = n]
           c == Counted(h, x, "failed")
           g == [c EXCEPT !.talk.turn[t].hold = FALSE]
<1>1. /\ Own(Now, day) /\ Owed(Now, day) /\ Ready(Now, day) /\ Fits(Now, day) /\ Shaped(Now)
      /\ InputAssumption /\ day \in Days
  BY OwedGives
<1>2. /\ day' = day /\ "hang" \in day /\ Now.lane.running = t /\ Now.talk.live = t /\ x = Now.talk.turn[t] /\ t # None
      /\ \E u \in Turn : Now.talk.turn[u] = Idle
  BY <1>1, NowFields DEF GraceEnds, Late, Spare, FreeTurns, InputAssumption
<1>3. "check" \notin day
  BY <1>1, <1>2 DEF DaysOwe, ChecksStay
<1>4. PICK free \in BOOLEAN : Becomes(Ended(c, t, x, "failed", free))
  <2>1. h = [d EXCEPT !.talk.turn[t].kind = "hung"]
    OBVIOUS
  <2> QED
    BY <2>1 DEF GraceEnds
<1>5. /\ TurnsStay(Now, d) /\ d.plan = Now.plan /\ d.lane = Now.lane /\ d.talk.live = None /\ d.talk.turn[t].dropped
  BY <1>1, <1>2, DropStays DEF Own
<1>6. Fits(d, day) /\ Shaped(d)
  <2>1. Fits(d, day)
    BY <1>1, DropFits
  <2> QED
    BY <2>1 DEF Fits
<1>7. Turning(d, day)
  BY <1>1, <1>2, <1>3, <1>5, TurningStays DEF Ready
<1>8. Fits(h, day)
  <2>1. FALSE \in BOOLEAN /\ h = [d EXCEPT !.talk.turn[t].kind = "hung"]
    OBVIOUS
  <2> HIDE DEF h, d
  <2> QED
    BY <1>6, <2>1, FlagFits
<1> HIDE DEF d
<1>9. /\ TurnIsRecord(n) /\ n.at = o.at /\ n.kind = "hung" /\ n.ids = o.ids /\ n.checking = o.checking
      /\ n.dropped = o.dropped
  <2>1. TurnIsRecord(o)
    BY <1>6 DEF Shaped, TalkShaped
  <2> HIDE DEF o
  <2> QED
    BY <2>1 DEF TurnIsRecord
<1> HIDE DEF n
<1>10. ButTurn(d, h, t) /\ h.talk.turn[t] = n
  BY <1>6, <1>9, PutTurn
<1>11. h.talk.known = d.talk.known
  BY <1>6 DEF Shaped, TalkShaped
<1> HIDE DEF h
<1>12. /\ Frame(h, c) /\ c.talk = h.talk /\ c.lane.caller = h.lane.caller /\ c.plan.pending = h.plan.pending
       /\ Fits(c, day) /\ Shaped(c)
  <2>1. Shaped(h)
    BY <1>8 DEF Fits
  <2> QED
    BY <1>8, <2>1, CountedSays, CountedFits DEF Frame
<1> HIDE DEF c
<1>13. /\ c.lane.running = t /\ c.lane.tails = Now.lane.tails /\ c.lane.withdrawn = Now.lane.withdrawn
       /\ c.lane.restored = Now.lane.restored /\ c.lane.detecting = Now.lane.detecting
       /\ c.lane.caller = Now.lane.caller /\ c.plan.pending = Now.plan.pending
       /\ c.talk.opening = Now.talk.opening /\ c.talk.known = Now.talk.known /\ c.talk.live = None
  BY <1>2, <1>5, <1>10, <1>11, <1>12 DEF Frame, ButTurn, TurnsStay
<1>14. \A u \in Turn \ {t} : c.talk.turn[u] = d.talk.turn[u]
  BY <1>10, <1>12 DEF ButTurn
<1>15. c.talk.turn[t] = n
  BY <1>10, <1>12
<1>16. Owing(c) = Owing(Now) /\ Calls(c) = Calls(Now)
  BY <1>13 DEF Owing, Calls
<1>17. Lost(c) \subseteq x.ids
  <2>1. ASSUME NEW j \in Owing(c), j \notin x.ids PROVE Somewhere(c, j)
    <3>1. j \in Input /\ Somewhere(Now, j)
      BY <1>1, <1>16, <2>1 DEF Owed, Lost, Owing
    <3>2. \A u \in Turn : TakenBy(Now, u, j) => TakenBy(c, u, j)
      <4>1. ASSUME NEW u \in Turn, TakenBy(Now, u, j) PROVE TakenBy(c, u, j)
        <5>1. u # t
          BY <1>2, <2>1, <4>1 DEF TakenBy
        <5> QED
          BY <1>2, <1>5, <1>13, <1>14, <4>1, <5>1, SMTT(40) DEF TakenBy, TurnsStay
      <4> QED
        BY <4>1
    <3> QED
      BY <1>13, <3>1, <3>2 DEF Somewhere
  <2> QED
    BY <2>1 DEF Lost
<1>18. Calling(c, day)
  BY <1>1, <1>13, <1>16 DEF Ready, Calling
<1>19. Marked(c, g, t)
  <2>1. TRUE \in BOOLEAN
    OBVIOUS
  <2> QED
    BY <1>12, <2>1, SetMark
<1> HIDE DEF g
<1>20. /\ g.talk.turn[t].at = "talking" /\ g.talk.turn[t].kind = "hung" /\ g.talk.turn[t].dropped
       /\ g.talk.turn[t].checking = d.talk.turn[t].checking
       /\ \A u \in Turn \ {t} : g.talk.turn[u] = d.talk.turn[u]
       /\ \A u \in Turn : g.talk.turn[u].checking = d.talk.turn[u].checking
  <2>1. d.talk.turn[t].at = "talking"
    BY <1>1, <1>2, <1>5 DEF Own, LiveOwn, TurnsStay
  <2>2. c.talk.turn[t].at = "talking" /\ c.talk.turn[t].kind = "hung" /\ c.talk.turn[t].dropped
        /\ c.talk.turn[t].checking = d.talk.turn[t].checking
    BY <1>5, <1>9, <1>15, <2>1
  <2> HIDE DEF o
  <2> QED
    BY <1>14, <1>19, <2>2 DEF Marked
<1>21. Turning(g, day)
  <2>1. g.talk.live = None => \E u \in Turn : g.talk.turn[u] = Idle
    <3>1. PICK u \in Turn : d.talk.turn[u] = Idle
      BY <1>2, <1>5, IdleShape DEF TurnsStay
    <3>2. u # t
      BY <1>1, <1>2, <1>5, <3>1, IdleShape DEF Own, LiveOwn, TurnsStay
    <3> QED
      BY <1>20, <3>1, <3>2
  <2>2. ASSUME NEW u \in Turn
        PROVE  /\ g.talk.turn[u].at = "free" => g.talk.turn[u] \in {Idle, Checked}
               /\ g.talk.turn[u].checking \in BOOLEAN
               /\ g.talk.turn[u].at = "talking" /\ g.talk.turn[u].kind = "compaction" =>
                    "compact" \in day /\ g.talk.turn[u].ids = {}
               /\ g.talk.turn[u].kind = "hung" => g.talk.turn[u].dropped
    <3>1. CASE u = t
      BY <1>7, <1>20, <3>1 DEF Turning
    <3>2. CASE u # t
      BY <1>7, <1>20, <3>2 DEF Turning
    <3> QED
      BY <3>1, <3>2
  <2>3. \A u, v \in Turn : g.talk.turn[u].checking /\ g.talk.turn[v].checking => u = v
    BY <1>7, <1>20 DEF Turning
  <2> QED
    BY <1>3, <2>1, <2>2, <2>3 DEF Turning
<1>22. c.talk.turn[t].kind # "reply" /\ "failed" \in Hows
  BY <1>9, <1>15 DEF Hows
<1>23. Owed(Ended(c, t, x, "failed", free), day)
  BY <1>1, <1>12, <1>13, <1>17, <1>18, <1>21, <1>22, EndedOwed DEF g
<1> QED
  BY <1>2, <1>4, <1>23, OwedBecome

-----------------------------------------------------------------------------
LEMMA OwedInit == ASSUME DaysOwe, Init PROVE Owed(Now, day)
<1>1. Fits(Now, day)
  BY FitsInit DEF DaysOwe
<1>2. /\ \A i \in Input : Now.lane.caller[i] = "none"
      /\ \A t \in Turn : Now.talk.turn[t] = Idle
      /\ ~Now.lane.detecting /\ Now.talk.live = None
  BY NowFields DEF Init
<1>3. Owing(Now) = {}
  BY <1>2 DEF Owing
<1>4. Calls(Now) = {} /\ Lost(Now) = {}
  BY <1>3 DEF Calls, Lost
<1>5. Turning(Now, day)
  <2>1. \E t \in Turn : Now.talk.turn[t] = Idle
    BY <1>2 DEF DaysOwe, TwoTurns
  <2>2. /\ Idle.at = "free" /\ Idle.checking = FALSE /\ Idle.dropped = FALSE /\ Idle.kind = "reply"
    BY DEF Idle
  <2> QED
    BY <1>2, <2>1, <2>2 DEF Turning
<1> QED
  BY <1>1, <1>2, <1>3, <1>4, <1>5 DEF Owed, Ready, Calling, Served

LEMMA OwedStep == ASSUME DaysOwe, OwedInv, [Next]_vars PROVE OwedInv'
<1>1. OwnInv'
  BY OwnStep DEF OwedInv, DaysOwe
<1>2. ASSUME UNCHANGED vars PROVE Owed(Now', day')
  <2>1. Now' = Now /\ day' = day
    BY <1>2 DEF vars, Now
  <2> QED
    BY <2>1 DEF OwedInv
<1>3. ASSUME Next PROVE Owed(Now', day')
  <2>1. CASE \E i \in Input : Send(i) \/ Deliver(i) \/ ForceSend(i) \/ Withdraw(i) \/ StartPlanning(i)
    BY <2>1, SendOwed, DeliverOwed, ForceOwed, WithdrawOwed, StartOwed
  <2>2. CASE \E t \in Turn : TurnMoves(t) \/ StartCheck(t) \/ HoldTimesOut(t) \/ TurnTimesOut(t)
    BY <2>2, EndTurnOwed, ChecksOutOwed, GraceOwed, StartCheckOwed, TimesOutOwed DEF TurnMoves
  <2>3. CASE LoadPlan(<<>>) \/ (\E i \in Input : LoadPlan(<<i>>))
    BY <2>3, LoadsOneEach, LoadOwed
  <2>4. CASE AbortPlannerTurn \/ Crash \/ ReportWake \/ \E e \in lane.tails : TickOver(e)
    BY <2>4, AbortOwed, CrashOwed, ReportOwed, TickOwed
  <2>5. CASE ResetComes \/ CancelResend \/ SwitchPlanner \/ RetryCompaction \/ Compact \/ SetAble \/ LeaseLost
             \/ PlannerDetected \/ TurnRoomFreed
    BY <2>5, LimitOwed, RetryOwed, CompactOwed, AbleOwed, LostOwed, DetectedOwed, RoomOwed
  <2> QED
    BY <1>3, <2>1, <2>2, <2>3, <2>4, <2>5 DEF Next
<1>4. OwedInv' <=> Owed(Now', day') /\ OwnInv'
  BY DEF OwedInv
<1> QED
  BY <1>1, <1>2, <1>3, <1>4

LEMMA OwedHolds == ASSUME DaysOwe PROVE Spec => []OwedInv
<1>1. Init => OwedInv
  BY OwnInit, OwedInit DEF OwedInv, DaysOwe
<1>2. OwedInv /\ [Next]_vars => OwedInv'
  BY OwedStep
<1> QED
  BY <1>1, <1>2, PTL DEF Spec

\* Nobody is left waiting for an answer, whatever stops, drops, loses or replaces the
\* turn, the plan or the planner: what a caller waits on is in the list, at the gate, of
\* a turn under way or of an end that has its tick to wait for; and while one waits in
\* the list a turn, a probe, a slot, a limit or a pause is what it waits for.
THEOREM CallersAreOwedHolds == ASSUME DaysOwe PROVE Spec => []CallersAreOwed
<1>1. OwedInv => CallersAreOwed
  <2> SUFFICES ASSUME OwedInv PROVE CallersAreOwed
    OBVIOUS
  <2>1. Lost(Now) = {} /\ Served(Now)
    BY DEF OwedInv, Owed
  <2>2. CallerIsOwed
    <3> SUFFICES ASSUME NEW i \in Input, lane.caller[i] = "waiting"
                 PROVE  \/ i \in Elems(plan.pending) \union Taken(Now) \union Elems(talk.opening.held)
                                  \union {talk.opening.input}
                        \/ \E t \in Turn : talk.turn[t].at = "talking" /\ i \in talk.turn[t].ids
                        \/ \E e \in lane.tails : i \in e.ids
      BY DEF CallerIsOwed
    <3>1. Somewhere(Now, i)
      BY <2>1, NowFields DEF Lost, Owing
    <3> QED
      BY <3>1, NowFields DEF Somewhere, TakenBy
  <2>3. NoCallerStranded
    <3> SUFFICES ASSUME NEW i \in Elems(plan.pending) \intersect User, lane.caller[i] = "waiting",
                        i \notin lane.withdrawn
                 PROVE  \/ lane.running # None \/ talk.live # None
                        \/ (lane.detecting /\ ~talk.known) \/ (lane.awaitingSlot /\ ~talk.room)
                        \/ Holds(Now) \/ plan.paused
      BY DEF NoCallerStranded
    <3>1. i \in Calls(Now)
      BY NowFields DEF Calls, Owing, Input
    <3> QED
      BY <2>1, <3>1, NowFields DEF Served, Waits
  <2> QED
    BY <2>2, <2>3 DEF CallersAreOwed
<1> QED
  BY <1>1, OwedHolds, PTL

-----------------------------------------------------------------------------
(* Fourth part: a wake-up leaves the list with an answer, or because the user  *)
(* stopped it: what each handler takes from the list.                          *)
LEMMA MindsTrans == ASSUME NEW s, NEW r, NEW q, Minds(s, r), Minds(r, q) PROVE Minds(s, q)
BY DEF Minds

LEMMA LightSelf == ASSUME NEW s, Shaped(s) PROVE Light(s, s)
BY DEF Light, Minds

LEMMA LightTrans == ASSUME NEW s, NEW r, NEW q, Light(s, r), Light(r, q) PROVE Light(s, q)
BY DEF Light, Minds

LEMMA SparesTrans ==
  ASSUME NEW s, NEW r, NEW q, Spares(r, q), Spares(s, r) \/ Light(s, r) PROVE Spares(s, q)
BY DEF Spares, Light, Minds

LEMMA LightSpares ==
  ASSUME NEW s, NEW r, NEW q, Spares(s, r), Light(r, q) PROVE Spares(s, q)
BY DEF Spares, Light, Minds

\* What else the plan, the lane and the conversation hold may be set.
LEMMA SetLight ==
  ASSUME NEW s, NEW r, Light(s, r), NEW v
  PROVE  /\ Light(s, [r EXCEPT !.plan.forced = v]) /\ Light(s, [r EXCEPT !.plan.limit = v])
         /\ Light(s, [r EXCEPT !.plan.paused = v]) /\ Light(s, [r EXCEPT !.plan.kept = v])
         /\ Light(s, [r EXCEPT !.plan.failures = v])
         /\ Light(s, [r EXCEPT !.lane.detecting = v]) /\ Light(s, [r EXCEPT !.lane.awaitingSlot = v])
         /\ Light(s, [r EXCEPT !.lane.quiet = v]) /\ Light(s, [r EXCEPT !.lane.restored = v])
         /\ Light(s, [r EXCEPT !.lane.reportWake = v]) /\ Light(s, [r EXCEPT !.lane.caller = v])
         /\ Light(s, [r EXCEPT !.lane.asked = v]) /\ Light(s, [r EXCEPT !.lane.tails = v])
         /\ Light(s, [r EXCEPT !.lane.running = None])
         /\ Light(s, [r EXCEPT !.talk.room = v]) /\ Light(s, [r EXCEPT !.talk.known = v])
         /\ Light(s, [r EXCEPT !.talk.moved = v]) /\ Light(s, [r EXCEPT !.talk.live = None])
         /\ v \in BOOLEAN => Light(s, [r EXCEPT !.talk.lease = v]) /\ Light(s, [r EXCEPT !.talk.able = v])
         /\ Light(s, [r EXCEPT !.talk.opening = NoOpening]) /\ Light(s, [r EXCEPT !.talk.opening.at = v])
         /\ Light(s, [r EXCEPT !.talk.opening.held = v]) /\ Light(s, [r EXCEPT !.talk.opening.forced = v])
<1> DEFINE Same(q) == Shaped(q) /\ q.plan.pending = r.plan.pending /\ q.plan.heard = r.plan.heard
                      /\ q.lane.withdrawn = r.lane.withdrawn /\ q.talk.turn = r.talk.turn
<1>1. Shaped(r)
  BY DEF Light
<1>2. /\ Same([r EXCEPT !.plan.forced = v]) /\ Same([r EXCEPT !.plan.limit = v]) /\ Same([r EXCEPT !.plan.paused = v])
      /\ Same([r EXCEPT !.plan.kept = v]) /\ Same([r EXCEPT !.plan.failures = v])
  BY <1>1 DEF Shaped, PlanShaped
<1>3. /\ Same([r EXCEPT !.lane.detecting = v]) /\ Same([r EXCEPT !.lane.awaitingSlot = v])
      /\ Same([r EXCEPT !.lane.quiet = v]) /\ Same([r EXCEPT !.lane.restored = v])
  BY <1>1 DEF Shaped, LaneShaped
<1>4. /\ Same([r EXCEPT !.lane.reportWake = v]) /\ Same([r EXCEPT !.lane.caller = v])
      /\ Same([r EXCEPT !.lane.asked = v]) /\ Same([r EXCEPT !.lane.tails = v])
      /\ Same([r EXCEPT !.lane.running = None])
  BY <1>1 DEF Shaped, LaneShaped
<1>5. /\ Same([r EXCEPT !.talk.room = v]) /\ Same([r EXCEPT !.talk.known = v])
      /\ Same([r EXCEPT !.talk.moved = v]) /\ Same([r EXCEPT !.talk.live = None])
      /\ v \in BOOLEAN => Same([r EXCEPT !.talk.lease = v]) /\ Same([r EXCEPT !.talk.able = v])
  BY <1>1 DEF Shaped, TalkShaped
<1>6. /\ Same([r EXCEPT !.talk.opening = NoOpening]) /\ Same([r EXCEPT !.talk.opening.at = v])
      /\ Same([r EXCEPT !.talk.opening.held = v]) /\ Same([r EXCEPT !.talk.opening.forced = v])
  BY <1>1 DEF Shaped, TalkShaped, NoOpening
<1>7. ASSUME NEW q, Same(q) PROVE Light(s, q)
  BY <1>7 DEF Light, Minds
<1> HIDE DEF Same
<1> QED
  BY <1>2, <1>3, <1>4, <1>5, <1>6, <1>7

LEMMA TellLight == ASSUME NEW s, NEW r, Light(s, r), NEW X, NEW what PROVE Light(s, Tell(r, X, what))
BY SetLight DEF Tell

LEMMA TakeMinds ==
  ASSUME NEW s, NEW X, Shaped(s), s.plan.pending \in Seq(Input)
  PROVE  LET q == Take(s, X)
         IN  /\ Shaped(q) /\ Minds(s, q) /\ q.plan.heard = s.plan.heard /\ q.plan.pending \in Seq(Input)
             /\ Elems(q.plan.pending) = Elems(s.plan.pending) \ X
             /\ X \subseteq User => Spares(s, q)
<1> DEFINE p == Without(s.plan.pending, X)
           f == s.plan.forced \ X
           q == [s EXCEPT !.plan.pending = p, !.plan.forced = f]
<1>1. Take(s, X) = q
  BY DEF Take, Shaped, PlanShaped
<1>2. p \in Seq(Input) /\ Elems(p) = Elems(s.plan.pending) \ X
  BY WithoutOf
<1> HIDE DEF p, f
<1>3. Shaped(q) /\ q.lane = s.lane /\ q.talk = s.talk /\ q.plan.heard = s.plan.heard /\ q.plan.pending = p
  BY DEF Shaped, PlanShaped
<1> HIDE DEF q
<1> QED
  BY <1>1, <1>2, <1>3 DEF Minds, Spares

LEMMA LeaseLight == ASSUME NEW s, NEW r, Light(s, r), NEW free PROVE Light(s, EndTurnLease(r, free))
BY EndTurnLeaseSays DEF Light, Minds

\* A record of a turn that is put in minds it, if it was stopped when let go.
LEMMA PutLight ==
  ASSUME NEW s, Shaped(s), NEW t \in Turn, NEW n, TurnIsRecord(n),
         n.dropped => n.aborted \/ (s.talk.turn[t].dropped /\ ~s.talk.turn[t].aborted)
  PROVE  Light(s, [s EXCEPT !.talk.turn[t] = n])
<1> DEFINE r == [s EXCEPT !.talk.turn[t] = n]
<1>1. ButTurn(s, r, t) /\ r.talk.turn[t] = n
  BY PutTurn
<1> HIDE DEF r
<1>2. \A u \in Turn : (s.talk.turn[u].dropped => s.talk.turn[u].aborted)
                           => (r.talk.turn[u].dropped => r.talk.turn[u].aborted)
  BY <1>1 DEF ButTurn
<1>3. Light(s, r)
  BY <1>1, <1>2 DEF Light, Minds, ButTurn
<1> QED
  BY <1>3 DEF r

LEMMA FlagLight ==
  ASSUME NEW s, NEW q, Light(q, s), NEW t \in Turn, NEW b \in BOOLEAN
  PROVE  /\ Light(q, [s EXCEPT !.talk.turn[t].aborted = TRUE])
         /\ Light(q, [s EXCEPT !.talk.turn[t].forceStopped = b])
         /\ Light(q, [s EXCEPT !.talk.turn[t].late = b])
         /\ Light(q, [s EXCEPT !.talk.turn[t].checking = b])
         /\ Light(q, [s EXCEPT !.talk.turn[t].hold = FALSE])
         /\ Light(q, [s EXCEPT !.talk.turn[t].kind = "hung"])
<1> DEFINE Put(n) == [s EXCEPT !.talk.turn[t] = n]
           o == s.talk.turn[t]
           n1 == [o EXCEPT !.aborted = TRUE]
           n2 == [o EXCEPT !.forceStopped = b]
           n3 == [o EXCEPT !.late = b]
           n4 == [o EXCEPT !.checking = b]
           n5 == [o EXCEPT !.hold = FALSE]
           n6 == [o EXCEPT !.kind = "hung"]
           Good(n) == TurnIsRecord(n) /\ (n.dropped => n.aborted \/ (o.dropped /\ ~o.aborted))
<1>1. Shaped(s) /\ TurnIsRecord(o)
  BY DEF Light, Shaped, TalkShaped
<1>2. Good(n1) /\ Good(n2) /\ Good(n3)
  BY <1>1 DEF TurnIsRecord
<1>3. Good(n4) /\ Good(n5)
  BY <1>1 DEF TurnIsRecord
<1>4. Good(n6)
  BY <1>1 DEF TurnIsRecord
<1>5. ASSUME NEW n, Good(n) PROVE Light(q, Put(n))
  <2>1. Light(s, Put(n))
    BY <1>1, <1>5, PutLight
  <2> QED
    BY <2>1, LightTrans
<1>6. /\ [s EXCEPT !.talk.turn[t].aborted = TRUE] = Put(n1) /\ [s EXCEPT !.talk.turn[t].forceStopped = b] = Put(n2)
      /\ [s EXCEPT !.talk.turn[t].late = b] = Put(n3) /\ [s EXCEPT !.talk.turn[t].checking = b] = Put(n4)
      /\ [s EXCEPT !.talk.turn[t].hold = FALSE] = Put(n5) /\ [s EXCEPT !.talk.turn[t].kind = "hung"] = Put(n6)
  OBVIOUS
<1> HIDE DEF Put, n1, n2, n3, n4, n5, n6, Good
<1>8. /\ Light(q, Put(n1)) /\ Light(q, Put(n2)) /\ Light(q, Put(n3)) /\ Light(q, Put(n4))
      /\ Light(q, Put(n5)) /\ Light(q, Put(n6))
  BY <1>2, <1>3, <1>4, <1>5
<1> QED
  BY <1>6, <1>8, ZenonT(60)

LEMMA LetLight ==
  ASSUME NEW s, Shaped(s), NEW t \in Turn
  PROVE  Light(s, [s EXCEPT !.talk.turn[t].dropped = TRUE, !.talk.turn[t].aborted = TRUE])
<1> DEFINE p == [s EXCEPT !.talk.turn[t].dropped = TRUE]
           o == p.talk.turn[t]
           n == [o EXCEPT !.aborted = TRUE]
           r == [p EXCEPT !.talk.turn[t] = n]
<1>1. ButTurn(s, p, t)
  BY SetFlag DEF TurnDropped
<1>2. [s EXCEPT !.talk.turn[t].dropped = TRUE, !.talk.turn[t].aborted = TRUE] = [p EXCEPT !.talk.turn[t].aborted = TRUE]
  OBVIOUS
<1> HIDE DEF p
<1>6. [p EXCEPT !.talk.turn[t].aborted = TRUE] = r
  OBVIOUS
<1>7. TurnIsRecord(o)
  BY <1>1 DEF ButTurn, Shaped, TalkShaped
<1> HIDE DEF o
<1>3. TurnIsRecord(n) /\ n.aborted
  BY <1>7 DEF TurnIsRecord
<1> HIDE DEF n
<1>8. Shaped(p)
  BY <1>1 DEF ButTurn
<1>4. ButTurn(p, r, t) /\ r.talk.turn[t] = n
  BY <1>3, <1>8, PutTurn
<1> HIDE DEF r
<1>5. Light(s, r)
  BY <1>1, <1>3, <1>4 DEF Light, Minds, ButTurn
<1> QED
  BY <1>2, <1>5, <1>6

-----------------------------------------------------------------------------
\* A turn is stopped, or let go, or taken: none is left let go and not stopped.
LEMMA StopLiveLight == ASSUME NEW s, NEW r, Light(s, r) PROVE Light(s, StopLive(r))
<1>1. r.talk.live \in Turn \union {None}
  BY DEF Light, Shaped, TalkShaped
<1>2. TRUE \in BOOLEAN
  OBVIOUS
<1> QED
  BY <1>1, <1>2, FlagLight DEF StopLive

LEMMA DropLight == ASSUME NEW s, NEW r, Light(s, r) PROVE Light(s, Drop(r))
<1> DEFINE l == r.talk.live
           p == [r EXCEPT !.talk.live = None]
           k == [p EXCEPT !.talk.turn[l].dropped = TRUE, !.talk.turn[l].aborted = TRUE]
<1>1. l \in Turn \union {None}
  BY DEF Light, Shaped, TalkShaped
<1>2. CASE l = None
  BY <1>2 DEF Drop
<1>3. CASE l # None
  <2>1. Light(s, p) /\ Shaped(p)
    BY SetLight DEF Light
  <2>2. Drop(r) = IF r.lane.running = None THEN EndTurnLease(k, TRUE) ELSE k
    BY <1>3 DEF Drop
  <2> HIDE DEF p, l
  <2>3. Light(p, k)
    BY <1>1, <1>3, <2>1, LetLight
  <2> HIDE DEF k
  <2>4. Light(s, k)
    BY <2>1, <2>3, LightTrans
  <2> QED
    BY <2>2, <2>4, LeaseLight
<1> QED
  BY <1>2, <1>3

LEMMA AbandonLight == ASSUME NEW s, NEW r, Light(s, r) PROVE Light(s, Abandon(r))
<1> DEFINE l == r.lane.running
           k == IF r.lane.running = None THEN r ELSE [r EXCEPT !.talk.turn[l].hold = FALSE]
           e == EndTurnLease(k, TRUE)
           X == Waiting(r, Elems(r.plan.pending) \union Taken(r))
           f == Tell(e, X, "discarded")
           g1 == [f EXCEPT !.lane.running = None]
           g2 == [g1 EXCEPT !.lane.quiet = FALSE]
           g3 == [g2 EXCEPT !.lane.restored = FALSE]
           g4 == [g3 EXCEPT !.lane.reportWake = FALSE]
<1>1. l \in Turn \union {None}
  BY DEF Light, Shaped, LaneShaped
<1>2. Light(s, k)
  <2>1. TRUE \in BOOLEAN
    OBVIOUS
  <2> QED
    BY <1>1, <2>1, FlagLight
<1>0. Abandon(r) = g4
  BY DEF Abandon
<1> HIDE DEF k, l, X
<1>3. Light(s, e)
  BY <1>2, LeaseLight
<1> HIDE DEF e
<1>4. Light(s, f)
  BY <1>3, TellLight
<1> HIDE DEF f
<1>5. Light(s, g1)
  BY <1>4, SetLight
<1> HIDE DEF g1
<1>6. Light(s, g2)
  BY <1>5, SetLight
<1> HIDE DEF g2
<1>7. Light(s, g3)
  BY <1>6, SetLight
<1> HIDE DEF g3
<1>8. Light(s, g4)
  BY <1>7, SetLight
<1> QED
  BY <1>0, <1>8

LEMMA EndWaitingLight == ASSUME NEW s, NEW r, Light(s, r), NEW why PROVE Light(s, EndWaiting(r, why))
<1> DEFINE q == Tell(r, Elems(r.talk.opening.held) \union {r.talk.opening.input}, why)
<1>1. Light(s, q)
  BY TellLight
<1>2. EndWaiting(r, why) = IF r.talk.opening.at \notin {"probe", "slot"} THEN r ELSE [q EXCEPT !.talk.opening = NoOpening]
  BY DEF EndWaiting
<1> HIDE DEF q
<1>3. Light(s, [q EXCEPT !.talk.opening = NoOpening])
  BY <1>1, SetLight
<1> QED
  BY <1>2, <1>3

LEMMA ClaimedMinds ==
  ASSUME NEW s, Shaped(s), NEW k, NEW ids, NEW retry
  PROVE  LET c == Claimed(s, k, ids, retry)
         IN  Minds(s, c) /\ c \in [plan : {s.plan}, lane : {s.lane}, talk : {c.talk}]
<1> DEFINE t == NextTurn(s)
           w == WithSlot(s)
           n == [Idle EXCEPT !.at = "talking", !.kind = k, !.gen = s.plan.gen, !.ids = ids,
                             !.retry = retry, !.hold = k = "reply"]
           c == [w EXCEPT !.talk.live = t, !.talk.turn[t] = n]
<1>1. ~n.dropped
  BY DEF Idle
<1>2. Shaped(w) /\ w.plan = s.plan /\ w.lane = s.lane /\ w.talk.turn = s.talk.turn
  BY WithSlotSays
<1>3. Claimed(s, k, ids, retry) = c
  BY DEF Claimed
<1> HIDE DEF t, n, w
<1>4. c.talk.turn = [w.talk.turn EXCEPT ![t] = n]
  BY <1>2 DEF Shaped, TalkShaped
<1>5. c \in [plan : {w.plan}, lane : {w.lane}, talk : {c.talk}]
  BY <1>2 DEF Shaped
<1> HIDE DEF c
<1>6. \A u \in Turn : c.talk.turn[u] = IF u = t THEN n ELSE s.talk.turn[u]
  BY <1>2, <1>4 DEF Shaped, TalkShaped
<1>7. Minds(s, c)
  BY <1>1, <1>2, <1>5, <1>6 DEF Minds
<1> QED
  BY <1>2, <1>3, <1>5, <1>7

LEMMA RunMinds ==
  ASSUME NEW s, Shaped(s), NEW ids, NEW retry
  PROVE  Minds(s, Run(s, ids, retry)) /\ Run(s, ids, retry).plan = s.plan
<1> DEFINE t == NextTurn(s)
           c == Claimed(s, "reply", ids, retry)
           r == [c EXCEPT !.lane.running = t]
<1>1. Minds(s, c) /\ c \in [plan : {s.plan}, lane : {s.lane}, talk : {c.talk}]
  BY ClaimedMinds
<1>2. Run(s, ids, retry) = r
  BY DEF Run
<1> HIDE DEF t, c
<1>3. r.plan = s.plan /\ r.lane.withdrawn = c.lane.withdrawn /\ r.talk = c.talk
  BY <1>1 DEF Shaped, LaneShaped
<1> QED
  BY <1>1, <1>2, <1>3 DEF Minds

-----------------------------------------------------------------------------
\* The pump takes the user's inputs from the list, and no other.
LEMMA PumpSpares ==
  ASSUME NEW s, Shaped(s), s.plan.pending \in Seq(Input), s.lane.withdrawn \subseteq User
  PROVE  Spares(s, Pump(s))
<1> DEFINE gone == Waiting(s, Elems(s.plan.pending) \intersect s.lane.withdrawn)
           p == Take(s, gone)
           q == DropWithdrawn(s)
           batch == LiveBatch(q)
           waiting == Waiting(q, Elems(q.plan.pending))
           d == [q EXCEPT !.lane.detecting = TRUE]
           a == [q EXCEPT !.lane.awaitingSlot = FALSE]
           w == [q EXCEPT !.lane.awaitingSlot = TRUE]
           n == Run(a, batch, FALSE)
<1>1. gone \subseteq User /\ (waiting \intersect User) \subseteq User
  BY DEF Waiting
<1>2. q = Tell(p, gone, "stopped") /\ Refuse(q) = Tell(Take(q, waiting \intersect User), waiting, "refused")
  BY DEF DropWithdrawn, Refuse
<1>3. Pump(s) \in {s, q, d, Refuse(q), w, n}
  BY DEF Pump
<1> HIDE DEF gone, q, waiting, batch
<1>4. Shaped(p) /\ Spares(s, p)
  BY <1>1, TakeMinds
<1> HIDE DEF p
<1>5. Light(p, q)
  BY <1>2, <1>4, LightSelf, TellLight
<1>6. Spares(s, q) /\ Shaped(q) /\ q.plan.pending \in Seq(Input)
  BY <1>4, <1>5, LightSpares DEF Light, Spares
<1>7. Light(q, q) /\ Light(q, d) /\ Light(q, a) /\ Light(q, w)
  BY <1>6, LightSelf, SetLight
<1> HIDE DEF d, a, w
<1>8. Spares(s, d) /\ Spares(s, a) /\ Spares(s, w) /\ Shaped(a)
  BY <1>6, <1>7, LightSpares DEF Light
<1>9. Spares(s, Refuse(q))
  <2> DEFINE k == Take(q, waiting \intersect User)
  <2>1. Shaped(k) /\ Spares(q, k)
    BY <1>1, <1>6, TakeMinds
  <2> HIDE DEF k
  <2>2. Light(k, Tell(k, waiting, "refused"))
    BY <2>1, LightSelf, TellLight
  <2>3. Spares(s, Tell(k, waiting, "refused"))
    BY <1>6, <2>1, <2>2, SparesTrans, LightSpares
  <2> QED
    BY <1>2, <2>3 DEF k
<1>10. Spares(s, n)
  <2>1. Minds(a, n) /\ n.plan = a.plan
    BY <1>8, RunMinds
  <2> HIDE DEF n
  <2> QED
    BY <1>8, <2>1 DEF Spares, Minds
<1>11. Spares(s, s)
  BY DEF Spares, Minds
<1> HIDE DEF n
<1> QED
  BY <1>3, <1>6, <1>8, <1>9, <1>10, <1>11

LEMMA AdmitSpares ==
  ASSUME NEW s, Shaped(s), s.plan.pending \in Seq(Input), s.lane.withdrawn \subseteq User, NEW i \in Input,
         NEW force \in BOOLEAN
  PROVE  Spares(s, Admit(s, i, force))
<1> DEFINE l == Lifted(s)
           l1 == [l EXCEPT !.lane.restored = FALSE]
           l2 == [l1 EXCEPT !.lane.quiet = FALSE]
           l3 == [l2 EXCEPT !.lane.asked = TRUE]
           B == s.plan.forced \union Taken(s)
           e == Enlisted(l.plan.pending, i, force, B)
           f == IF force THEN l.plan.forced \union {i} ELSE l.plan.forced
           q1 == [l3 EXCEPT !.plan.pending = e]
           q == [q1 EXCEPT !.plan.forced = f]
           r == Tell(q, {i}, IF i \in User /\ (Holds(q) \/ q.plan.paused) THEN "kept" ELSE "waiting")
<1>0. Admit(s, i, force) = Pump(r)
  BY DEF Admit
<1>1. Light(s, l)
  BY LightSelf, SetLight DEF Lifted
<1> HIDE DEF l, B
<1>12. e \in Seq(Input) /\ Elems(e) = Elems(s.plan.pending) \union {i}
  BY <1>1, EnlistedOf DEF Light
<1> HIDE DEF e, f
<1>2. Light(s, l1)
  BY <1>1, SetLight
<1> HIDE DEF l1
<1>3. Light(s, l2)
  BY <1>2, SetLight
<1> HIDE DEF l2
<1>4. Light(s, l3)
  BY <1>3, SetLight
<1> HIDE DEF l3
<1>5. Shaped(l3)
  BY <1>4 DEF Light
<1>6. Shaped(q1) /\ q1.plan.pending = e /\ q1.plan.heard = l3.plan.heard /\ q1.lane = l3.lane /\ q1.talk = l3.talk
  BY <1>5 DEF Shaped, PlanShaped
<1> HIDE DEF q1
<1>7. Spares(s, q1)
  BY <1>4, <1>6, <1>12 DEF Light, Minds, Spares
<1>8. Light(q1, q)
  BY <1>6, LightSelf, SetLight
<1> HIDE DEF q
<1>9. Light(q1, r)
  BY <1>8, TellLight
<1> HIDE DEF r
<1>10. Spares(s, r) /\ Shaped(r)
  BY <1>7, <1>9, LightSpares DEF Light
<1>11. Spares(r, Pump(r))
  BY <1>10, PumpSpares DEF Spares, Minds
<1> QED
  BY <1>0, <1>10, <1>11, SparesTrans

-----------------------------------------------------------------------------
\* A goal let in is of another plan; what else its gate does is not of the list.
LEMMA OpenGoalMinds ==
  ASSUME NEW s, Shaped(s) PROVE Minds(s, OpenGoal(s)) /\ OpenGoal(s).plan.gen # s.plan.gen
<1> DEFINE i == s.talk.opening.input
           held == s.talk.opening.held
           ahead == Those(held, s.talk.opening.forced)
           w == WithSlot(s)
           x == [w EXCEPT !.talk.lease = FALSE]
           a == Abandon(Drop(x))
           p == FreshPlan(s.plan.gen + 1, i, ahead \o Without(held, Elems(ahead)))
           b1 == [a EXCEPT !.plan = p]
           p2 == [b1.plan EXCEPT !.forced = Elems(ahead)]
           b2 == [b1 EXCEPT !.plan = p2]
           b3 == [b2 EXCEPT !.lane.asked = TRUE]
           b4 == [b3 EXCEPT !.talk.lease = TRUE]
           b5 == [b4 EXCEPT !.talk.moved = FALSE]
           b6 == [b5 EXCEPT !.talk.opening = [NoOpening EXCEPT !.at = "open", !.input = i]]
           c == Claimed(b6, "opening", {i}, FALSE)
<1>1. Light(s, w)
  BY WithSlotSays DEF Light, Minds
<1>0. OpenGoal(s) = c
  BY DEF OpenGoal
<1> HIDE DEF w, ahead
<1>2. Light(s, x)
  BY <1>1, SetLight
<1> HIDE DEF x
<1>3. Light(s, a)
  BY <1>2, DropLight, AbandonLight
<1> HIDE DEF a
<1>4. s.plan.gen + 1 \in Nat /\ s.plan.gen + 1 # s.plan.gen
  BY DEF Shaped, PlanShaped
<1>5. PlanShaped(p) /\ p.gen = s.plan.gen + 1
  BY <1>4, FreshPlanShaped
<1> HIDE DEF p
<1>6. Shaped(b1) /\ b1.plan = p /\ Minds(a, b1)
  BY <1>3, <1>5 DEF Light, Shaped, Minds
<1> HIDE DEF b1
<1>7. PlanShaped(p2) /\ p2.gen = s.plan.gen + 1
  BY <1>5, <1>6, ForcedShaped
<1> HIDE DEF p2
<1>8. Shaped(b2) /\ b2.plan = p2 /\ Minds(b1, b2)
  BY <1>6, <1>7 DEF Shaped, Minds
<1> HIDE DEF b2
<1>9. Shaped(b3) /\ b3.plan = p2 /\ Minds(b2, b3)
  BY <1>8 DEF Shaped, LaneShaped, Minds
<1> HIDE DEF b3
<1>10. Shaped(b4) /\ b4.plan = p2 /\ Minds(b3, b4)
  BY <1>9 DEF Shaped, TalkShaped, Minds
<1> HIDE DEF b4
<1>11. Shaped(b5) /\ b5.plan = p2 /\ Minds(b4, b5)
  BY <1>10 DEF Shaped, TalkShaped, Minds
<1> HIDE DEF b5
<1>12. Shaped(b6) /\ b6.plan = p2 /\ Minds(b5, b6)
  BY <1>11 DEF Shaped, TalkShaped, Minds, NoOpening
<1> HIDE DEF b6
<1>13. Minds(b6, c) /\ c.plan = p2
  <2> DEFINE d == Claimed(b6, "opening", {i}, FALSE)
  <2>1. Minds(b6, d) /\ d \in [plan : {b6.plan}, lane : {b6.lane}, talk : {d.talk}]
    BY <1>12, ClaimedMinds
  <2>2. c = d
    OBVIOUS
  <2> HIDE DEF c, d
  <2>3. d.plan = b6.plan
    BY <2>1
  <2> QED
    BY <1>12, <2>1, <2>2, <2>3
<1> HIDE DEF c
<1>14. Minds(s, c)
  BY <1>3, <1>6, <1>8, <1>9, <1>10, <1>11, <1>12, <1>13 DEF Minds, Light
<1> QED
  BY <1>0, <1>4, <1>7, <1>13, <1>14

LEMMA ThroughGateMinds ==
  ASSUME NEW s, Shaped(s)
  PROVE  LET r == ThroughGate(s) IN Minds(s, r) /\ (r.plan.gen # s.plan.gen \/ Light(s, r))
<1>1. Light(s, s) /\ Light(s, EndWaiting(s, "refused")) /\ Light(s, [s EXCEPT !.talk.opening.at = "slot"])
  BY LightSelf, EndWaitingLight, SetLight
<1>2. ThroughGate(s) \in {s, EndWaiting(s, "refused"), OpenGoal(s), [s EXCEPT !.talk.opening.at = "slot"]}
  BY DEF ThroughGate
<1> QED
  BY <1>1, <1>2, OpenGoalMinds DEF Light

LEMMA StopQueuedMinds ==
  ASSUME NEW s, Shaped(s), s.plan.pending \in Seq(Input)
  PROVE  Minds(s, StopQueued(s)) /\ Shaped(StopQueued(s))
<1> DEFINE E == Elems(s.plan.pending)
           rest == E \ Taken(s)
           X == IF s.lane.detecting \/ s.lane.awaitingSlot THEN rest ELSE rest \intersect User
           K(Y) == Tell(Take(s, Y), Y, "stopped")
           a1 == [K(E \intersect User) EXCEPT !.plan.paused = FALSE]
           a2 == [a1 EXCEPT !.plan.kept = {}]
           a3 == [a2 EXCEPT !.lane.asked = FALSE]
           a4 == [a3 EXCEPT !.lane.quiet = a3.lane.quiet \/ E # E \intersect User]
           b1 == [K(X) EXCEPT !.lane.asked = SentAgain(s)]
           b2 == [b1 EXCEPT !.lane.quiet = b1.lane.quiet \/ X # rest]
<1>1. ASSUME NEW Y PROVE Light(Take(s, Y), K(Y)) /\ Minds(s, Take(s, Y))
  BY TakeMinds, LightSelf, TellLight
<1>0. StopQueued(s) \in {s, DropPause(s), [K(X) EXCEPT !.lane.asked = SentAgain(s), !.lane.quiet = @ \/ X # rest]}
      /\ DropPause(s) = [K(E \intersect User) EXCEPT !.plan.paused = FALSE, !.plan.kept = {}, !.lane.asked = FALSE,
                                                    !.lane.quiet = @ \/ E # E \intersect User]
  BY DEF StopQueued, DropPause
<1> DEFINE Q == E \intersect User
           f1 == K(Q)
           f2 == K(X)
<1>2. Light(Take(s, Q), f1) /\ Light(Take(s, X), f2) /\ Minds(s, Take(s, Q)) /\ Minds(s, Take(s, X))
  BY <1>1
<1>3. Shaped(f1) /\ Shaped(f2)
  BY <1>2 DEF Light
<1> HIDE DEF Q, X, K, E, rest, f1, f2
<1>4. /\ a4 = [f1 EXCEPT !.plan.paused = FALSE, !.plan.kept = {}, !.lane.asked = FALSE, !.lane.quiet = @ \/ E # Q]
      /\ b2 = [f2 EXCEPT !.lane.asked = SentAgain(s), !.lane.quiet = @ \/ X # rest]
  BY <1>3 DEF f1, f2, Q, Shaped, LaneShaped
<1>5. Light(Take(s, Q), a1) /\ Light(Take(s, X), b1)
  BY <1>2, SetLight DEF f1, f2, Q
<1> HIDE DEF a1, b1
<1>6. Light(Take(s, Q), a2) /\ Light(Take(s, X), b2)
  BY <1>5, SetLight
<1> HIDE DEF a2, b2
<1>7. Light(Take(s, Q), a3)
  BY <1>6, SetLight
<1> HIDE DEF a3
<1>8. Light(Take(s, Q), a4)
  BY <1>7, SetLight
<1> HIDE DEF a4
<1>9. StopQueued(s) \in {s, a4, b2}
  BY <1>0, <1>4 DEF f1, f2, Q
<1> QED
  BY <1>2, <1>6, <1>8, <1>9, LightSelf, MindsTrans DEF Light

-----------------------------------------------------------------------------
LEMMA LetGoSpends ==
  ASSUME NEW s, Shaped(s), s.plan.pending \in Seq(Input), NEW t \in Turn, NEW e
  PROVE  Shaped(LetGo(s, t, e)) /\ Spends(s, LetGo(s, t, e), Dropped(e))
<1> DEFINE q == Take(s, Dropped(e))
           unpaused == e.retry /\ (Interrupted(e) \/ ForceStopped(e))
           ahead == Those(q.plan.pending, q.plan.forced)
           y == IF ForceStopped(e) THEN ahead \o Without(q.plan.pending, Elems(ahead)) ELSE q.plan.pending
           g1 == [q EXCEPT !.plan.pending = y]
           v == q.plan.paused /\ ~unpaused
           g2 == [g1 EXCEPT !.plan.paused = v]
           z == IF unpaused THEN {} ELSE q.plan.kept
           g3 == [g2 EXCEPT !.plan.kept = z]
           g4 == [g3 EXCEPT !.talk.turn[t].hold = FALSE]
           T == g4.lane.tails \union {e}
           g5 == [g4 EXCEPT !.lane.tails = T]
<1>1. /\ Shaped(q) /\ Minds(s, q) /\ q.plan.heard = s.plan.heard /\ q.plan.pending \in Seq(Input)
      /\ Elems(q.plan.pending) = Elems(s.plan.pending) \ Dropped(e)
  BY TakeMinds
<1>0. LetGo(s, t, e) = g5
  <2>1. LetGo(s, t, e) =
          [q EXCEPT !.plan.pending = IF ForceStopped(e) THEN ahead \o Without(@, Elems(ahead)) ELSE @,
                    !.plan.paused = @ /\ ~unpaused, !.plan.kept = IF unpaused THEN {} ELSE @,
                    !.talk.turn[t].hold = FALSE, !.lane.tails = @ \union {e}]
    BY DEF LetGo
  <2> HIDE DEF q, ahead, unpaused
  <2> QED
    BY <1>1, <2>1 DEF Shaped, PlanShaped, LaneShaped
<1> HIDE DEF q, unpaused
<1>2. y \in Seq(Input) /\ Elems(y) = Elems(q.plan.pending)
  <2> DEFINE P == q.plan.pending
             u == Without(P, Elems(ahead))
  <2>1. ahead \in Seq(Input) /\ Elems(ahead) \subseteq Elems(P) /\ u \in Seq(Input) /\ Elems(u) = Elems(P) \ Elems(ahead)
    BY <1>1, ThoseOf, WithoutOf
  <2>2. y \in {ahead \o u, P}
    OBVIOUS
  <2> HIDE DEF u, ahead, y
  <2>3. ahead \o u \in Seq(Input) /\ Elems(ahead \o u) = Elems(ahead) \union Elems(u)
    BY <2>1, JoinOf
  <2>4. Elems(ahead \o u) = Elems(P)
    BY <2>1, <2>3
  <2> QED
    BY <1>1, <2>2, <2>3, <2>4
<1> HIDE DEF y, v, z
<1>3. Shaped(g1) /\ Minds(q, g1) /\ g1.plan.heard = q.plan.heard /\ g1.plan.pending = y
  BY <1>1 DEF Shaped, PlanShaped, Minds
<1> HIDE DEF g1
<1>4. Light(g1, g2)
  <2>1. v \in BOOLEAN
    BY DEF v
  <2> QED
    BY <1>3, LightSelf, SetLight
<1> HIDE DEF g2
<1>5. Light(g1, g3)
  BY <1>4, SetLight
<1> HIDE DEF g3
<1>6. Light(g1, g4)
  <2>1. TRUE \in BOOLEAN
    OBVIOUS
  <2> QED
    BY <1>5, <2>1, FlagLight
<1> HIDE DEF g4, T
<1>7. Light(g1, g5)
  BY <1>6, SetLight
<1> HIDE DEF g5
<1> QED
  BY <1>0, <1>1, <1>2, <1>3, <1>7 DEF Spends, Light, Minds

LEMMA SettledSpares ==
  ASSUME NEW s, Shaped(s), s.plan.pending \in Seq(Input), s.lane.withdrawn \subseteq User, NEW e, NEW free
  PROVE  Spares(s, Settled(s, e, free))
<1> DEFINE q1 == [s EXCEPT !.lane.running = None]
           T == s.lane.tails \ {e}
           q2 == [q1 EXCEPT !.lane.tails = T]
           q == EndTurnLease(q2, free)
           early == IF e.how \in {"limited", "paused"} THEN e.ids \intersect User ELSE {}
           stays == IF ForceStopped(e) \/ Kept(e) THEN e.ids \intersect Elems(q.plan.pending) ELSE {}
           heard == Waiting(q, e.ids \ (early \union stays))
           noticed == IF e.how = "failed" /\ ~e.retry THEN (e.ids \intersect User) \ stays ELSE {}
           told == Waiting(q, early)
           p1 == Tell(q, noticed, "failed")
           p2 == Tell(p1, heard, e.how)
           p3 == Tell(p2, told, "kept")
<1>0. Settled(s, e, free) = Pump(p3)
  BY DEF Settled
<1>1. Light(s, q1)
  BY LightSelf, SetLight
<1> HIDE DEF q1, T
<1>2. Light(s, q2)
  BY <1>1, SetLight
<1> HIDE DEF q2
<1>3. Light(s, q)
  BY <1>2, LeaseLight
<1> HIDE DEF q, heard, noticed, told
<1>4. Light(s, p1)
  BY <1>3, TellLight
<1> HIDE DEF p1
<1>5. Light(s, p2)
  BY <1>4, TellLight
<1> HIDE DEF p2
<1>6. Light(s, p3)
  BY <1>5, TellLight
<1> HIDE DEF p3
<1>7. Spares(p3, Pump(p3))
  BY <1>6, PumpSpares DEF Light, Minds
<1> QED
  BY <1>0, <1>6, <1>7, SparesTrans

LEMMA EndedSpends ==
  ASSUME NEW s, Shaped(s), s.plan.pending \in Seq(Input), s.lane.withdrawn \subseteq User, NEW t \in Turn, NEW r,
         NEW how, NEW free
  PROVE  LET e == [how |-> how, ids |-> r.ids, forceStopped |-> r.forceStopped, retry |-> r.retry]
         IN  Spends(s, Ended(s, t, r, how, free), Dropped(e))
<1> DEFINE e == [how |-> how, ids |-> r.ids, forceStopped |-> r.forceStopped, retry |-> r.retry]
           g == LetGo(s, t, e)
           n == Settled(g, e, free)
<1>1. Ended(s, t, r, how, free) = IF "ticks" \in day THEN g ELSE n
  BY DEF Ended
<1> HIDE DEF e
<1>2. Shaped(g) /\ Spends(s, g, Dropped(e))
  BY LetGoSpends
<1> HIDE DEF g
<1>3. Spares(g, n)
  BY <1>2, SettledSpares DEF Spends, Minds
<1> HIDE DEF n
<1>4. Spends(s, n, Dropped(e))
  BY <1>2, <1>3 DEF Spends, Spares, Minds
<1> QED
  BY <1>1, <1>2, <1>4 DEF e

\* A goal that a limit kept goes in front of what waits.
LEMMA OpeningOverSpares ==
  ASSUME NEW s, Shaped(s), s.plan.pending \in Seq(Input), NEW r, NEW how,
         how \in {"paused", "limited"} => \E g \in Input : r.ids = {g}
  PROVE  Spares(s, OpeningOver(s, r, how)) /\ Shaped(OpeningOver(s, r, how))
<1> DEFINE kept == how = "paused" \/ (how = "limited" /\ Holds(s) /\ ~(r.ids \subseteq s.plan.heard))
           g == CHOOSE i \in r.ids : TRUE
           z == <<g>> \o s.plan.pending
           k == [s EXCEPT !.plan.pending = z]
           q == IF kept THEN k ELSE s
           X == Waiting(q, IF kept THEN Elems(q.plan.pending) \intersect User ELSE r.ids)
           w == IF kept THEN "kept" ELSE how
           a == Tell(q, X, w)
           b == [a EXCEPT !.talk.opening = NoOpening]
<1>1. OpeningOver(s, r, how) = [a EXCEPT !.talk.opening = IF @.at = "open" /\ @.input = g THEN NoOpening ELSE @]
  BY DEF OpeningOver
<1>2. kept => g \in Input
  OBVIOUS
<1>3. g \in Input => Spares(s, k) /\ Shaped(k)
  <2> SUFFICES ASSUME g \in Input PROVE Spares(s, k) /\ Shaped(k)
    OBVIOUS
  <2> DEFINE one == <<g>>
  <2>1. one \in Seq(Input) /\ z = one \o s.plan.pending
    OBVIOUS
  <2> HIDE DEF one, g, z
  <2>2. z \in Seq(Input) /\ Elems(s.plan.pending) \subseteq Elems(z)
    BY <2>1, JoinOf
  <2>3. Shaped(k) /\ k.lane = s.lane /\ k.talk = s.talk /\ k.plan.pending = z /\ k.plan.heard = s.plan.heard
    BY DEF Shaped, PlanShaped
  <2> HIDE DEF k
  <2> QED
    BY <2>2, <2>3 DEF Spares, Minds
<1>4. Spares(s, s)
  BY DEF Spares, Minds
<1>5. Spares(s, q) /\ Shaped(q)
  BY <1>2, <1>3, <1>4
<1> HIDE DEF kept, q, X, w, g
<1>6. Light(q, a)
  BY <1>5, LightSelf, TellLight
<1>7. Light(q, b)
  BY <1>6, SetLight
<1>8. OpeningOver(s, r, how) \in {a, b}
  <2>1. a = [a EXCEPT !.talk.opening = a.talk.opening]
    BY <1>6 DEF Light, Shaped, TalkShaped
  <2> HIDE DEF a
  <2> QED
    BY <1>1, <2>1
<1> HIDE DEF a, b
<1> QED
  BY <1>5, <1>6, <1>7, <1>8, LightSpares DEF Light

-----------------------------------------------------------------------------
LEMMA LeftStays == ASSUME InputAssumption, NEW r, Leaves(r) PROVE Stays
<1>1. Wary(Now')
  BY DEF Leaves, Wary, Becomes, Now
<1>2. \A i \in Wake \union Report : i \notin User
  BY DEF InputAssumption
<1> QED
  BY <1>1, <1>2 DEF Leaves, Staying, Stays, Becomes

LEMMA WakeReady == ASSUME WakeInv, DaysGo PROVE Poised
<1>1. Shaped(Now) /\ Now.plan.pending \in Seq(Input)
  BY DEF WakeInv, FitsInv, Fits, Listed
<1> QED
  BY <1>1, LightSelf DEF Poised, WakeInv, FitsInv, OwnInv, DaysGo, Wary, Spares, Minds

LEMMA SparedStays == ASSUME WakeInv, DaysGo, NEW r, Becomes(r), Spares(Now, r) \/ Light(Now, r) PROVE Stays
<1>1. Leaves(r)
  BY NowFields DEF Leaves, Spares, Light, Minds, Wary, WakeInv
<1> QED
  BY <1>1, LeftStays DEF DaysGo

LEMMA ActStays ==
  ASSUME WakeInv, DaysGo, NEW act, Acts(act), NEW r, Becomes(r), Minds(Now, r) \/ Wary(r) PROVE Stays
<1>1. acts' # acts
  BY DEF Acts, WakeInv
<1>2. Leaves(r)
  BY <1>1 DEF Leaves, Minds, Wary, WakeInv
<1> QED
  BY <1>2, LeftStays DEF DaysGo

LEMMA TurnMinds ==
  ASSUME NEW s, NEW a, Light(s, a), s.plan.pending \in Seq(Input),
         NEW r, r.plan = a.plan, r.lane = a.lane, r.talk.turn = a.talk.turn
  PROVE  Spares(s, r)
BY DEF Light, Minds, Spares

LEMMA AdmitShaped == ASSUME Poised, NEW i \in Input, NEW force \in BOOLEAN PROVE Shaped(Admit(Now, i, force))
BY AdmitQuiet DEF Poised, Quiet, Own

LEMMA SendStays == ASSUME WakeInv, DaysGo, NEW i \in Input, Send(i) \/ Deliver(i) PROVE Stays
<1> DEFINE a == Tell(Now, {i}, "waiting")
           b == Tell(Now, {i}, "busy")
           c == Tell(Now, {i}, "kept")
           h == [a EXCEPT !.talk.opening.held = Append(@, i)]
           k == [c EXCEPT !.plan.pending = Append(@, i)]
<1>0. Poised /\ FALSE \in BOOLEAN
  BY WakeReady
<1>1. Light(Now, a) /\ Light(Now, b) /\ Light(Now, c) /\ Spares(Now, Admit(Now, i, FALSE))
  BY <1>0, TellLight, AdmitSpares DEF Poised
<1>2. Becomes(h) \/ Becomes(b) \/ Becomes(k) \/ Becomes(Admit(Now, i, FALSE))
  BY DEF Send, Deliver
<1> HIDE DEF a, b, c
<1>3. Light(Now, h)
  BY <1>1, SetLight
<1>4. Spares(Now, k)
  <2>1. Append(c.plan.pending, i) \in Seq(Input) /\ Elems(Append(c.plan.pending, i)) = Elems(c.plan.pending) \union {i}
    BY <1>0, <1>1, AppendOf DEF Poised, Light
  <2> DEFINE z == Append(c.plan.pending, i)
  <2> HIDE DEF z
  <2>2. k.plan.pending = z /\ k.plan.heard = c.plan.heard /\ k.lane = c.lane /\ k.talk = c.talk
    BY <1>1 DEF z, Light, Shaped, PlanShaped
  <2> HIDE DEF k
  <2> QED
    BY <1>0, <1>1, <2>1, <2>2 DEF Light, Minds, Spares, z
<1> HIDE DEF h, k
<1> QED
  BY <1>1, <1>2, <1>3, <1>4, SparedStays

LEMMA ForceStays == ASSUME WakeInv, DaysGo, NEW i \in Input, ForceSend(i) PROVE Stays
<1> DEFINE a == Tell(Now, {i}, "waiting")
           h == [a EXCEPT !.talk.opening.held = Append(@, i), !.talk.opening.forced = @ \union {i}]
           b == Admit(Now, i, TRUE)
           s == StopLive(b)
           r == [s EXCEPT !.talk.turn[s.lane.running].forceStopped = TRUE]
<1>0. Poised /\ FALSE \in BOOLEAN /\ TRUE \in BOOLEAN /\ Acts("force")
  BY WakeReady DEF ForceSend
<1>1. Becomes(h) \/ Becomes(Admit(Now, i, FALSE)) \/ Becomes(s) \/ (Speaks(s) /\ Becomes(r))
  BY DEF ForceSend
<1>2. Light(Now, a) /\ Spares(Now, Admit(Now, i, FALSE)) /\ Spares(Now, b) /\ Shaped(b)
  BY <1>0, TellLight, AdmitSpares, AdmitShaped DEF Poised
<1> HIDE DEF a, b
<1>3. Spares(Now, h)
  <2>1. h.plan = a.plan /\ h.lane = a.lane /\ h.talk.turn = a.talk.turn
    BY <1>2 DEF Light, Shaped, TalkShaped
  <2> HIDE DEF h
  <2> QED
    BY <1>0, <1>2, <2>1, TurnMinds DEF Poised
<1>4. Light(b, s)
  BY <1>2, LightSelf, StopLiveLight
<1> HIDE DEF s, h
<1>5. Speaks(s) => Light(b, r)
  <2>1. Speaks(s) => s.lane.running \in Turn
    BY <1>4 DEF Speaks, Light, Shaped, LaneShaped
  <2> QED
    BY <1>0, <1>4, <2>1, FlagLight
<1> HIDE DEF r
<1>6. Minds(Now, h) /\ Minds(Now, Admit(Now, i, FALSE)) /\ Minds(Now, s) /\ (Speaks(s) => Minds(Now, r))
  BY <1>2, <1>3, <1>4, <1>5, LightSpares DEF Spares
<1> QED
  BY <1>0, <1>1, <1>6, ActStays

LEMMA WithdrawStays == ASSUME WakeInv, DaysGo, NEW i \in Input, Withdraw(i) PROVE Stays
<1> DEFINE s == [Now EXCEPT !.lane.withdrawn = @ \union {i}]
           r == [s EXCEPT !.talk.turn[s.lane.running].aborted = TRUE]
<1>0. Poised /\ Acts("withdraw") /\ i \in User /\ (Becomes(s) \/ (Speaks(s) /\ Becomes(r))) /\ TRUE \in BOOLEAN
  BY WakeReady DEF Withdraw
<1>1. Shaped(s) /\ s.lane.withdrawn = Now.lane.withdrawn \union {i} /\ s.talk = Now.talk
  BY <1>0 DEF Poised, Shaped, LaneShaped
<1> HIDE DEF s
<1>2. Wary(s)
  BY <1>0, <1>1 DEF Wary, WakeInv
<1>3. Speaks(s) => Light(s, r)
  BY <1>0, <1>1, LightSelf, FlagLight DEF Speaks, Shaped, LaneShaped
<1> HIDE DEF r
<1>4. Speaks(s) => Wary(r)
  BY <1>2, <1>3 DEF Light, Minds, Wary
<1> QED
  BY <1>0, <1>2, <1>4, ActStays

LEMMA StartStays == ASSUME WakeInv, DaysGo, NEW i \in Input, StartPlanning(i) PROVE Stays
<1> DEFINE a == Tell(EndWaiting(Now, "discarded"), {i}, "waiting")
           s == [a EXCEPT !.talk.opening = [NoOpening EXCEPT !.at = "probe", !.input = i]]
<1>0. Poised /\ Acts("goal") /\ Becomes(ThroughGate(s))
  BY WakeReady DEF StartPlanning
<1>1. Light(Now, a)
  BY <1>0, EndWaitingLight, TellLight DEF Poised
<1> HIDE DEF a
<1>2. Shaped(s) /\ s.plan = a.plan /\ s.lane = a.lane /\ s.talk.turn = a.talk.turn
  BY <1>1 DEF Light, Shaped, TalkShaped, NoOpening
<1> HIDE DEF s
<1>3. Minds(Now, ThroughGate(s))
  BY <1>0, <1>1, <1>2, TurnMinds, ThroughGateMinds, MindsTrans DEF Poised, Spares
<1> QED
  BY <1>0, <1>3, ActStays

LEMMA AbortStays == ASSUME WakeInv, DaysGo, AbortPlannerTurn PROVE Stays
<1> DEFINE q == StopQueued(Now)
           r == EndWaiting(StopLive(q), "stopped")
<1>0. Poised /\ Acts("stop") /\ Becomes(r)
  BY WakeReady DEF AbortPlannerTurn
<1>1. Minds(Now, q) /\ Shaped(q)
  BY <1>0, StopQueuedMinds DEF Poised
<1> HIDE DEF q
<1>2. Light(q, r)
  BY <1>1, LightSelf, StopLiveLight, EndWaitingLight
<1> HIDE DEF r
<1> QED
  BY <1>0, <1>1, <1>2, MindsTrans, ActStays DEF Light

LEMMA LoadStays == ASSUME WakeInv, DaysGo, NEW saved, LoadPlan(saved) PROVE Stays
<1> DEFINE s == Abandon(Drop(EndWaiting(Now, "discarded")))
           a == Tell(s, Elems(saved), "kept")
           p == FreshPlan(plan.gen + 1, None, saved)
           v == Elems(saved) \intersect Report # {}
           r == [a EXCEPT !.plan = p, !.lane.restored = TRUE, !.lane.asked = FALSE,
                          !.lane.reportWake = v, !.talk.moved = FALSE]
<1>0. Poised /\ Acts("load") /\ Becomes(r)
  BY WakeReady DEF LoadPlan
<1>1. Light(Now, a)
  BY <1>0, EndWaitingLight, DropLight, AbandonLight, TellLight DEF Poised
<1> HIDE DEF a, p, v
<1>2. r.lane.withdrawn = a.lane.withdrawn /\ r.talk.turn = a.talk.turn
  BY <1>1 DEF Light, Shaped, LaneShaped, TalkShaped
<1> HIDE DEF r
<1>3. Minds(Now, r)
  BY <1>1, <1>2 DEF Light, Minds
<1> QED
  BY <1>0, <1>3, ActStays

LEMMA CrashStays == ASSUME WakeInv, DaysGo, Crash PROVE Stays
<1>1. acts' # acts
  BY DEF Crash, Acts, WakeInv
<1>2. lane'.withdrawn = {} /\ talk'.turn = [t \in Turn |-> Idle]
  <2>1. TalkShaped(talk)
    BY WakeReady, NowFields DEF Poised, Shaped
  <2> QED
    BY <2>1 DEF Crash, TalkShaped
<1>3. Wary(Now')
  BY <1>2 DEF Wary, Now, Idle
<1> QED
  BY <1>1, <1>3 DEF Stays, Staying

LEMMA ReportStays == ASSUME WakeInv, DaysGo, ReportWake PROVE Stays
<1> DEFINE s == [Now EXCEPT !.lane.reportWake = FALSE]
           a == [s EXCEPT !.lane.restored = FALSE]
           b == [a EXCEPT !.lane.asked = TRUE]
<1>0. Poised /\ (Becomes(s) \/ Becomes(Pump(b)))
  BY WakeReady DEF ReportWake
<1>1. Light(Now, s)
  BY <1>0, SetLight DEF Poised
<1> HIDE DEF s
<1>2. Light(Now, a)
  BY <1>1, SetLight
<1> HIDE DEF a
<1>3. Light(Now, b)
  BY <1>2, SetLight
<1> HIDE DEF b
<1>4. Spares(Now, Pump(b))
  BY <1>0, <1>3, PumpSpares, SparesTrans DEF Light, Minds, Poised
<1> QED
  BY <1>0, <1>1, <1>4, SparedStays

LEMMA FlagStays ==
  ASSUME WakeInv, DaysGo, NEW t \in Turn, StartCheck(t) \/ HoldTimesOut(t) \/ TurnTimesOut(t) PROVE Stays
<1> DEFINE l == [Now EXCEPT !.talk.turn[t].late = TRUE]
<1>0. Poised /\ TRUE \in BOOLEAN
  BY WakeReady
<1>1. \/ Becomes([Now EXCEPT !.talk.turn[t].checking = TRUE]) \/ Becomes([Now EXCEPT !.talk.turn[t].hold = FALSE])
      \/ Becomes([l EXCEPT !.talk.turn[t].aborted = TRUE])
  BY DEF StartCheck, HoldTimesOut, TurnTimesOut
<1>2. Light(Now, l)
  BY <1>0, FlagLight DEF Poised
<1> HIDE DEF l
<1>3. /\ Light(Now, [Now EXCEPT !.talk.turn[t].checking = TRUE]) /\ Light(Now, [Now EXCEPT !.talk.turn[t].hold = FALSE])
      /\ Light(Now, [l EXCEPT !.talk.turn[t].aborted = TRUE])
  BY <1>0, <1>2, FlagLight DEF Poised
<1> QED
  BY <1>1, <1>3, SparedStays

LEMMA TickStays == ASSUME WakeInv, DaysGo, NEW e, TickOver(e) PROVE Stays
<1>1. PICK free \in BOOLEAN : Becomes(Settled(Now, e, free))
  BY DEF TickOver
<1> QED
  BY <1>1, WakeReady, SettledSpares, SparedStays DEF Poised

LEMMA LimitStays == ASSUME WakeInv, DaysGo, ResetComes \/ CancelResend \/ SwitchPlanner \/ SetAble \/ LeaseLost PROVE Stays
<1> DEFINE n == [Now EXCEPT !.plan.limit = "none"]
           d == Drop(Now)
           v == ~talk.able
<1>0. Poised /\ FALSE \in BOOLEAN /\ v \in BOOLEAN /\ Now.talk.able = talk.able
  BY WakeReady, NowFields
<1>1. \/ Becomes([Now EXCEPT !.plan.limit = "held"]) \/ Becomes(Pump(n)) \/ Becomes([Now EXCEPT !.talk.moved = TRUE])
      \/ Becomes([Now EXCEPT !.talk.able = v]) \/ Becomes([d EXCEPT !.talk.able = FALSE])
  BY <1>0 DEF ResetComes, CancelResend, SwitchPlanner, SetAble, LeaseLost
<1>2. Light(Now, n) /\ Light(Now, d) /\ Light(Now, [Now EXCEPT !.plan.limit = "held"]) /\ Light(Now, [Now EXCEPT !.talk.moved = TRUE])
  BY <1>0, SetLight, DropLight DEF Poised
<1> HIDE DEF n, d, v
<1>3. Light(Now, [Now EXCEPT !.talk.able = v]) /\ Light(Now, [d EXCEPT !.talk.able = FALSE])
  BY <1>0, <1>2, SetLight DEF Poised
<1>4. Spares(Now, Pump(n))
  BY <1>0, <1>2, PumpSpares, SparesTrans DEF Light, Minds, Poised
<1> QED
  BY <1>1, <1>2, <1>3, <1>4, SparedStays

LEMMA TakeStays == ASSUME WakeInv, DaysGo, RetryCompaction \/ Compact PROVE Stays
<1> DEFINE ids == Elems(plan.pending) \intersect plan.kept
           a == [Now EXCEPT !.lane.restored = FALSE]
           b == [a EXCEPT !.lane.quiet = FALSE]
           s == [b EXCEPT !.lane.asked = TRUE]
           c == Claimed(Now, "compaction", {}, FALSE)
<1>0. Poised /\ (Acts("retry") \/ Acts("compact")) /\ (Becomes(s) \/ Becomes(Run(s, ids, TRUE)) \/ Becomes(c))
  BY WakeReady DEF RetryCompaction, Compact
<1>1. Light(Now, a) /\ Minds(Now, c)
  BY <1>0, SetLight, ClaimedMinds DEF Poised
<1> HIDE DEF a, ids, c
<1>2. Light(Now, b)
  BY <1>1, SetLight
<1> HIDE DEF b
<1>3. Light(Now, s)
  BY <1>2, SetLight
<1> HIDE DEF s
<1>4. Minds(Now, s) /\ Minds(Now, Run(s, ids, TRUE))
  BY <1>3, RunMinds, MindsTrans DEF Light
<1> QED
  BY <1>0, <1>1, <1>4, ActStays

LEMMA GateStays == ASSUME WakeInv, DaysGo, PlannerDetected \/ TurnRoomFreed PROVE Stays
<1> DEFINE k == [Now EXCEPT !.talk.known = TRUE]
           s == [k EXCEPT !.lane.detecting = FALSE]
           m == [Now EXCEPT !.talk.room = TRUE]
           q == IF lane.detecting THEN Pump(s) ELSE s
<1>0. Poised /\ (\/ Becomes(ThroughGate(q)) \/ Becomes(q) \/ Becomes(OpenGoal(m)) \/ Becomes(Pump(m)) \/ Becomes(m))
  BY WakeReady DEF PlannerDetected, TurnRoomFreed
<1>1. Light(Now, k) /\ Light(Now, m) /\ Alike(Now, k) /\ Alike(Now, m)
  BY <1>0, SetLight, AlikeSelf, SetTalk DEF Poised
<1> HIDE DEF k, m
<1>2. Light(Now, s) /\ Alike(Now, s)
  BY <1>1, SetLight, SetLane
<1> HIDE DEF s
<1>3. ASSUME NEW z, Light(Now, z) PROVE Spares(Now, z) /\ Spares(Now, Pump(z)) /\ Shaped(z)
  BY <1>0, <1>3, PumpSpares, SparesTrans, LightSpares DEF Light, Minds, Poised
<1>4. Spares(Now, q) /\ Shaped(q) /\ q.plan.gen = plan.gen
  <2>1. Shaped(Pump(s)) /\ Pump(s).plan.gen = plan.gen
    BY <1>2, PumpGoes, NowFields DEF Pumps, Alike, SameTurns, Opens, Claims
  <2> QED
    BY <1>2, <1>3, <2>1, NowFields DEF Alike, SameTurns
<1> HIDE DEF q
<1>5. ASSUME NEW z, Becomes(z), Minds(Now, z), z.plan.gen # plan.gen PROVE Stays
  <2>1. Leaves(z)
    BY <1>5 DEF Leaves, Minds, Wary, WakeInv
  <2> QED
    BY <2>1, LeftStays DEF DaysGo
<1>6. CASE Becomes(OpenGoal(m))
  <2>1. Minds(Now, OpenGoal(m)) /\ OpenGoal(m).plan.gen # plan.gen
    BY <1>1, OpenGoalMinds, MindsTrans, NowFields DEF Light, Alike, SameTurns
  <2> QED
    BY <1>5, <1>6, <2>1
<1>7. CASE Becomes(ThroughGate(q))
  <2>1. Minds(Now, ThroughGate(q)) /\ (ThroughGate(q).plan.gen # plan.gen \/ Spares(Now, ThroughGate(q)))
    BY <1>4, ThroughGateMinds, MindsTrans, LightSpares DEF Spares
  <2> QED
    BY <1>5, <1>7, <2>1, SparedStays
<1> QED
  BY <1>0, <1>1, <1>3, <1>4, <1>6, <1>7, SparedStays

LEMMA GraceStays == ASSUME WakeInv, DaysGo, NEW t \in Turn, GraceEnds(t) PROVE Stays
<1> DEFINE r == talk.turn[t]
           d == Drop(Now)
           h == [d EXCEPT !.talk.turn[t].kind = "hung"]
           c == Counted(h, r, "failed")
           e == [how |-> "failed", ids |-> r.ids, forceStopped |-> r.forceStopped, retry |-> r.retry]
<1>0. Poised /\ TRUE \in BOOLEAN
  BY WakeReady
<1>1. PICK free \in BOOLEAN : Becomes(Ended(c, t, r, "failed", free))
  BY DEF GraceEnds
<1>2. Light(Now, d)
  BY <1>0, DropLight DEF Poised
<1> HIDE DEF d
<1>3. Light(Now, h)
  BY <1>0, <1>2, FlagLight
<1> HIDE DEF h
<1>4. Light(h, c)
  <2>1. Alike(h, c)
    BY <1>3, AlikeSelf, CountedAlike DEF Light
  <2>2. Frame(h, c) /\ c.plan.pending = h.plan.pending
    BY <1>3, CountedSays DEF Light
  <2> HIDE DEF c
  <2> QED
    BY <2>1, <2>2 DEF Light, Minds, Alike, SameTurns, Frame
<1> HIDE DEF c
<1>5. Light(Now, c)
  BY <1>3, <1>4, LightTrans
<1>6. Dropped(e) \subseteq User
  BY DEF Dropped, Interrupted
<1>7. Spends(c, Ended(c, t, r, "failed", free), Dropped(e))
  BY <1>0, <1>5, EndedSpends DEF Poised, Light, Minds
<1> HIDE DEF e, r
<1>8. Spares(Now, Ended(c, t, r, "failed", free))
  BY <1>5, <1>6, <1>7 DEF Spends, Light, Minds, Spares
<1> QED
  BY <1>1, <1>8, SparedStays

LEMMA CheckStays == ASSUME WakeInv, DaysGo, NEW t \in Turn, ChecksOut(t) PROVE Stays
<1> DEFINE r == talk.turn[t]
           s == [Now EXCEPT !.talk.turn[t].checking = FALSE]
           n == Landed(s, r)
<1>0. Poised /\ FALSE \in BOOLEAN /\ (Becomes(n) \/ Becomes(s))
  BY WakeReady DEF ChecksOut
<1>1. Light(Now, s) /\ Fits(s, day)
  BY <1>0, FlagLight, FlagFits DEF Poised
<1> HIDE DEF s, r
<1>2. /\ Elems(n.plan.pending) = Elems(s.plan.pending) \ r.ids /\ n.lane = s.lane /\ n.talk = s.talk
      /\ n.plan.heard = s.plan.heard \union r.ids
  <2>1. LandsIn(s, n, r.ids)
    BY <1>1, AlikeSelf, LandedWrites DEF Light
  <2>2. Elems(n.plan.pending) = Elems(s.plan.pending) \ r.ids /\ n.lane = s.lane /\ n.talk = s.talk
    BY <1>1, LandedSays
  <2> QED
    BY <2>1, <2>2 DEF LandsIn
<1> HIDE DEF n
<1>3. Becomes(n) => Leaves(n)
  BY <1>1, <1>2, NowFields DEF Leaves, Light, Minds, Wary, WakeInv
<1> QED
  BY <1>0, <1>1, <1>3, LeftStays, SparedStays DEF DaysGo

\* A turn's own end strikes what it answered, and what the user stopped.
LEMMA EndStays == ASSUME WakeInv, DaysGo, NEW t \in Turn, EndTurn(t) PROVE Stays
<1> DEFINE r == talk.turn[t]
<1>0. Poised /\ r.at = "talking"
  BY WakeReady DEF EndTurn
<1>1. PICK how \in Outcomes(r), free \in BOOLEAN, wait \in {"none", "armed", "held"} : \E n :
        LET s == Over(Now, t, how, wait)
            q == OpeningOver(s, r, how)
        IN  /\ Becomes(n)
            /\ \/ r.kind = "reply" /\ n = Ended(s, t, r, how, free)
               \/ n = s \/ n = Pump(s) \/ n = Pump(EndTurnLease(s, free))
               \/ r.kind = "opening" /\ (n = q \/ n = Pump(EndTurnLease(q, free)))
  <2>1. PICK how \in Outcomes(r), free \in BOOLEAN : \E wait \in IF how = "limited" THEN {"armed", "held"} ELSE {"none"} :
         LET s == Over(Now, t, how, wait)
             mine == talk.live = t
             lets == IF lane.running = None THEN EndTurnLease(s, free) ELSE s
         IN  Becomes(CASE lane.running = t /\ r.kind = "reply" -> Ended(s, t, r, how, free)
                       [] r.kind = "opening" -> LET q == OpeningOver(s, r, how)
                                                IN  IF mine THEN Pump(EndTurnLease(q, free)) ELSE q
                       [] OTHER -> IF mine THEN Pump(lets) ELSE s)
    BY DEF EndTurn
  <2> QED
    BY <2>1
<1>2. /\ r.dropped \in BOOLEAN /\ r.aborted \in BOOLEAN /\ (r.dropped => r.aborted) /\ r = Now.talk.turn[t]
      /\ Now.plan = plan /\ Now.lane = lane
  BY <1>0, NowFields DEF Poised, Shaped, TalkShaped, TurnIsRecord, WakeInv, Wary
<1>3. how \in Hows /\ (r.dropped => how = "discarded") /\ (how \in {"stopped", "discarded"} => r.aborted)
  BY <1>2 DEF Outcomes, Hows
<1> DEFINE s == Over(Now, t, how, wait)
           q == OpeningOver(s, r, how)
           X == IF how = "answered" /\ r.kind # "compaction" THEN r.ids ELSE {}
           e == [how |-> how, ids |-> r.ids, forceStopped |-> r.forceStopped, retry |-> r.retry]
           g == Ended(s, t, r, how, free)
<1>15. PICK n : /\ Becomes(n)
                 /\ \/ r.kind = "reply" /\ n = g
                    \/ n = s \/ n = Pump(s) \/ n = Pump(EndTurnLease(s, free))
                    \/ r.kind = "opening" /\ (n = q \/ n = Pump(EndTurnLease(q, free)))
  BY <1>1
<1>4. Fits(s, day)
  <2>1. how = "answered" => \A u \in Turn \ {t} : talk.turn[u].at = "talking" => talk.turn[u].dropped
    BY <1>0, <1>3, NowFields DEF Poised, Own, LiveOwn
  <2> QED
    BY <1>0, <2>1, OverFits, NowFields DEF Poised
<1>5. Ends(Now, s, t, X) /\ s.plan.heard = plan.heard \union X
  BY <1>0, <1>2, OverEnds, OverSays DEF Poised, CallOver, Writes
<1>6. (how \in {"paused", "limited"} /\ r.kind = "opening") => \E i \in Input : r.ids = {i}
  BY <1>0, <1>2, <1>3 DEF Poised, Fits, TurnFits
<1> HIDE DEF s
<1>7. Shaped(s) /\ s.plan.pending \in Seq(Input) /\ s.lane.withdrawn \subseteq User /\ Minds(Now, s)
      /\ Elems(s.plan.pending) = Elems(plan.pending) \ X
  BY <1>0, <1>2, <1>4, <1>5 DEF Poised, Fits, Listed, Ends, Minds, Idle
<1>8. Light(s, s) /\ Light(s, EndTurnLease(s, free))
  BY <1>7, LightSelf, LeaseLight
<1>9. ASSUME NEW z, Spares(s, z) \/ Light(s, z), Shaped(z) PROVE Spares(s, z) /\ Spares(s, Pump(z))
  BY <1>7, <1>9, PumpSpares, SparesTrans DEF Light, Minds, Spares
<1>10. ASSUME r.kind = "opening" PROVE Spares(s, q) /\ Spares(s, Pump(EndTurnLease(q, free)))
  <2>1. Spares(s, q) /\ Shaped(q)
    BY <1>6, <1>7, <1>10, OpeningOverSpares
  <2> HIDE DEF q
  <2>2. Light(q, EndTurnLease(q, free))
    BY <2>1, LightSelf, LeaseLight
  <2> QED
    BY <1>9, <2>1, <2>2, LightSpares DEF Light
<1>11. Spends(s, g, Dropped(e))
  BY <1>7, EndedSpends
<1>12. ASSUME r.kind = "reply", NEW i \in Dropped(e) \ User PROVE i \in X \/ Excused(i)
  BY <1>3, <1>12 DEF Dropped, Interrupted, ForceStopped, Excused
<1> HIDE DEF q, g, e, X, r
<1>13. Spares(s, n) \/ (r.kind = "reply" /\ Spends(s, n, Dropped(e)))
  BY <1>15, <1>8, <1>9, <1>10, <1>11 DEF s, q, g, Light
<1>14. Leaves(n)
  <2>1. Wary(n)
    BY <1>7, <1>13 DEF Spares, Spends, Minds, Wary, WakeInv
  <2>2. ASSUME NEW i \in Elems(plan.pending) \ User PROVE i \in Elems(n.plan.pending) \union n.plan.heard \/ Excused(i)
    BY <1>5, <1>7, <1>12, <1>13 DEF Spares, Spends
  <2> QED
    BY <1>15, <2>1, <2>2 DEF Leaves
<1> QED
  BY <1>14, LeftStays DEF DaysGo

LEMMA WakeStep == ASSUME DaysGo, WakeInv, [Next]_vars PROVE Stays
<1>1. CASE UNCHANGED vars
  BY <1>1 DEF vars, Now, Stays, Staying, Wary, WakeInv
<1>2. CASE Next
  <2>1. ASSUME NEW i \in Input, Send(i) \/ Deliver(i) \/ ForceSend(i) \/ Withdraw(i) \/ StartPlanning(i) PROVE Stays
    BY <2>1, SendStays, ForceStays, WithdrawStays, StartStays
  <2>2. ASSUME NEW t \in Turn, TurnMoves(t) \/ StartCheck(t) \/ HoldTimesOut(t) \/ TurnTimesOut(t) PROVE Stays
    BY <2>2, EndStays, CheckStays, GraceStays, FlagStays DEF TurnMoves
  <2>3. ASSUME NEW saved, LoadPlan(saved) PROVE Stays
    BY <2>3, LoadStays
  <2>4. ASSUME NEW e, TickOver(e) PROVE Stays
    BY <2>4, TickStays
  <2> QED
    BY <1>2, <2>1, <2>2, <2>3, <2>4, AbortStays, CrashStays, ReportStays, LimitStays, TakeStays, GateStays DEF Next
<1> QED
  BY <1>1, <1>2

\* A wake-up or a report leaves the list answered, or by what somebody did, or with
\* a turn that was stopped: no failure, pause, limit, reset or probe takes one.
THEOREM WakeUpsStayHolds == ASSUME DaysGo, NoGoalChecks PROVE Spec => WakeUpsStay
<1>1. Init => Wary(Now) /\ acts \in 0..MaxActs
  BY NowFields DEF Init, Wary, Idle, DaysGo, InputAssumption
<1>2. WakeInv /\ [Next]_vars => WakeInv' /\ [Staying]_vars
  BY FitsStep, WakeStep, ActsCounted DEF WakeInv, Stays, DaysGo
<1>3. Init => WakeInv
  BY <1>1, OwnInit, FitsInit DEF WakeInv, FitsInv
<1>4. Spec => [][Staying]_vars
  BY <1>2, <1>3, PTL DEF Spec
<1> QED
  BY <1>4, PTL DEF WakeUpsStay, Staying, Excused
=============================================================================
