---------------------------- MODULE ChildPlanProofs ----------------------------
(* What a delegated task's attempts keep to, for every number of attempts,     *)
(* every child's plan and every day: proofs checked by TLAPS.                  *)
EXTENDS ChildPlan, TLAPS

Turn == {"own", "person", "wake"}
ItemState == {"absent", "ready", "running", "stopping", "failed", "done"}

Fields == {
    "life", "wind", "turns", "aborted", "item", "scheduling", "tick", "merging", "branch", "noRoom",
    "toldRefused", "wakeOwed", "stoppedFor", "withdrawn", "accepted", "refuted", "call", "publishing",
    "told", "asking", "question", "ended", "halting", "haltOwed", "checkQueued", "reminded", "grace",
    "clock"}

\* A child's record. It is told field by field, which the provers update more readily than a set of records.
Typed(c) ==
    /\ DOMAIN c = Fields
    /\ c.life \in {"none", "waiting", "due", "opening", "seated", "unseated"}
    /\ c.wind \in {"no", "seat", "halt", "close", "gone"}
    /\ c.turns \in Seq(Turn)
    /\ c.aborted \in BOOLEAN
    /\ c.item \in [Item -> ItemState]
    /\ c.branch \in SUBSET Item
    /\ c.stoppedFor \in {"none", "blocked", "failed"}
    /\ c.halting \in {"none", "blocked", "failed"}
    /\ c.accepted \in {"none", "done", "blocked", "failed"}
    /\ c.call \in {"none", "reading", "done", "failed"}
    /\ c.publishing \in {"no", "halt", "read", "told", "over"}
    /\ c.told \in {"none", "refuted", "done", "blocked", "failed"}
    /\ {c.scheduling, c.tick, c.merging, c.noRoom, c.toldRefused, c.wakeOwed, c.withdrawn, c.refuted,
        c.asking, c.question, c.ended, c.haltOwed, c.checkQueued, c.reminded, c.grace, c.clock} \subseteq BOOLEAN

Without(c, states) == \A i \in Item : c.item[i] \notin states

\* Nothing of a child is there yet, or ever will be.
Bare(c) ==
    /\ c.turns = <<>> /\ (\A i \in Item : c.item[i] = "absent")
    /\ ~c.scheduling /\ ~c.tick /\ ~c.merging
    /\ c.call = "none" /\ c.halting = "none" /\ c.accepted # "done" /\ c.publishing \in {"no", "over"}
    /\ ~c.asking /\ ~c.question /\ ~c.haltOwed /\ ~c.grace /\ ~c.clock

\* A child is bare until it is seated, and one that is seated under a Stop stays so.
SeatsLate(c) ==
    /\ c.life # "seated" \/ c.wind = "seat" => Bare(c)
    /\ c.life \in {"none", "waiting", "due", "opening"} => c.accepted = "none" /\ c.told = "none" /\ ~c.checkQueued
    /\ c.life \in {"none", "waiting"} => c.wind = "no"

\* How far its winding down is says what is left of it.
WindsDown(c) ==
    /\ c.wind # "no" => ~c.grace /\ ~c.clock /\ ~c.question /\ ~c.asking
    /\ c.wind \in {"halt", "close", "gone"} => ~c.scheduling /\ Without(c, {"running"}) /\ c.life # "opening"
    /\ c.wind \in {"close", "gone"} => c.turns = <<>> /\ Without(c, {"stopping"})
    /\ c.wind = "gone" => ~c.tick /\ ~c.merging

\* Its queue is bounded and only a turn is aborted; what is merged has passed; a question waits.
RunsRight(c) ==
    /\ Len(c.turns) <= MaxTurns
    /\ c.aborted => c.turns # <<>>
    /\ \A i \in c.branch : c.item[i] = "done"
    /\ c.question => c.asking

\* What is told is what was taken, once; and behind the last read of a `done` nothing runs.
TellsRight(c) ==
    /\ c.told \in {"none", "refuted", c.accepted}
    /\ c.told # "none" => c.ended
    /\ c.told # "none" \/ c.publishing # "no" => c.accepted # "none"
    /\ c.accepted = "done" /\ (c.publishing \in {"halt", "read", "told"} \/ c.told = "done") => Without(c, {"running"})

Good(c) == Typed(c) /\ SeatsLate(c) /\ WindsDown(c) /\ RunsRight(c) /\ TellsRight(c)

\* The live attempt is the one that is not let go, and a child that is up has all earlier ones gone.
OneLive ==
    /\ cur \in Attempt \union {0}
    /\ \A a \in Attempt : a = cur <=> child[a].life # "none" /\ child[a].wind = "no"
    /\ \A a, b \in Attempt : b < a /\ child[a].life \in {"due", "opening", "seated"} => child[b].wind = "gone"

\* The inductive invariant.
ChildInv == DOMAIN child = Attempt /\ (\A a \in Attempt : Good(child[a])) /\ OneLive

-----------------------------------------------------------------------------
(* What the handlers keep. *)

\* A handler leaves how far the child is and starts nothing: it can only stop what runs. It tells once.
Moves(c, d) ==
    /\ d.life = c.life /\ d.wind = c.wind
    /\ \A i \in Item : d.item[i] = c.item[i] \/ (c.item[i] = "running" /\ d.item[i] = "stopping")
    /\ d.told # c.told => c.told = "none" /\ c.wind = "no"

(* What one call may change, two calls in a row may. *)
LEMMA MovesOn ==
    ASSUME NEW c, NEW d, NEW e, Moves(c, d), Moves(d, e)
    PROVE  Moves(c, e)
BY DEF Moves

(* An attempt nothing was made for is good. *)
LEMMA FreshGood == Good(Fresh)
<1>1. Typed(Fresh)
  BY DEF Typed, Fresh, Fields, ItemState
<1> QED
  BY <1>1, BoundAssumption DEF Good, Fresh, SeatsLate, Bare, WindsDown, RunsRight, TellsRight, Without, ItemState

(* The halt that ends a child's own run (controller.halt): no turn of it is left but the one in hand. *)
LEMMA HaltedGood ==
    ASSUME NEW c, Good(c), c.life = "seated"
    PROVE  Good(Halted(c)) /\ Moves(c, Halted(c)) /\ Without(Halted(c), {"running"}) /\ ~Halted(c).scheduling
<1>1. c.turns # <<>> => <<Head(c.turns)>> \in Seq(Turn) /\ <<Head(c.turns)>> # <<>> /\ Len(<<Head(c.turns)>>) = 1
  BY DEF Typed, Good
<1>2. [i \in Item |-> IF c.item[i] = "running" THEN "stopping" ELSE c.item[i]] \in [Item -> ItemState]
  BY DEF Typed, ItemState, Good
<1>3. Typed(Halted(c))
  BY <1>1, <1>2 DEF Halted, Good, Typed, PlannerBusy, Fields
<1>4. SeatsLate(Halted(c))
  <2>1. /\ Halted(c).life = c.life /\ Halted(c).wind = c.wind /\ Halted(c).accepted = c.accepted
        /\ Halted(c).told = c.told /\ Halted(c).tick = c.tick /\ Halted(c).merging = c.merging
        /\ Halted(c).call = c.call /\ Halted(c).halting = c.halting /\ Halted(c).publishing = c.publishing
        /\ Halted(c).asking = c.asking /\ Halted(c).question = c.question /\ Halted(c).haltOwed = c.haltOwed
        /\ Halted(c).grace = c.grace /\ Halted(c).clock = c.clock /\ ~Halted(c).scheduling
    BY DEF Halted, Good, Typed, Fields
  <2>2. ASSUME Bare(c) PROVE Bare(Halted(c))
    <3>1. Halted(c).turns = <<>> /\ \A i \in Item : Halted(c).item[i] = "absent"
      BY <2>2 DEF Halted, Good, Typed, Fields, Bare, PlannerBusy
    <3> QED BY <2>1, <2>2, <3>1 DEF Bare
  <2> QED BY <2>1, <2>2 DEF Good, SeatsLate
<1>5. WindsDown(Halted(c))
  BY DEF Halted, Good, Typed, PlannerBusy, Fields, WindsDown, Without, SeatsLate, Bare
<1>6. RunsRight(Halted(c))
  BY <1>1, BoundAssumption DEF Halted, Good, Typed, PlannerBusy, Fields, RunsRight
<1>7. TellsRight(Halted(c))
  BY DEF Halted, Good, Typed, Fields, TellsRight, Without
<1>8. Moves(c, Halted(c)) /\ Without(Halted(c), {"running"}) /\ ~Halted(c).scheduling
  BY DEF Halted, Good, Typed, Fields, Moves, Without
<1> QED BY <1>3, <1>4, <1>5, <1>6, <1>7, <1>8 DEF Good

(* Stopping a seated child for an outcome (haltFor), alone or over a halt under way. *)
LEMMA HaltForGood ==
    ASSUME NEW c, Good(c), c.life = "seated", c.wind # "seat", NEW ends \in {"blocked", "failed"}
    PROVE  Good(HaltFor(c, ends)) /\ Moves(c, HaltFor(c, ends))
<1>1. CASE c.halting # "none"
  BY <1>1 DEF HaltFor, Moves
<1>2. CASE c.halting = "none"
  <2> DEFINE h == Halted(c)
  <2>1. Good(h) /\ Moves(c, h)
    BY HaltedGood
  <2>2. h.life = "seated" /\ h.wind # "seat"
    BY <2>1 DEF Moves
  <2>3. HaltFor(c, ends) = [h EXCEPT !.halting = ends, !.haltOwed = TRUE]
    BY <1>2 DEF HaltFor
  <2> HIDE DEF h
  <2>4. Good(HaltFor(c, ends))
    BY <2>1, <2>2, <2>3 DEF Good, Typed, Fields, SeatsLate, WindsDown, RunsRight, TellsRight, Without
  <2>5. Moves(h, HaltFor(c, ends))
    BY <2>1, <2>3 DEF Good, Typed, Fields, Moves
  <2> QED BY <2>1, <2>4, <2>5, MovesOn
<1> QED BY <1>1, <1>2

\* A turn is opened in a child that is up and not stopped, and while there is room for it.
LEMMA OpenedGood ==
    ASSUME NEW c, Good(c), NEW kind \in Turn,
           c.life = "seated", c.wind \notin {"seat", "close", "gone"}, Len(c.turns) < MaxTurns
    PROVE  Good(Opened(c, kind)) /\ Moves(c, Opened(c, kind))
<1>1. Append(c.turns, kind) \in Seq(Turn) /\ Len(Append(c.turns, kind)) = Len(c.turns) + 1
      /\ Append(c.turns, kind) # <<>> /\ Len(c.turns) \in Nat
  BY DEF Good, Typed
<1>2. Len(Append(c.turns, kind)) <= MaxTurns
  BY <1>1, BoundAssumption DEF RunsRight
<1> QED BY <1>1, <1>2 DEF Opened, Good, Typed, Fields, SeatsLate, WindsDown, RunsRight, TellsRight, Without, Moves

(* Telling the parent (tell): the first call of a child that still runs, and a repeat. *)
LEMMA TellGood ==
    ASSUME NEW c, Good(c), c.accepted # "none",
           c.accepted = "done" => c.refuted \/ c.publishing \in {"halt", "read", "told"}
    PROVE  Good(Tell(c)) /\ Moves(c, Tell(c))
<1>1. CASE c.ended \/ c.wind # "no"
  BY <1>1 DEF Tell, Moves
<1>2. CASE ~(c.ended \/ c.wind # "no")
  <2> DEFINE told == IF c.accepted = "done" /\ c.refuted THEN "refuted" ELSE c.accepted
  <2>1. told \in {"refuted", c.accepted} /\ told \in {"refuted", "done", "blocked", "failed"}
        /\ (told = "done" => c.accepted = "done" /\ ~c.refuted)
    BY DEF Good, Typed
  <2>2. Tell(c) = [c EXCEPT !.ended = TRUE, !.publishing = "over", !.told = told]
    BY <1>2 DEF Tell
  <2>3. c.told = "none"
    BY <1>2 DEF Good, TellsRight
  <2> HIDE DEF told
  <2>4. Good(Tell(c))
    BY <1>2, <2>1, <2>2, <2>3 DEF Good, Typed, Fields, SeatsLate, Bare, WindsDown, RunsRight, TellsRight, Without
  <2>5. Moves(c, Tell(c))
    BY <1>2, <2>2, <2>3 DEF Good, Typed, Fields, Moves
  <2> QED BY <2>4, <2>5
<1> QED BY <1>1, <1>2

(* The last read of what the child did, once it is accepted. *)
LEMMA LastReadGood ==
    ASSUME NEW c, Good(c), c.accepted = "done"
    PROVE  Good(LastRead(c)) /\ Moves(c, LastRead(c))
<1>0. c.life = "seated" /\ c.wind # "seat"
  BY DEF Good, SeatsLate, Bare
<1>1. CASE Live(c)
  <2> DEFINE h == Halted(c)
  <2>1. Good(h) /\ Moves(c, h) /\ Without(h, {"running"})
    BY <1>0, HaltedGood
  <2>2. h.life = "seated" /\ h.wind # "seat" /\ h.accepted = "done"
    BY <1>0, <2>1 DEF Moves, Halted, Good, Typed, Fields
  <2>3. LastRead(c) = [h EXCEPT !.publishing = "halt"]
    BY <1>1 DEF LastRead
  <2> HIDE DEF h
  <2>4. Good(LastRead(c))
    BY <2>1, <2>2, <2>3 DEF Good, Typed, Fields, SeatsLate, WindsDown, RunsRight, TellsRight, Without
  <2>5. Moves(h, LastRead(c))
    BY <2>1, <2>3 DEF Good, Typed, Fields, Moves
  <2> QED BY <2>1, <2>4, <2>5, MovesOn
<1>2. CASE ~Live(c)
  <2>1. Without(c, {"running"})
    BY <1>2 DEF Live, At, Without
  <2>2. LastRead(c) = [c EXCEPT !.publishing = "read"]
    BY <1>2 DEF LastRead
  <2> QED BY <1>0, <2>1, <2>2 DEF Good, Typed, Fields, SeatsLate, WindsDown, RunsRight, TellsRight, Without, Moves
<1> QED BY <1>1, <1>2

(* Publishing an outcome (publish), which may have to halt the child before it is told. *)
LEMMA PublishGood ==
    ASSUME NEW c, Good(c)
    PROVE  Good(Publish(c)) /\ Moves(c, Publish(c))
<1> DEFINE sure == [c EXCEPT !.grace = FALSE, !.clock = FALSE]
<1>1. Good(sure) /\ Moves(c, sure)
  BY DEF Good, Typed, Fields, SeatsLate, Bare, WindsDown, RunsRight, TellsRight, Without, Moves
<1>2. CASE c.accepted = "none" \/ c.ended \/ c.publishing # "no"
  BY <1>2 DEF Publish, Moves
<1>3. CASE ~(c.accepted = "none" \/ c.ended \/ c.publishing # "no")
  <2>1. sure.accepted = c.accepted /\ sure.refuted = c.refuted
    BY DEF Good, Typed, Fields
  <2>2. Publish(c) = IF c.refuted \/ c.accepted # "done" THEN Tell(sure) ELSE LastRead(sure)
    BY <1>3 DEF Publish
  <2> HIDE DEF sure
  <2>3. Good(Publish(c)) /\ Moves(sure, Publish(c))
    BY <1>1, <1>3, <2>1, <2>2, TellGood, LastReadGood
  <2> QED BY <1>1, <2>3, MovesOn
<1> QED BY <1>2, <1>3

(* Ending a child from outside (end): its verdict is taken unless it has one. *)
LEMMA EndGood ==
    ASSUME NEW c, Good(c), c.life \in {"seated", "unseated"}, NEW status \in {"blocked", "failed"}
    PROVE  Good(End(c, status)) /\ Moves(c, End(c, status))
<1> DEFINE taken == [c EXCEPT !.accepted = status]
<1>1. CASE c.ended \/ c.accepted # "none"
  BY <1>1 DEF End, Moves
<1>2. CASE ~(c.ended \/ c.accepted # "none")
  <2>1. Good(taken) /\ Moves(c, taken)
    BY <1>2 DEF Good, Typed, Fields, SeatsLate, Bare, WindsDown, RunsRight, TellsRight, Without, Moves
  <2>2. End(c, status) = Publish(taken)
    BY <1>2 DEF End
  <2> HIDE DEF taken
  <2> QED BY <2>1, <2>2, PublishGood, MovesOn
<1> QED BY <1>1, <1>2

(* The check a settled turn makes of the child (check): it waits, asks, gives up or goes on. *)
LEMMA CheckedGood ==
    ASSUME NEW c, Good(c)
    PROVE  Good(Checked(c)) /\ Moves(c, Checked(c))
<1> DEFINE stopped == IF c.halting # "none" THEN c.halting ELSE IF c.asking THEN "none" ELSE c.stoppedFor
           still == ~Live(c) /\ ~PlannerBusy(c)
<1>1. Moves(c, c)
  BY DEF Moves
<1>2. stopped # "none" => stopped \in {"blocked", "failed"}
  BY DEF Good, Typed
<1>3. CASE c.life # "seated" \/ c.ended \/ c.wind # "no"
  BY <1>1, <1>3 DEF Checked
<1>4. CASE ~(c.life # "seated" \/ c.ended \/ c.wind # "no") /\ c.accepted # "none"
  BY <1>1, <1>4, PublishGood DEF Checked
<1>5. ASSUME ~(c.life # "seated" \/ c.ended \/ c.wind # "no"), c.accepted = "none" PROVE Good(Checked(c)) /\ Moves(c, Checked(c))
  <2>1. c.life = "seated" /\ c.wind = "no"
    BY <1>5
  <2>2. CASE stopped # "none"
    <3>1. Checked(c) = IF still THEN End(c, stopped) ELSE HaltFor(c, stopped)
      BY <1>5, <2>2 DEF Checked
    <3> HIDE DEF stopped, still
    <3> QED BY <1>2, <2>1, <2>2, <3>1, EndGood, HaltForGood
  <2>3. CASE stopped = "none" /\ c.withdrawn
    <3>1. Checked(c) = IF still THEN End(c, "blocked") ELSE c
      BY <1>5, <2>3 DEF Checked
    <3> QED BY <1>1, <2>1, <3>1, EndGood
  <2>4. CASE stopped = "none" /\ ~c.withdrawn /\ (~still \/ c.wakeOwed \/ c.asking)
    BY <1>1, <1>5, <2>4 DEF Checked
  <2>5. CASE stopped = "none" /\ ~c.withdrawn /\ ~(~still \/ c.wakeOwed \/ c.asking)
    <3> DEFINE told == [c EXCEPT !.reminded = TRUE]
    <3>1. Checked(c) = IF RefusedStart(c) THEN HaltFor(c, "blocked")
                       ELSE IF ~c.reminded THEN Opened(told, "own") ELSE End(c, "failed")
      BY <1>5, <2>5 DEF Checked
    <3>2. Good(told) /\ Moves(c, told) /\ told.turns = <<>> /\ told.life = "seated" /\ told.wind = "no"
      BY <2>1, <2>5 DEF Good, Typed, Fields, SeatsLate, WindsDown, RunsRight, TellsRight, Without, Moves, PlannerBusy
    <3>3. Len(told.turns) < MaxTurns
      BY <3>2, BoundAssumption
    <3> HIDE DEF told
    <3>4. Good(Opened(told, "own")) /\ Moves(told, Opened(told, "own"))
      BY <3>2, <3>3, OpenedGood DEF Turn
    <3> QED BY <2>1, <3>1, <3>2, <3>4, MovesOn, HaltForGood, EndGood
  <2> QED BY <2>2, <2>3, <2>4, <2>5
<1> QED BY <1>3, <1>4, <1>5

(* A planner turn of the child ends. *)
LEMMA TurnOverGood ==
    ASSUME NEW c, Good(c), PlannerBusy(c)
    PROVE  Good(TurnOver(c)) /\ Moves(c, TurnOver(c)) /\ c.life = "seated" /\ c.wind \in {"no", "halt"}
<1>1. c.life = "seated" /\ c.wind \in {"no", "halt"}
  BY DEF Good, Typed, SeatsLate, Bare, WindsDown, PlannerBusy
<1>2. Tail(c.turns) \in Seq(Turn) /\ Len(Tail(c.turns)) = Len(c.turns) - 1 /\ Len(c.turns) \in Nat
  BY DEF Good, Typed, PlannerBusy
<1>3. Len(Tail(c.turns)) <= MaxTurns
  BY <1>2, BoundAssumption DEF Good, RunsRight
<1> QED BY <1>1, <1>2, <1>3 DEF TurnOver, Good, Typed, Fields, SeatsLate, WindsDown, RunsRight, TellsRight, Without, Moves

(* A planner turn that heard its parent, answered or not. *)
LEMMA HeardGood ==
    ASSUME NEW c, Good(c), c.life = "seated", ~c.question, Len(c.turns) < MaxTurns, NEW answered \in BOOLEAN
    PROVE  Good(Heard(c, answered)) /\ Moves(c, Heard(c, answered))
<1>1. CASE answered /\ ~c.ended /\ c.wind = "no"
  <2> DEFINE d == [c EXCEPT !.asking = FALSE]
  <2>1. Good(d) /\ Moves(c, d) /\ d.life = "seated" /\ d.wind = "no" /\ d.turns = c.turns
    BY <1>1 DEF Good, Typed, Fields, SeatsLate, WindsDown, RunsRight, TellsRight, Without, Moves
  <2>2. Heard(c, answered) = Opened(d, "own")
    BY <1>1 DEF Heard
  <2> HIDE DEF d
  <2> QED BY <2>1, <2>2, OpenedGood, MovesOn DEF Turn
<1>2. CASE ~(answered /\ ~c.ended /\ c.wind = "no")
  <2>1. Heard(c, answered) = [c EXCEPT !.asking = FALSE, !.checkQueued = TRUE]
    BY <1>2 DEF Heard
  <2> QED BY <2>1 DEF Good, Typed, Fields, SeatsLate, Bare, WindsDown, RunsRight, TellsRight, Without, Moves
<1> QED BY <1>1, <1>2

\* A Stop closes what waited on the attempt, and begins its winding down.
LEMMA StoppedGood ==
    ASSUME NEW c, Good(c), c.life # "none", c.wind = "no"
    PROVE  /\ Good(Stopped(c))
           /\ Stopped(c).wind # "no" /\ Stopped(c).told = c.told
           /\ Stopped(c).life = IF c.life = "waiting" THEN "unseated" ELSE c.life
           /\ \A i \in Item : Stopped(c).item[i] = c.item[i] \/ (c.item[i] = "running" /\ Stopped(c).item[i] = "stopping")
<1>1. CASE c.life = "waiting"
  <2>1. Stopped(c) = [c EXCEPT !.life = "unseated", !.wind = "gone"]
    BY <1>1 DEF Stopped
  <2> QED BY <1>1, <2>1 DEF Good, Typed, Fields, SeatsLate, Bare, WindsDown, RunsRight, TellsRight, Without
<1> DEFINE down == [c EXCEPT !.grace = FALSE, !.clock = FALSE, !.question = FALSE, !.asking = FALSE]
<1>2. /\ Good(down) /\ Moves(c, down) /\ down.told = c.told
      /\ ~down.grace /\ ~down.clock /\ ~down.question /\ ~down.asking
  BY DEF Good, Typed, Fields, SeatsLate, Bare, WindsDown, RunsRight, TellsRight, Without, Moves
<1>3. CASE c.life = "seated"
  <2>1. Stopped(c) = [Halted(down) EXCEPT !.wind = "halt"]
    BY <1>3 DEF Stopped
  <2> HIDE DEF down
  <2> DEFINE h == Halted(down)
  <2>2. /\ Good(h) /\ Moves(down, h) /\ Without(h, {"running"}) /\ ~h.scheduling
        /\ h.life = "seated" /\ h.wind = "no"
    BY <1>2, <1>3, HaltedGood DEF Moves
  <2>3. ~h.grace /\ ~h.clock /\ ~h.question /\ ~h.asking /\ h.told = c.told
    BY <1>2 DEF Halted, Good, Typed, Fields
  <2>4. Moves(c, h)
    BY <1>2, <2>2, MovesOn
  <2> HIDE DEF h
  <2>5. Stopped(c) = [h EXCEPT !.wind = "halt"]
    BY <2>1 DEF h
  <2>6. Good(Stopped(c))
    BY <2>2, <2>3, <2>5 DEF Good, Typed, Fields, SeatsLate, WindsDown, RunsRight, TellsRight, Without
  <2> QED BY <1>3, <2>2, <2>3, <2>4, <2>5, <2>6 DEF Good, Typed, Fields, Moves
<1>4. CASE c.life \notin {"waiting", "seated"}
  <2>1. Stopped(c) = [down EXCEPT !.wind = "seat"]
    BY <1>4 DEF Stopped
  <2>2. down.life = c.life /\ down.wind = "no" /\ Bare(down)
    BY <1>2, <1>4 DEF Good, SeatsLate, Moves
  <2> HIDE DEF down
  <2>3. Good(Stopped(c))
    BY <1>2, <1>4, <2>1, <2>2 DEF Good, Typed, Fields, SeatsLate, Bare, WindsDown, RunsRight, TellsRight, Without
  <2> QED BY <1>2, <1>4, <2>1, <2>2, <2>3 DEF Good, Typed, Fields, Moves
<1> QED BY <1>1, <1>3, <1>4

-----------------------------------------------------------------------------
(* What a step keeps. *)

\* The branch is read for the last time, or was.
Read(c) == c.accepted = "done" /\ (c.publishing \in {"read", "told"} \/ c.told = "done")

\* What a step may do to one child: it tells once and only of a live attempt, and behind the last read
\* no item starts, passes or is taken back.
Keeps(c, d) ==
    /\ d.told # c.told => c.told = "none" /\ c.wind = "no" /\ c.life # "none"
    /\ Read(c) => \A i \in Item :
          /\ d.item[i] \in {"running", "done"} => d.item[i] = c.item[i]
          /\ c.item[i] = "done" => d.item[i] = "done"

(* What a call may change keeps the verdict, the outcome told and the order of the last read. *)
LEMMA MovesKeeps ==
    ASSUME NEW c, NEW d, Good(c), Moves(c, d), c.life # "none"
    PROVE  Keeps(c, d)
BY DEF Moves, Keeps

StepKeeps == ChildInv' /\ \A b \in Attempt : Keeps(child[b], child'[b])

\* A step changes one child.
LEMMA OneChanges ==
    ASSUME ChildInv, NEW a \in Attempt, NEW d, Good(d), Keeps(child[a], d), Becomes(a, d), OneLive'
    PROVE  StepKeeps
<1>1. DOMAIN child' = Attempt /\ child'[a] = d /\ \A b \in Attempt \ {a} : child'[b] = child[b]
  BY DEF ChildInv, Becomes
<1>2. \A b \in Attempt : Good(child[b])
  BY DEF ChildInv
<1>3. \A b \in Attempt : Keeps(child[b], child'[b])
  BY <1>1 DEF Keeps
<1>4. ASSUME NEW b \in Attempt PROVE Good(child'[b])
  BY <1>1, <1>2
<1>5. \A b \in Attempt : Good(child[b])'
  BY <1>4 DEF Good, Typed, SeatsLate, Bare, WindsDown, RunsRight, TellsRight, Without
<1> QED BY <1>1, <1>3, <1>5 DEF StepKeeps, ChildInv

\* Most steps leave how far the child is.
Inner(a, d) ==
    /\ Good(d) /\ Keeps(child[a], d) /\ d.life = child[a].life /\ d.wind = child[a].wind
    /\ Becomes(a, d) /\ cur' = cur

(* A step of one live attempt's child leaves every other attempt as it was, and the live one alone. *)
LEMMA InnerKeeps ==
    ASSUME ChildInv, NEW a \in Attempt, NEW d, Inner(a, d)
    PROVE  StepKeeps
<1>1. \A b \in Attempt : child'[b].life = child[b].life /\ child'[b].wind = child[b].wind
  BY DEF Inner, Becomes, ChildInv
<1>2. OneLive'
  BY <1>1 DEF OneLive, Inner, ChildInv
<1> QED BY <1>2, OneChanges DEF Inner

\* A handler's step on a child that was started.
LEMMA HandlerKeeps ==
    ASSUME ChildInv, NEW a \in Attempt, NEW d, child[a].life # "none",
           Good(d), Moves(child[a], d), Becomes(a, d), cur' = cur
    PROVE  StepKeeps
<1>1. Good(child[a])
  BY DEF ChildInv
<1>2. Inner(a, d)
  BY <1>1, MovesKeeps DEF Inner, Moves
<1> QED BY <1>2, InnerKeeps

\* The steps of a child's planner.
LEMMA PlannerKeeps ==
    ASSUME ChildInv, NEW a \in Attempt,
           \/ CallsDone(a) \/ CallRead(a) \/ GivesUp(a) \/ CallTaken(a) \/ Asks(a) \/ Answered(a)
           \/ TurnEnds(a) \/ TurnFails(a) \/ Wakes(a) \/ WakeFails(a) \/ PersonSpeaks(a) \/ ParentSpeaks(a)
    PROVE  StepKeeps
<1> DEFINE c == child[a]
<1>1. Good(c)
  BY DEF ChildInv
<1> USE <1>1
<1>2. CASE CallsDone(a)
  <2> DEFINE d == [c EXCEPT !.call = "reading"]
  <2>1. c.life = "seated" /\ c.wind = "no" /\ Becomes(a, d) /\ cur' = cur
    BY <1>2 DEF CallsDone, InTurn, NodeRefusal, UnderStop
  <2>2. Good(d) /\ Moves(c, d)
    BY <2>1 DEF Good, Typed, Fields, SeatsLate, WindsDown, RunsRight, TellsRight, Without, Moves
  <2> QED BY <2>1, <2>2, HandlerKeeps
<1>3. CASE CallRead(a)
  <2> DEFINE d == [c EXCEPT !.call = "done", !.refuted = Touched(c)]
  <2>1. c.call = "reading" /\ Becomes(a, d) /\ cur' = cur
    BY <1>3 DEF CallRead
  <2>2. c.life = "seated" /\ c.wind # "seat" /\ Touched(c) \in BOOLEAN
    BY <2>1 DEF Good, SeatsLate, Bare, Touched
  <2>3. Good(d) /\ Moves(c, d)
    BY <2>2 DEF Good, Typed, Fields, SeatsLate, WindsDown, RunsRight, TellsRight, Without, Moves
  <2> QED BY <2>1, <2>2, <2>3, HandlerKeeps
<1>4. CASE GivesUp(a)
  <2> DEFINE d == [c EXCEPT !.call = "failed", !.refuted = FALSE]
  <2>1. c.life = "seated" /\ c.wind = "no" /\ Becomes(a, d) /\ cur' = cur
    BY <1>4 DEF GivesUp, InTurn, NodeRefusal, UnderStop
  <2>2. Good(d) /\ Moves(c, d)
    BY <2>1 DEF Good, Typed, Fields, SeatsLate, WindsDown, RunsRight, TellsRight, Without, Moves
  <2> QED BY <2>1, <2>2, HandlerKeeps
<1>5. CASE CallTaken(a)
  <2>1. c.call \in {"done", "failed"} /\ cur' = cur
    BY <1>5 DEF CallTaken
  <2>2. c.life = "seated" /\ c.wind # "seat"
    BY <2>1 DEF Good, SeatsLate, Bare
  <2>3. CASE c.ended \/ c.accepted # "none" \/ c.wind # "no"
    <3> DEFINE d == [c EXCEPT !.call = "none"]
    <3>1. Becomes(a, d)
      BY <1>5, <2>3 DEF CallTaken
    <3>2. Good(d) /\ Moves(c, d)
      BY <2>2 DEF Good, Typed, Fields, SeatsLate, WindsDown, RunsRight, TellsRight, Without, Moves
    <3> QED BY <2>1, <2>2, <3>1, <3>2, HandlerKeeps
  <2>4. CASE ~(c.ended \/ c.accepted # "none" \/ c.wind # "no")
    <3> DEFINE d == [c EXCEPT !.call = "none", !.accepted = c.call, !.grace = TRUE]
    <3>1. Becomes(a, d)
      BY <1>5, <2>4 DEF CallTaken
    <3>2. Good(d) /\ Moves(c, d)
      BY <2>1, <2>2, <2>4 DEF Good, Typed, Fields, SeatsLate, WindsDown, RunsRight, TellsRight, Without, Moves
    <3> QED BY <2>1, <2>2, <3>1, <3>2, HandlerKeeps
  <2> QED BY <2>3, <2>4
<1>6. CASE Asks(a)
  <2> DEFINE d == [c EXCEPT !.asking = TRUE, !.question = TRUE]
  <2>1. c.life = "seated" /\ c.wind = "no" /\ Becomes(a, d) /\ cur' = cur
    BY <1>6 DEF Asks, InTurn, NodeRefusal, UnderStop
  <2>2. Good(d) /\ Moves(c, d)
    BY <2>1 DEF Good, Typed, Fields, SeatsLate, WindsDown, RunsRight, TellsRight, Without, Moves
  <2> QED BY <2>1, <2>2, HandlerKeeps
<1>7. CASE Answered(a)
  <2> DEFINE d == [c EXCEPT !.question = FALSE]
  <2>1. c.question /\ Len(c.turns) < MaxTurns /\ cur' = cur
    BY <1>7 DEF Answered
  <2>2. PICK answered \in BOOLEAN : Becomes(a, Heard(d, answered))
    BY <1>7 DEF Answered
  <2>3. c.life = "seated" /\ c.wind = "no"
    BY <2>1 DEF Good, SeatsLate, Bare, WindsDown
  <2>4. Good(d) /\ Moves(c, d) /\ d.life = "seated" /\ ~d.question /\ d.turns = c.turns
    BY <2>3 DEF Good, Typed, Fields, SeatsLate, WindsDown, RunsRight, TellsRight, Without, Moves
  <2> HIDE DEF d
  <2>5. Good(Heard(d, answered)) /\ Moves(c, Heard(d, answered))
    BY <2>1, <2>4, HeardGood, MovesOn
  <2> QED BY <2>1, <2>2, <2>3, <2>5, HandlerKeeps
<1>8. CASE TurnEnds(a)
  <2>1. PlannerBusy(c) /\ Becomes(a, TurnOver(c)) /\ cur' = cur
    BY <1>8 DEF TurnEnds
  <2> QED BY <2>1, TurnOverGood, HandlerKeeps
<1>9. CASE TurnFails(a)
  <2>1. PlannerBusy(c) /\ cur' = cur
    BY <1>9 DEF TurnFails
  <2>2. Good(TurnOver(c)) /\ Moves(c, TurnOver(c)) /\ c.life = "seated"
    BY <2>1, TurnOverGood
  <2>3. Becomes(a, End(TurnOver(c), "failed")) \/ Becomes(a, TurnOver(c))
    BY <1>9 DEF TurnFails
  <2>4. Good(End(TurnOver(c), "failed")) /\ Moves(c, End(TurnOver(c), "failed"))
    <3>1. TurnOver(c).life = "seated"
      BY <2>2 DEF Moves
    <3> QED BY <2>2, <3>1, EndGood, MovesOn
  <2> QED BY <2>1, <2>2, <2>3, <2>4, HandlerKeeps
<1>10. CASE Wakes(a)
  <2> DEFINE d == [c EXCEPT !.wakeOwed = FALSE]
  <2>1. c.life = "seated" /\ c.wind = "no" /\ c.turns = <<>> /\ Becomes(a, Opened(d, "wake")) /\ cur' = cur
    BY <1>10 DEF Wakes, NodeRefusal, UnderStop, PlannerBusy
  <2>2. d.life = c.life /\ d.wind = c.wind /\ d.turns = c.turns
    BY DEF Good, Typed, Fields
  <2>3. Good(d) /\ Moves(c, d)
    <3>1. c.life = "seated" /\ c.wind = "no"
      BY <2>1
    <3> QED BY <3>1 DEF Good, Typed, Fields, SeatsLate, WindsDown, RunsRight, TellsRight, Without, Moves
  <2>4. d.life = "seated" /\ d.wind = "no" /\ Len(d.turns) < MaxTurns
    BY <2>1, <2>2, BoundAssumption
  <2> HIDE DEF d
  <2>5. Good(Opened(d, "wake")) /\ Moves(c, Opened(d, "wake"))
    BY <2>3, <2>4, OpenedGood, MovesOn DEF Turn
  <2> QED BY <2>1, <2>5, HandlerKeeps
<1>11. CASE WakeFails(a)
  <2> DEFINE t == TurnOver(c)
             d == [t EXCEPT !.stoppedFor = "failed", !.wakeOwed = FALSE]
  <2>1. PlannerBusy(c) /\ Becomes(a, d) /\ cur' = cur
    BY <1>11 DEF WakeFails
  <2>2. Good(t) /\ Moves(c, t) /\ c.life = "seated" /\ c.wind \in {"no", "halt"}
    BY <2>1, TurnOverGood
  <2>3. t.life = "seated" /\ t.wind # "seat"
    BY <2>2 DEF Moves
  <2> HIDE DEF t
  <2>4. Good(d) /\ Moves(t, d)
    BY <2>2, <2>3 DEF Good, Typed, Fields, SeatsLate, WindsDown, RunsRight, TellsRight, Without, Moves
  <2>5. Moves(c, d)
    BY <2>2, <2>4, MovesOn
  <2> QED BY <2>1, <2>2, <2>4, <2>5, HandlerKeeps
<1>12. CASE PersonSpeaks(a)
  <2>1. c.life = "seated" /\ c.wind = "no" /\ Len(c.turns) < MaxTurns /\ Becomes(a, Opened(c, "person")) /\ cur' = cur
    BY <1>12 DEF PersonSpeaks, NodeRefusal, UnderStop
  <2> QED BY <2>1, OpenedGood, HandlerKeeps DEF Turn
<1>13. CASE ParentSpeaks(a)
  <2>1. c.life = "seated" /\ Len(c.turns) < MaxTurns /\ Becomes(a, Opened(c, "own")) /\ cur' = cur /\ cur = a
    BY <1>13 DEF ParentSpeaks
  <2>2. c.wind = "no"
    BY <2>1 DEF ChildInv, OneLive
  <2> QED BY <2>1, <2>2, OpenedGood, HandlerKeeps DEF Turn
<1> QED BY <1>2, <1>3, <1>4, <1>5, <1>6, <1>7, <1>8, <1>9, <1>10, <1>11, <1>12, <1>13

\* The steps of a child's run. One that changes an item finds no last read begun.
LEMMA RunKeeps ==
    ASSUME ChildInv, NEW a \in Attempt,
           \/ \E i \in Item : Plans(a, i) \/ Starts(a, i) \/ Passes(a, i) \/ Fails(a, i) \/ RunnerGone(a, i)
           \/ TickEnds(a) \/ MergeEnds(a) \/ SpentOut(a) \/ Withdrawn(a)
    PROVE  StepKeeps
<1> DEFINE c == child[a]
<1>1. Good(c)
  BY DEF ChildInv
<1> USE <1>1
<1>2. ASSUME NEW i \in Item, Plans(a, i) PROVE StepKeeps
  <2> DEFINE items == [c.item EXCEPT ![i] = "ready"]
             d == [c EXCEPT !.item = items, !.scheduling = TRUE, !.tick = TRUE, !.checkQueued = TRUE]
  <2>1. c.life = "seated" /\ c.wind = "no" /\ c.accepted = "none" /\ c.item[i] \in {"absent", "failed"}
    BY <1>2 DEF Plans, InTurn, NodeRefusal, UnderStop, StartRefusal
  <2>2. Becomes(a, d) /\ cur' = cur
    BY <1>2 DEF Plans
  <2>3. items \in [Item -> ItemState] /\ items[i] = "ready" /\ \A j \in Item \ {i} : items[j] = c.item[j]
    BY DEF Good, Typed, ItemState
  <2> HIDE DEF items
  <2>4. Good(d) /\ Keeps(c, d) /\ d.life = c.life /\ d.wind = c.wind
    BY <2>1, <2>3 DEF Good, Typed, Fields, SeatsLate, WindsDown, RunsRight, TellsRight, Without, Keeps, Read
  <2> QED BY <2>2, <2>4, InnerKeeps DEF Inner
<1>3. ASSUME NEW i \in Item, Starts(a, i) PROVE StepKeeps
  <2> DEFINE items == [c.item EXCEPT ![i] = "running"]
             d == [c EXCEPT !.item = items, !.checkQueued = TRUE]
  <2>1. c.scheduling /\ c.wind = "no" /\ c.accepted = "none" /\ c.item[i] = "ready"
    BY <1>3 DEF Starts, NodeRefusal, UnderStop, StartRefusal
  <2>2. Becomes(a, d) /\ cur' = cur
    BY <1>3 DEF Starts
  <2>3. items \in [Item -> ItemState] /\ items[i] = "running" /\ \A j \in Item \ {i} : items[j] = c.item[j]
    BY DEF Good, Typed, ItemState
  <2> HIDE DEF items
  <2>4. c.life = "seated"
    BY <2>1 DEF Good, SeatsLate, Bare
  <2>5. Good(d)
    <3>1. Typed(d)
      BY <2>3 DEF Good, Typed, Fields
    <3>2. SeatsLate(d) /\ WindsDown(d)
      BY <2>1, <2>4 DEF Good, Typed, Fields, SeatsLate, WindsDown
    <3>3. RunsRight(d) /\ TellsRight(d)
      BY <2>1, <2>3 DEF Good, Typed, Fields, RunsRight, TellsRight
    <3> QED BY <3>1, <3>2, <3>3 DEF Good
  <2>6. d.told = c.told /\ ~Read(c)
    BY <2>1 DEF Good, Typed, Fields, Read
  <2>7. Keeps(c, d) /\ d.life = c.life /\ d.wind = c.wind
    BY <2>6 DEF Good, Typed, Fields, Keeps
  <2> QED BY <2>2, <2>5, <2>7, InnerKeeps DEF Inner
<1>4. ASSUME NEW i \in Item, NEW state \in {"done", "failed"}, NEW none \in BOOLEAN, NEW failed \in BOOLEAN,
             c.item[i] = "running", cur' = cur,
             Becomes(a, Settled([c EXCEPT !.item[i] = state, !.noRoom = none], failed))
      PROVE  StepKeeps
  <2> DEFINE items == [c.item EXCEPT ![i] = state]
             owed == c.wakeOwed \/ (failed /\ c.scheduling /\ c.stoppedFor # "failed")
             d == [c EXCEPT !.item = items, !.noRoom = none, !.wakeOwed = owed, !.tick = TRUE, !.checkQueued = TRUE]
  <2>1. Becomes(a, d)
    <3>1. Settled([c EXCEPT !.item[i] = state, !.noRoom = none], failed) = d
      BY DEF Settled, Good, Typed, Fields
    <3> QED BY <1>4, <3>1
  <2>2. items \in [Item -> ItemState] /\ items[i] = state /\ \A j \in Item \ {i} : items[j] = c.item[j]
    BY DEF Good, Typed, ItemState
  <2>3. owed \in BOOLEAN
    BY DEF Good, Typed
  <2>4. c.life = "seated" /\ c.wind \in {"no", "seat"} /\ ~Read(c)
    BY <1>4 DEF Good, Typed, SeatsLate, Bare, WindsDown, TellsRight, Read, Without
  <2>5. c.wind = "no" /\ ~(c.accepted = "done" /\ (c.publishing = "halt"))
    BY <1>4, <2>4 DEF Good, SeatsLate, Bare, TellsRight, Without
  <2> HIDE DEF items, owed
  <2>6. Good(d) /\ Keeps(c, d) /\ d.life = c.life /\ d.wind = c.wind
    BY <1>4, <2>2, <2>3, <2>4, <2>5 DEF Good, Typed, Fields, SeatsLate, WindsDown, RunsRight, TellsRight, Without, Keeps, Read
  <2> QED BY <1>4, <2>1, <2>6, InnerKeeps DEF Inner
<1>5. ASSUME NEW i \in Item, Passes(a, i) PROVE StepKeeps
  <2>1. c.item[i] = "running" /\ cur' = cur
    BY <1>5 DEF Passes
  <2>2. PICK none \in BOOLEAN : Becomes(a, Settled([c EXCEPT !.item[i] = "done", !.noRoom = none], FALSE))
    BY <1>5 DEF Passes, Good, Typed
  <2> QED BY <1>4, <2>1, <2>2
<1>6. ASSUME NEW i \in Item, Fails(a, i) PROVE StepKeeps
  <2>1. c.item[i] = "running" /\ cur' = cur
    BY <1>6 DEF Fails
  <2>2. [c EXCEPT !.item[i] = "failed"] = [c EXCEPT !.item[i] = "failed", !.noRoom = c.noRoom]
    BY DEF Good, Typed, Fields
  <2>3. c.noRoom \in BOOLEAN /\ Becomes(a, Settled([c EXCEPT !.item[i] = "failed", !.noRoom = c.noRoom], TRUE))
    BY <1>6, <2>2 DEF Fails, Good, Typed
  <2> QED BY <1>4, <2>1, <2>3
<1>7. ASSUME NEW i \in Item, RunnerGone(a, i) PROVE StepKeeps
  <2> DEFINE items == [c.item EXCEPT ![i] = "ready"]
             d == [c EXCEPT !.item = items]
  <2>1. c.item[i] = "stopping" /\ Becomes(a, d) /\ cur' = cur
    BY <1>7 DEF RunnerGone
  <2>2. items \in [Item -> ItemState] /\ items[i] = "ready" /\ \A j \in Item \ {i} : items[j] = c.item[j]
    BY DEF Good, Typed, ItemState
  <2>3. c.life = "seated" /\ c.wind # "seat"
    BY <2>1 DEF Good, SeatsLate, Bare
  <2> HIDE DEF items
  <2>4. Good(d) /\ Keeps(c, d) /\ d.life = c.life /\ d.wind = c.wind
    BY <2>1, <2>2, <2>3 DEF Good, Typed, Fields, SeatsLate, WindsDown, RunsRight, TellsRight, Without, Keeps, Read
  <2> QED BY <2>1, <2>4, InnerKeeps DEF Inner
<1>8. CASE TickEnds(a)
  <2> DEFINE over == c.scheduling /\ At(c, {"ready", "running"}) = {}
             merge == over /\ ~c.merging /\ c.branch # At(c, {"done"})
             news == (over /\ ~merge) \/ (RefusedStart(c) /\ ~c.toldRefused)
             merging == c.merging \/ merge
             scheduling == c.scheduling /\ ~over
             refused == c.toldRefused \/ RefusedStart(c)
             owed == c.wakeOwed \/ (news /\ c.stoppedFor # "failed")
             d == [c EXCEPT !.tick = FALSE, !.merging = merging, !.checkQueued = TRUE,
                            !.scheduling = scheduling, !.toldRefused = refused, !.wakeOwed = owed]
  <2>1. c.tick /\ Becomes(a, d) /\ cur' = cur
    BY <1>8 DEF TickEnds
  <2>2. {merging, scheduling, refused, owed} \subseteq BOOLEAN
    BY DEF Good, Typed, RefusedStart
  <2>3. (c.wind = "gone" => ~c.tick) /\ (scheduling => c.scheduling)
    BY DEF Good, WindsDown
  <2>4. c.life = "seated" /\ c.wind \notin {"seat", "gone"}
    BY <2>1, <2>3 DEF Good, SeatsLate, Bare
  <2> HIDE DEF merging, scheduling, refused, owed
  <2>5. Good(d) /\ Moves(c, d)
    BY <2>2, <2>3, <2>4 DEF Good, Typed, Fields, SeatsLate, WindsDown, RunsRight, TellsRight, Without, Moves
  <2> QED BY <2>1, <2>4, <2>5, HandlerKeeps
<1>9. CASE MergeEnds(a)
  <2> DEFINE landed == At(c, {"done"})
             owed == c.wakeOwed \/ c.stoppedFor # "failed"
             d == [c EXCEPT !.merging = FALSE, !.branch = landed, !.checkQueued = TRUE, !.wakeOwed = owed]
  <2>1. c.merging /\ Becomes(a, d) /\ cur' = cur
    BY <1>9 DEF MergeEnds
  <2>2. landed \in SUBSET Item /\ (\A i \in landed : c.item[i] = "done") /\ owed \in BOOLEAN
    BY DEF At, Good, Typed
  <2>3. c.life = "seated" /\ c.wind # "seat"
    BY <2>1 DEF Good, SeatsLate, Bare
  <2> HIDE DEF landed, owed
  <2>4. Good(d) /\ Moves(c, d)
    BY <2>2, <2>3 DEF Good, Typed, Fields, SeatsLate, WindsDown, RunsRight, TellsRight, Without, Moves
  <2> QED BY <2>1, <2>3, <2>4, HandlerKeeps
<1>10. CASE SpentOut(a)
  <2> DEFINE h == Halted(c)
             d == [h EXCEPT !.stoppedFor = "blocked"]
  <2>1. c.life = "seated" /\ Becomes(a, d) /\ cur' = cur
    BY <1>10 DEF SpentOut
  <2>2. Good(h) /\ Moves(c, h)
    BY <2>1, HaltedGood
  <2>3. h.life = "seated"
    BY <2>1, <2>2 DEF Moves
  <2> HIDE DEF h
  <2>4. Bare(h) => Bare(d)
    BY <2>2 DEF Good, Typed, Fields, Bare
  <2>5. Good(d) /\ Moves(h, d)
    BY <2>2, <2>3, <2>4 DEF Good, Typed, Fields, SeatsLate, WindsDown, RunsRight, TellsRight, Without, Moves
  <2> QED BY <2>1, <2>2, <2>5, MovesOn, HandlerKeeps
<1>11. CASE Withdrawn(a)
  <2> DEFINE d == [c EXCEPT !.withdrawn = TRUE]
  <2>1. c.life = "seated" /\ Becomes(a, d) /\ cur' = cur
    BY <1>11 DEF Withdrawn
  <2>2. Bare(c) => Bare(d)
    BY DEF Good, Typed, Fields, Bare
  <2>3. Good(d) /\ Moves(c, d)
    BY <2>1, <2>2 DEF Good, Typed, Fields, SeatsLate, WindsDown, RunsRight, TellsRight, Without, Moves
  <2> QED BY <2>1, <2>3, HandlerKeeps
<1> QED BY <1>2, <1>3, <1>5, <1>6, <1>7, <1>8, <1>9, <1>10, <1>11

\* The steps of the attempt's own callbacks.
LEMMA CallbackKeeps ==
    ASSUME ChildInv, NEW a \in Attempt,
           \/ Checks(a) \/ ClockRuns(a) \/ HaltOver(a) \/ GraceEnds(a)
           \/ LastReadHalted(a) \/ LastReadReads(a) \/ Published(a)
    PROVE  StepKeeps
<1> DEFINE c == child[a]
<1>1. Good(c)
  BY DEF ChildInv
<1> USE <1>1
<1>2. CASE Checks(a)
  <2> DEFINE d == [c EXCEPT !.checkQueued = FALSE]
  <2>1. c.checkQueued /\ Becomes(a, Checked(d)) /\ cur' = cur
    BY <1>2 DEF Checks
  <2>2. c.life # "none"
    BY <2>1 DEF Good, SeatsLate
  <2>3. Bare(c) => Bare(d)
    BY DEF Good, Typed, Fields, Bare
  <2>4. Good(d) /\ Moves(c, d)
    BY <2>3 DEF Good, Typed, Fields, SeatsLate, WindsDown, RunsRight, TellsRight, Without, Moves
  <2> HIDE DEF d
  <2>5. Good(Checked(d)) /\ Moves(c, Checked(d))
    BY <2>4, CheckedGood, MovesOn
  <2> QED BY <2>1, <2>2, <2>5, HandlerKeeps
<1>3. CASE ClockRuns(a)
  <2> DEFINE d == [c EXCEPT !.clock = FALSE]
  <2>1. c.clock /\ Becomes(a, HaltFor(d, "blocked")) /\ cur' = cur
    BY <1>3 DEF ClockRuns
  <2>2. c.life = "seated" /\ c.wind # "seat"
    BY <2>1 DEF Good, SeatsLate, Bare
  <2>3. Good(d) /\ Moves(c, d)
    BY <2>2 DEF Good, Typed, Fields, SeatsLate, WindsDown, RunsRight, TellsRight, Without, Moves
  <2>4. d.life = "seated" /\ d.wind # "seat"
    BY <2>2, <2>3 DEF Moves
  <2> HIDE DEF d
  <2>5. Good(HaltFor(d, "blocked")) /\ Moves(c, HaltFor(d, "blocked"))
    BY <2>3, <2>4, HaltForGood, MovesOn
  <2> QED BY <2>1, <2>2, <2>5, HandlerKeeps
<1>4. CASE HaltOver(a)
  <2> DEFINE d == [c EXCEPT !.haltOwed = FALSE, !.checkQueued = TRUE]
  <2>1. c.haltOwed /\ Becomes(a, d) /\ cur' = cur
    BY <1>4 DEF HaltOver
  <2>2. c.life = "seated" /\ c.wind # "seat"
    BY <2>1 DEF Good, SeatsLate, Bare
  <2>3. Good(d) /\ Moves(c, d)
    BY <2>2 DEF Good, Typed, Fields, SeatsLate, WindsDown, RunsRight, TellsRight, Without, Moves
  <2> QED BY <2>1, <2>2, <2>3, HandlerKeeps
<1>5. CASE GraceEnds(a)
  <2> DEFINE d == [c EXCEPT !.grace = FALSE]
  <2>1. c.grace /\ Becomes(a, Publish(d)) /\ cur' = cur
    BY <1>5 DEF GraceEnds
  <2>2. c.life = "seated" /\ c.wind # "seat"
    BY <2>1 DEF Good, SeatsLate, Bare
  <2>3. Good(d) /\ Moves(c, d)
    BY <2>2 DEF Good, Typed, Fields, SeatsLate, WindsDown, RunsRight, TellsRight, Without, Moves
  <2> HIDE DEF d
  <2>4. Good(Publish(d)) /\ Moves(c, Publish(d))
    BY <2>3, PublishGood, MovesOn
  <2> QED BY <2>1, <2>2, <2>4, HandlerKeeps
<1>6. CASE LastReadHalted(a)
  <2> DEFINE d == [c EXCEPT !.publishing = "read"]
  <2>1. c.publishing = "halt" /\ Becomes(a, d) /\ cur' = cur
    BY <1>6 DEF LastReadHalted
  <2>2. c.life = "seated" /\ c.wind # "seat"
    BY <2>1 DEF Good, SeatsLate, Bare
  <2>3. Good(d) /\ Moves(c, d)
    BY <2>1, <2>2 DEF Good, Typed, Fields, SeatsLate, WindsDown, RunsRight, TellsRight, Without, Moves
  <2> QED BY <2>1, <2>2, <2>3, HandlerKeeps
<1>7. CASE LastReadReads(a)
  <2> DEFINE d == [c EXCEPT !.publishing = "told", !.refuted = Touched(c)]
  <2>1. c.publishing = "read" /\ Becomes(a, d) /\ cur' = cur
    BY <1>7 DEF LastReadReads
  <2>2. c.life = "seated" /\ c.wind # "seat" /\ Touched(c) \in BOOLEAN
    BY <2>1 DEF Good, SeatsLate, Bare, Touched
  <2>3. Good(d) /\ Moves(c, d)
    BY <2>1, <2>2 DEF Good, Typed, Fields, SeatsLate, WindsDown, RunsRight, TellsRight, Without, Moves
  <2> QED BY <2>1, <2>2, <2>3, HandlerKeeps
<1>8. CASE Published(a)
  <2> DEFINE t == Tell(c)
             d == [t EXCEPT !.publishing = "over"]
  <2>1. c.publishing = "told" /\ Becomes(a, d) /\ cur' = cur
    BY <1>8 DEF Published
  <2>2. c.life = "seated" /\ c.wind # "seat" /\ c.accepted # "none"
    BY <2>1 DEF Good, SeatsLate, Bare, TellsRight
  <2>3. Good(t) /\ Moves(c, t)
    BY <2>1, <2>2, TellGood
  <2>4. t.life = "seated" /\ t.wind # "seat" /\ t.accepted # "none"
    BY <2>2, <2>3 DEF Moves, Tell, Good, Typed, Fields
  <2> HIDE DEF t
  <2>5. Good(d) /\ Moves(t, d)
    BY <2>3, <2>4 DEF Good, Typed, Fields, SeatsLate, WindsDown, RunsRight, TellsRight, Without, Moves
  <2>6. Moves(c, d)
    BY <2>3, <2>5, MovesOn
  <2> QED BY <2>1, <2>2, <2>5, <2>6, HandlerKeeps
<1> QED BY <1>2, <1>3, <1>4, <1>5, <1>6, <1>7, <1>8

\* What each child's life and winding down is after a step that changes one of them.
LEMMA OnesLife ==
    ASSUME ChildInv, NEW a \in Attempt, NEW d, Becomes(a, d)
    PROVE  \A b \in Attempt : /\ child'[b].life = IF b = a THEN d.life ELSE child[b].life
                              /\ child'[b].wind = IF b = a THEN d.wind ELSE child[b].wind
BY DEF ChildInv, Becomes

\* How far an earlier child is lets a later one go on: a child that goes further, and does not come up, leaves
\* the order of the attempts as it was.
LEMMA GoesOn ==
    ASSUME ChildInv, NEW a \in Attempt, NEW d, Good(d), Becomes(a, d), Keeps(child[a], d), cur' = cur,
           child[a].life # "none", d.life # "none",
           d.wind = "no" <=> child[a].wind = "no", child[a].wind = "gone" => d.wind = "gone",
           d.life \in {"due", "opening", "seated"} => \A b \in Attempt : b < a => child[b].wind = "gone"
    PROVE  StepKeeps
<1>1. OneLive'
  BY OnesLife DEF OneLive, ChildInv
<1> QED BY <1>1, OneChanges

\* The steps of the parent's attempts.
LEMMA AttemptKeeps ==
    ASSUME ChildInv, NEW a \in Attempt,
           \/ StartAttempt(a) \/ Spawn(a) \/ Stop(a) \/ Verdict(a) \/ Run(a) \/ Seated(a) \/ OpenRefused(a)
           \/ WindSeats(a) \/ WindHalts(a) \/ WindCloses(a)
    PROVE  StepKeeps
<1> DEFINE c == child[a]
<1>1. Good(c)
  BY DEF ChildInv
<1> USE <1>1
<1>2. CASE StartAttempt(a)
  <2> DEFINE d == [c EXCEPT !.life = "waiting"]
  <2>1. cur = 0 /\ c.life = "none" /\ Becomes(a, d) /\ cur' = a
    BY <1>2 DEF StartAttempt
  <2>2. d.life = "waiting" /\ d.wind = "no" /\ c.wind = "no"
    BY <2>1 DEF Good, Typed, Fields, SeatsLate
  <2>3. Bare(c) => Bare(d)
    BY DEF Good, Typed, Fields, Bare
  <2>4. Good(d) /\ Keeps(c, d)
    BY <2>1, <2>3 DEF Good, Typed, Fields, SeatsLate, WindsDown, RunsRight, TellsRight, Without, Keeps, Read
  <2>5. \A b \in Attempt : ~(child[b].life # "none" /\ child[b].wind = "no")
    BY <2>1, AttemptAssumption DEF ChildInv, OneLive
  <2>6. OneLive'
    <3>1. \A b \in Attempt : b = a <=> child'[b].life # "none" /\ child'[b].wind = "no"
      BY <2>1, <2>2, <2>5, OnesLife
    <3>2. ASSUME NEW b1 \in Attempt, NEW b2 \in Attempt, b2 < b1, child'[b1].life \in {"due", "opening", "seated"}
          PROVE  child'[b2].wind = "gone"
      <4>1. b1 # a /\ child[b1].life \in {"due", "opening", "seated"}
        BY <2>1, <2>2, <3>2, OnesLife
      <4>2. child[b2].wind = "gone"
        BY <3>2, <4>1 DEF ChildInv, OneLive
      <4> QED BY <2>1, <2>2, <4>2, OnesLife
    <3> QED BY <2>1, <3>1, <3>2 DEF OneLive
  <2> QED BY <2>1, <2>4, <2>6, OneChanges
<1>3. CASE Spawn(a)
  <2> DEFINE d == [c EXCEPT !.life = "due"]
  <2>1. c.life = "waiting" /\ EarlierGone(a) /\ Becomes(a, d) /\ cur' = cur
    BY <1>3 DEF Spawn
  <2>2. d.life = "due" /\ d.wind = c.wind
    BY DEF Good, Typed, Fields
  <2>3. Bare(c) => Bare(d)
    BY DEF Good, Typed, Fields, Bare
  <2>4. Good(d) /\ Keeps(c, d)
    BY <2>1, <2>3 DEF Good, Typed, Fields, SeatsLate, WindsDown, RunsRight, TellsRight, Without, Keeps, Read
  <2> QED BY <2>1, <2>2, <2>4, GoesOn DEF EarlierGone
<1>4. ASSUME cur = a, cur' = 0, Becomes(a, Stopped(c)) PROVE StepKeeps
  <2> DEFINE d == Stopped(c)
  <2>1. c.life # "none" /\ c.wind = "no"
    BY <1>4 DEF ChildInv, OneLive
  <2>2. /\ Good(d) /\ d.wind # "no" /\ d.told = c.told
        /\ d.life = IF c.life = "waiting" THEN "unseated" ELSE c.life
        /\ \A i \in Item : d.item[i] = c.item[i] \/ (c.item[i] = "running" /\ d.item[i] = "stopping")
    BY <2>1, StoppedGood
  <2> HIDE DEF d
  <2>3. Becomes(a, d)
    BY <1>4 DEF d
  <2>4. Keeps(c, d)
    BY <2>2 DEF Keeps
  <2>5. OneLive'
    <3>1. \A b \in Attempt : ~(child'[b].life # "none" /\ child'[b].wind = "no")
      BY <1>4, <2>2, <2>3, OnesLife DEF ChildInv, OneLive
    <3>2. ASSUME NEW b1 \in Attempt, NEW b2 \in Attempt, b2 < b1, child'[b1].life \in {"due", "opening", "seated"}
          PROVE  child'[b2].wind = "gone"
      <4>1. child[b1].life \in {"due", "opening", "seated"}
        BY <2>2, <2>3, <3>2, OnesLife
      <4>2. child[b2].wind = "gone" /\ b2 # a
        BY <2>1, <3>2, <4>1 DEF ChildInv, OneLive
      <4> QED BY <2>3, <4>2, OnesLife
    <3>3. 0 \notin Attempt
      BY AttemptAssumption
    <3> QED BY <1>4, <3>1, <3>2, <3>3 DEF OneLive
  <2> QED BY <2>2, <2>3, <2>4, <2>5, OneChanges
<1>5. CASE Run(a)
  <2> DEFINE life == IF c.wind = "no" THEN "opening" ELSE "unseated"
             d == [c EXCEPT !.life = life]
  <2>1. c.life = "due" /\ Becomes(a, d) /\ cur' = cur
    BY <1>5 DEF Run
  <2>2. life \in {"opening", "unseated"} /\ (life = "opening" => c.wind = "no")
    OBVIOUS
  <2> HIDE DEF life
  <2>3. d.life = life /\ d.wind = c.wind
    BY DEF Good, Typed, Fields
  <2>4. Bare(c) /\ Bare(d)
    BY <2>1 DEF Good, Typed, Fields, SeatsLate, Bare
  <2>5. Good(d) /\ Keeps(c, d)
    BY <2>1, <2>2, <2>4 DEF Good, Typed, Fields, SeatsLate, WindsDown, RunsRight, TellsRight, Without, Keeps, Read
  <2>6. \A b \in Attempt : b < a => child[b].wind = "gone"
    BY <2>1 DEF ChildInv, OneLive
  <2> QED BY <2>1, <2>2, <2>3, <2>5, <2>6, GoesOn
<1>6. CASE Seated(a)
  <2> DEFINE s == [c EXCEPT !.life = "seated"]
  <2>1. c.life = "opening" /\ cur' = cur
    BY <1>6 DEF Seated
  <2>2. Bare(c) /\ Bare(s) /\ s.life = "seated" /\ s.wind = c.wind /\ c.wind \in {"no", "seat"}
    BY <2>1 DEF Good, Typed, Fields, SeatsLate, Bare, WindsDown
  <2>3. Good(s) /\ s.told = c.told /\ s.item = c.item
    BY <2>1, <2>2 DEF Good, Typed, Fields, SeatsLate, WindsDown, RunsRight, TellsRight, Without
  <2>4. \A b \in Attempt : b < a => child[b].wind = "gone"
    BY <2>1 DEF ChildInv, OneLive
  <2>5. CASE c.wind # "no"
    <3>1. Becomes(a, s)
      BY <1>6, <2>5 DEF Seated
    <3>2. Keeps(c, s)
      BY <2>3 DEF Keeps
    <3> QED BY <2>1, <2>2, <2>3, <2>4, <3>1, <3>2, GoesOn
  <2>6. CASE c.wind = "no"
    <3> DEFINE clock == "clock" \in acts
               k == [s EXCEPT !.clock = clock]
               d == Opened(k, "own")
    <3>1. Becomes(a, d)
      BY <1>6, <2>6 DEF Seated
    <3>2. clock \in BOOLEAN
      OBVIOUS
    <3> HIDE DEF clock, s
    <3>3. k.life = "seated" /\ k.wind = "no" /\ k.turns = <<>> /\ k.told = c.told /\ k.item = c.item
      BY <2>2, <2>3, <2>6 DEF Good, Typed, Fields, Bare
    <3>4. Good(k)
      BY <2>2, <2>3, <2>6, <3>2 DEF Good, Typed, Fields, SeatsLate, WindsDown, RunsRight, TellsRight, Without
    <3> HIDE DEF k
    <3>5. Good(d) /\ Moves(k, d)
      BY <3>3, <3>4, BoundAssumption, OpenedGood DEF Turn
    <3> HIDE DEF d
    <3>6. d.life = "seated" /\ d.wind = "no"
      BY <3>3, <3>5 DEF Moves
    <3>7. Keeps(c, d)
      BY <2>1, <2>6, <3>3, <3>5 DEF Keeps, Moves
    <3> QED BY <2>1, <2>4, <2>6, <3>1, <3>5, <3>6, <3>7, GoesOn
  <2> QED BY <2>5, <2>6
<1>7. CASE OpenRefused(a)
  <2> DEFINE s == [c EXCEPT !.life = "unseated"]
  <2>1. c.life = "opening" /\ cur' = cur
    BY <1>7 DEF OpenRefused
  <2>2. Bare(c) /\ Bare(s) /\ s.life = "unseated" /\ s.wind = c.wind /\ s.told = c.told /\ s.item = c.item
    BY <2>1 DEF Good, Typed, Fields, SeatsLate, Bare
  <2>3. Good(s)
    BY <2>1, <2>2 DEF Good, Typed, Fields, SeatsLate, WindsDown, RunsRight, TellsRight, Without
  <2> HIDE DEF s
  <2>4. Moves(s, End(s, "blocked")) /\ Good(End(s, "blocked")) /\ Moves(s, s)
    BY <2>2, <2>3, EndGood DEF Moves
  <2>5. PICK d : Becomes(a, d) /\ Good(d) /\ Moves(s, d)
    BY <1>7, <2>3, <2>4 DEF OpenRefused, s
  <2>6. d.life = "unseated" /\ d.wind = c.wind /\ Keeps(c, d)
    BY <2>1, <2>2, <2>5 DEF Moves, Keeps
  <2> QED BY <2>1, <2>5, <2>6, GoesOn
<1>8. CASE WindSeats(a)
  <2>1. c.wind = "seat" /\ c.life # "opening" /\ c.life # "none" /\ c.life # "waiting" /\ cur' = cur
    BY <1>8 DEF WindSeats, Good, SeatsLate
  <2>2. CASE c.life = "seated"
    <3> DEFINE h == Halted(c)
               d == [h EXCEPT !.wind = "halt"]
    <3>1. Becomes(a, d)
      BY <1>8, <2>2 DEF WindSeats
    <3>2. Good(h) /\ Moves(c, h) /\ Without(h, {"running"}) /\ ~h.scheduling
      BY <2>2, HaltedGood
    <3>3. h.life = "seated" /\ h.wind = "seat"
      BY <2>1, <2>2, <3>2 DEF Moves
    <3> HIDE DEF h
    <3>4. Good(d) /\ d.told = h.told /\ d.item = h.item /\ d.life = "seated" /\ d.wind = "halt"
      BY <3>2, <3>3 DEF Good, Typed, Fields, SeatsLate, WindsDown, RunsRight, TellsRight, Without
    <3>5. Keeps(c, d)
      BY <2>1, <2>2, <3>2, <3>4 DEF Keeps, Moves
    <3>6. \A b \in Attempt : b < a => child[b].wind = "gone"
      BY <2>2 DEF ChildInv, OneLive
    <3> QED BY <2>1, <3>1, <3>4, <3>5, <3>6, GoesOn
  <2>3. CASE c.life # "seated"
    <3> DEFINE d == [c EXCEPT !.wind = "gone", !.ended = TRUE]
    <3>1. Becomes(a, d)
      BY <1>8, <2>3 DEF WindSeats
    <3>2. Bare(c) /\ Bare(d) /\ d.life = c.life /\ d.wind = "gone" /\ d.told = c.told /\ d.item = c.item
      BY <2>3 DEF Good, Typed, Fields, SeatsLate, Bare
    <3>3. Good(d)
      <4>1. Typed(d)
        BY DEF Good, Typed, Fields
      <4>2. SeatsLate(d)
        BY <2>1, <2>3, <3>2, <4>1 DEF Good, Typed, Fields, SeatsLate
      <4>3. WindsDown(d)
        BY <2>1, <3>2 DEF Good, Typed, Fields, WindsDown, Bare, Without
      <4>4. RunsRight(d) /\ TellsRight(d)
        BY DEF Good, Typed, Fields, RunsRight, TellsRight, Without
      <4> QED BY <4>1, <4>2, <4>3, <4>4 DEF Good
    <3>4. Keeps(c, d)
      BY <3>2 DEF Keeps
    <3>5. c.life \in {"due", "opening", "seated"} => \A b \in Attempt : b < a => child[b].wind = "gone"
      BY DEF ChildInv, OneLive
    <3> QED BY <2>1, <3>1, <3>2, <3>3, <3>4, <3>5, GoesOn
  <2> QED BY <2>2, <2>3
<1>9. CASE WindHalts(a)
  <2> DEFINE d == [c EXCEPT !.wind = "close"]
  <2>1. c.wind = "halt" /\ c.turns = <<>> /\ Without(c, {"stopping"}) /\ Becomes(a, d) /\ cur' = cur
    BY <1>9 DEF WindHalts, WoundDown, PlannerBusy, At, Without
  <2>2. d.life = c.life /\ d.wind = "close" /\ d.told = c.told /\ d.item = c.item
    BY DEF Good, Typed, Fields
  <2>3. Bare(c) => Bare(d)
    BY DEF Good, Typed, Fields, Bare
  <2>4. Good(d)
    <3>1. Typed(d)
      BY DEF Good, Typed, Fields
    <3>2. SeatsLate(d)
      BY <2>1, <2>2, <2>3, <3>1 DEF Good, Typed, Fields, SeatsLate
    <3>3. WindsDown(d)
      BY <2>1 DEF Good, Typed, Fields, WindsDown, Without
    <3>4. RunsRight(d) /\ TellsRight(d)
      BY DEF Good, Typed, Fields, RunsRight, TellsRight, Without
    <3> QED BY <3>1, <3>2, <3>3, <3>4 DEF Good
  <2>5. Keeps(c, d)
    BY <2>2 DEF Keeps
  <2>6. c.life # "none" /\ (c.life \in {"due", "opening", "seated"} => \A b \in Attempt : b < a => child[b].wind = "gone")
    BY <2>1 DEF Good, SeatsLate, ChildInv, OneLive
  <2> QED BY <2>1, <2>2, <2>4, <2>5, <2>6, GoesOn
<1>10. CASE WindCloses(a)
  <2> DEFINE d == [c EXCEPT !.wind = "gone", !.ended = TRUE]
  <2>1. c.wind = "close" /\ ~c.tick /\ ~c.merging /\ Becomes(a, d) /\ cur' = cur
    BY <1>10 DEF WindCloses
  <2>2. d.life = c.life /\ d.wind = "gone" /\ d.told = c.told /\ d.item = c.item
    BY DEF Good, Typed, Fields
  <2>3. Bare(c) => Bare(d)
    BY DEF Good, Typed, Fields, Bare
  <2>4. Good(d)
    BY <2>1, <2>3 DEF Good, Typed, Fields, SeatsLate, WindsDown, RunsRight, TellsRight, Without
  <2>5. Keeps(c, d)
    BY <2>2 DEF Keeps
  <2>6. c.life # "none" /\ (c.life \in {"due", "opening", "seated"} => \A b \in Attempt : b < a => child[b].wind = "gone")
    BY <2>1 DEF Good, SeatsLate, ChildInv, OneLive
  <2> QED BY <2>1, <2>2, <2>4, <2>5, <2>6, GoesOn
<1>11. CASE Stop(a) \/ Verdict(a)
  BY <1>4, <1>11 DEF Stop, Verdict
<1> QED BY <1>2, <1>3, <1>5, <1>6, <1>7, <1>8, <1>9, <1>10, <1>11

\* A step of the system leads from what is invariant to what is, and does to each child what Keeps allows.
LEMMA NextKeeps ==
    ASSUME ChildInv, [Next]_vars
    PROVE  StepKeeps
<1>1. CASE UNCHANGED vars
  <2>1. \A b \in Attempt : Keeps(child[b], child'[b])
    BY <1>1 DEF vars, Keeps
  <2>2. ChildInv'
    BY <1>1 DEF vars, ChildInv, OneLive, Good, Typed, SeatsLate, Bare, WindsDown, RunsRight, TellsRight, Without
  <2> QED BY <2>1, <2>2 DEF StepKeeps
<1>2. CASE Next
  <2>1. PICK a \in Attempt :
          \/ StartAttempt(a) \/ Spawn(a) \/ Stop(a) \/ Verdict(a) \/ Run(a) \/ Seated(a) \/ OpenRefused(a)
          \/ WindSeats(a) \/ WindHalts(a) \/ WindCloses(a)
          \/ CallsDone(a) \/ CallRead(a) \/ GivesUp(a) \/ CallTaken(a) \/ Asks(a) \/ Answered(a)
          \/ TurnEnds(a) \/ TurnFails(a) \/ Wakes(a) \/ WakeFails(a) \/ PersonSpeaks(a) \/ ParentSpeaks(a)
          \/ \E i \in Item : Plans(a, i) \/ Starts(a, i) \/ Passes(a, i) \/ Fails(a, i) \/ RunnerGone(a, i)
          \/ TickEnds(a) \/ MergeEnds(a) \/ SpentOut(a) \/ Withdrawn(a)
          \/ Checks(a) \/ ClockRuns(a) \/ HaltOver(a) \/ GraceEnds(a)
          \/ LastReadHalted(a) \/ LastReadReads(a) \/ Published(a)
    BY <1>2 DEF Next, System, Environment
  <2> QED BY <2>1, AttemptKeeps, PlannerKeeps, RunKeeps, CallbackKeeps
<1> QED BY <1>1, <1>2

(* Before the first attempt every child is fresh. *)
LEMMA InitKeeps ==
    ASSUME Init
    PROVE  ChildInv
<1>1. DOMAIN child = Attempt /\ \A a \in Attempt : child[a] = Fresh
  BY DEF Init
<1>2. \A a \in Attempt : Good(child[a])
  BY <1>1, FreshGood
<1>3. Fresh.life = "none"
  BY DEF Fresh
<1>4. OneLive
  BY <1>1, <1>3, AttemptAssumption DEF Init, OneLive
<1> QED BY <1>1, <1>2, <1>4 DEF ChildInv

-----------------------------------------------------------------------------
(* What holds of every behaviour. *)

\* The inductive invariant holds.
LEMMA ChildInvHolds == Spec => []ChildInv
<1>1. ChildInv /\ [Next]_vars => ChildInv'
  BY NextKeeps DEF StepKeeps
<1> QED BY InitKeeps, <1>1, PTL DEF Spec

\* Every child's record is one the code has, and the live attempt is one that was started and not ended.
THEOREM ChildTypeCorrect == Spec => []TypeOK
<1>1. ChildInv => TypeOK
  <2> SUFFICES ASSUME ChildInv PROVE TypeOK
    OBVIOUS
  <2>1. cur \in Attempt \union {0} /\ (cur # 0 => child[cur].life # "none" /\ child[cur].wind = "no")
    BY DEF ChildInv, OneLive
  <2>2. ASSUME NEW a \in Attempt
        PROVE  LET c == child[a] IN
                 /\ c.life \in {"none", "waiting", "due", "opening", "seated", "unseated"}
                 /\ c.wind \in {"no", "seat", "halt", "close", "gone"}
                 /\ c.turns \in Seq({"own", "person", "wake"}) /\ Len(c.turns) <= MaxTurns
                 /\ c.aborted => PlannerBusy(c)
                 /\ c.item \in [Item -> {"absent", "ready", "running", "stopping", "failed", "done"}]
                 /\ c.branch \subseteq At(c, {"done"})
                 /\ {c.stoppedFor, c.halting} \subseteq {"none", "blocked", "failed"}
                 /\ c.accepted \in {"none", "done", "blocked", "failed"}
                 /\ c.call \in {"none", "reading", "done", "failed"}
                 /\ c.publishing \in {"no", "halt", "read", "told", "over"}
                 /\ c.told \in {"none", "refuted"} \union {c.accepted}
                 /\ c.question => c.asking
    <3>1. Good(child[a])
      BY DEF ChildInv
    <3>2. child[a].branch \subseteq At(child[a], {"done"})
      BY <3>1 DEF Good, Typed, RunsRight, At
    <3> QED BY <3>1, <3>2 DEF Good, Typed, Turn, ItemState, RunsRight, TellsRight, PlannerBusy
  <2> QED BY <2>1, <2>2 DEF TypeOK
<1> QED BY <1>1, ChildInvHolds, PTL

\* A Stop ends the whole subtree, whenever in a child's opening it came: when it has resolved nothing of the
\* child works or can, and two children of one delegated task are never up at once (wind, spawn).
THEOREM StopEndsTheSubtree == Spec => []StopEndsAll
<1>1. ChildInv => StopEndsAll
  <2> SUFFICES ASSUME ChildInv PROVE StopEndsAll
    OBVIOUS
  <2>1. ASSUME NEW a \in Attempt, child[a].wind = "gone"
        PROVE  /\ At(child[a], {"running", "stopping"}) = {} /\ ~child[a].merging
               /\ ~PlannerBusy(child[a]) /\ child[a].life # "opening"
    <3>1. Good(child[a])
      BY DEF ChildInv
    <3> QED BY <2>1, <3>1 DEF Good, WindsDown, Without, At, PlannerBusy
  <2>2. ASSUME NEW a \in Attempt, NEW b \in Attempt, Up(a), Up(b) PROVE a = b
    <3>1. ~(a < b) /\ ~(b < a)
      BY <2>2 DEF ChildInv, OneLive, Up
    <3> QED BY <3>1, AttemptAssumption
  <2> QED BY <2>1, <2>2 DEF StopEndsAll
<1> QED BY <1>1, ChildInvHolds, PTL

\* An attempt tells one verdict, and only while it is the parent's live one: a Stop that comes while the
\* branch is read, or after a report was taken, leaves nothing to be told (publish, stop).
THEOREM OneVerdictStands == Spec => VerdictStands
<1>1. ChildInv /\ [Next]_vars => [\A a \in Attempt : child'[a].told # child[a].told =>
        child[a].told = "none" /\ cur = a /\ child[a].wind = "no"]_vars
  <2> SUFFICES ASSUME ChildInv, [Next]_vars, NEW a \in Attempt, child'[a].told # child[a].told
               PROVE  child[a].told = "none" /\ cur = a /\ child[a].wind = "no"
    OBVIOUS
  <2>1. child[a].told = "none" /\ child[a].wind = "no" /\ child[a].life # "none"
    BY NextKeeps DEF StepKeeps, Keeps
  <2> QED BY <2>1 DEF ChildInv, OneLive
<1> QED BY <1>1, ChildInvHolds, PTL DEF Spec, VerdictStands

\* The last read of the branch is the last: once it has begun for a `done` no task of the child starts,
\* passes or is taken back, whatever raced the call that reported (lastRead, publish).
THEOREM TheReadIsLast == Spec => ReadIsLast
<1>1. ChildInv /\ [Next]_vars =>
        [\A a \in Attempt : child[a].accepted = "done" /\ (child[a].publishing \in {"read", "told"} \/ child[a].told = "done")
           => At(child'[a], {"running", "done"}) \subseteq At(child[a], {"running", "done"})
              /\ At(child'[a], {"done"}) = At(child[a], {"done"})]_vars
  <2> SUFFICES ASSUME ChildInv, [Next]_vars, NEW a \in Attempt, Read(child[a])
               PROVE  /\ At(child'[a], {"running", "done"}) \subseteq At(child[a], {"running", "done"})
                      /\ At(child'[a], {"done"}) = At(child[a], {"done"})
    BY DEF Read
  <2>1. Keeps(child[a], child'[a])
    BY NextKeeps DEF StepKeeps
  <2> QED BY <2>1 DEF Keeps, At
<1> QED BY <1>1, ChildInvHolds, PTL DEF Spec, ReadIsLast
===============================================================================
