------------------------------ MODULE ChildPlan ------------------------------
(* The attempts of one delegated task: a child Session that plans and runs in  *)
(* the task's worktree behind the runner seam (services/ChildPlanRunner.ts),   *)
(* what its parent's attempt does with it (services/Attempts.ts), and the      *)
(* child as its attempt drives it (services/createSession.ts). What the child  *)
(* runs is abstract: items that are started and end, and a merge of what they   *)
(* landed into the delegated task's branch. A level below is one of the items. *)
EXTENDS Naturals, Sequences

CONSTANTS
    Attempt,   \* attempts of the delegated task, in order
    Item,      \* tasks a child's planner may plan
    Rough,     \* those of them that change a protected path
    Days,      \* sets of acts: a behaviour has those of one of them, each once
    MaxTurns   \* bound: turns of a child's planner, under way or waiting

ASSUME AttemptAssumption == Attempt \subseteq Nat \ {0} /\ Rough \subseteq Item
ASSUME BoundAssumption == MaxTurns \in Nat \ {0}

VARIABLES
    child,   \* each attempt: its ChildPlanSession, and the child behind it
    cur,     \* the parent's live attempt, or 0
    acts     \* the acts still to come; a name in quotes that never goes is a kind of day

vars == <<child, cur, acts>>

Fresh == [
    life |-> "none", wind |-> "no",
    turns |-> <<>>, aborted |-> FALSE, item |-> [i \in Item |-> "absent"], scheduling |-> FALSE,
    tick |-> FALSE, merging |-> FALSE, branch |-> {}, noRoom |-> FALSE, toldRefused |-> FALSE,
    wakeOwed |-> FALSE, stoppedFor |-> "none", withdrawn |-> FALSE,
    accepted |-> "none", refuted |-> FALSE, call |-> "none", publishing |-> "no", told |-> "none",
    asking |-> FALSE, question |-> FALSE, ended |-> FALSE, halting |-> "none", haltOwed |-> FALSE,
    checkQueued |-> FALSE, reminded |-> FALSE, grace |-> FALSE, clock |-> FALSE]

Init ==
    /\ child = [a \in Attempt |-> Fresh]
    /\ cur = 0
    /\ acts \in Days

Becomes(a, c) == child' = [child EXCEPT ![a] = c]
Once(act) == act \in acts /\ acts' = acts \ {act}
At(c, states) == {i \in Item : c.item[i] \in states}

-----------------------------------------------------------------------------
(* What the child tells of itself. *)

\* The Stop of its attempt, or its budget, stands over it.
UnderStop(c) == c.wind # "no" \/ c.halting # "none" \/ c.stoppedFor = "blocked"
NodeRefusal(c) == UnderStop(c) \/ c.withdrawn
StartRefusal(c) == NodeRefusal(c) \/ c.accepted # "none"

\* What is ready has no room in the budget, and nothing at work will free any.
RefusedStart(c) == c.noRoom /\ c.scheduling /\ At(c, {"ready"}) # {} /\ At(c, {"running"}) = {}

\* The run has not settled: work, a merge or a tick under way, or what a tick will start.
Live(c) ==
    \/ c.tick \/ c.merging \/ At(c, {"running"}) # {}
    \/ c.scheduling /\ At(c, {"ready"}) # {} /\ ~StartRefusal(c) /\ ~RefusedStart(c)

PlannerBusy(c) == c.turns # <<>>

\* What keeps a `done` from being taken.
Unfinished(c) ==
    Live(c) \/ At(c, {"absent", "done"}) # Item \/ At(c, {"done"}) = {} \/ c.branch # At(c, {"done"})

Touched(c) == c.branch \intersect Rough # {}

\* Nothing is left of what a halt waits for: runners let go, and a planner's turn.
WoundDown(c) == At(c, {"stopping"}) = {} /\ ~PlannerBusy(c)

-----------------------------------------------------------------------------
(* What happens to it, as functions of its state. *)

\* stopSubtree, up to its first await: the turn is stopped and still settles, what waits behind it
\* is dropped, the run stops and its runners wind down. A merge under way goes on.
Halted(c) == [c EXCEPT
    !.turns = IF PlannerBusy(c) THEN <<Head(@)>> ELSE @,
    !.aborted = PlannerBusy(c),
    !.reminded = @ /\ "person" \notin {c.turns[k] : k \in 2..Len(c.turns)},
    !.item = [i \in Item |-> IF @[i] = "running" THEN "stopping" ELSE @[i]],
    !.scheduling = FALSE,
    !.checkQueued = TRUE]

HaltFor(c, ends) ==
    IF c.halting # "none" THEN c ELSE [Halted(c) EXCEPT !.halting = ends, !.haltOwed = TRUE]

Opened(c, kind) == [c EXCEPT !.turns = Append(@, kind)]

\* Mutant of Tell: the last read's end asks nothing of a Stop that came meanwhile.
TellPastStop(c) ==
    IF c.ended THEN c
    ELSE [c EXCEPT !.ended = TRUE, !.publishing = "over",
                   !.told = IF c.accepted = "done" /\ c.refuted THEN "refuted" ELSE c.accepted]

\* The verdict the parent hears, unless it has ended the attempt meanwhile.
Tell(c) ==
    IF c.ended \/ c.wind # "no" THEN c
    ELSE [c EXCEPT !.ended = TRUE, !.publishing = "over",
                   !.told = IF c.accepted = "done" /\ c.refuted THEN "refuted" ELSE c.accepted]

\* Mutant of LastRead: the branch is read beside what raced the call.
LastReadBeside(c) == [c EXCEPT !.publishing = "read"]

\* lastRead's first step: what raced the call winds down before the branch is read.
LastRead(c) ==
    IF Live(c) THEN [Halted(c) EXCEPT !.publishing = "halt"] ELSE [c EXCEPT !.publishing = "read"]

Publish(c) ==
    LET sure == [c EXCEPT !.grace = FALSE, !.clock = FALSE]
    IN IF c.accepted = "none" \/ c.ended \/ c.publishing # "no" THEN c
       ELSE IF c.refuted \/ c.accepted # "done" THEN Tell(sure) ELSE LastRead(sure)

\* An end no subplanner reported.
End(c, status) ==
    IF c.ended \/ c.accepted # "none" THEN c ELSE Publish([c EXCEPT !.accepted = status])

\* What its state owes its attempt.
Checked(c) ==
    LET stopped == IF c.halting # "none" THEN c.halting ELSE IF c.asking THEN "none" ELSE c.stoppedFor
        still == ~Live(c) /\ ~PlannerBusy(c)
    IN IF c.life # "seated" \/ c.ended \/ c.wind # "no" THEN c
       ELSE IF c.accepted # "none" THEN IF PlannerBusy(c) THEN c ELSE Publish(c)
       ELSE IF stopped # "none" THEN IF still THEN End(c, stopped) ELSE HaltFor(c, stopped)
       ELSE IF c.withdrawn THEN IF still THEN End(c, "blocked") ELSE c
       ELSE IF ~still \/ c.wakeOwed \/ c.asking THEN c
       ELSE IF RefusedStart(c) THEN HaltFor(c, "blocked")
       ELSE IF ~c.reminded THEN Opened([c EXCEPT !.reminded = TRUE], "own")
       ELSE End(c, "failed")

\* A task has ended: its failure wakes the planner, and a tick decides what is next.
Settled(c, failed) == [c EXCEPT
    !.wakeOwed = @ \/ (failed /\ c.scheduling /\ c.stoppedFor # "failed"), !.tick = TRUE, !.checkQueued = TRUE]

\* Mutant of Stopped: the question of an attempt that is stopped is left for somebody to answer.
StoppedAsking(c) ==
    IF c.life = "waiting" THEN [c EXCEPT !.life = "unseated", !.wind = "gone"]
    ELSE LET down == [c EXCEPT !.grace = FALSE, !.clock = FALSE, !.asking = FALSE]
         IN IF c.life = "seated" THEN [Halted(down) EXCEPT !.wind = "halt"] ELSE [down EXCEPT !.wind = "seat"]

\* The parent ends the attempt: the tombstone, and with it the question that waits.
Stopped(c) ==
    IF c.life = "waiting" THEN [c EXCEPT !.life = "unseated", !.wind = "gone"]
    ELSE LET down == [c EXCEPT !.grace = FALSE, !.clock = FALSE, !.question = FALSE, !.asking = FALSE]
         IN IF c.life = "seated" THEN [Halted(down) EXCEPT !.wind = "halt"] ELSE [down EXCEPT !.wind = "seat"]

-----------------------------------------------------------------------------
(* The parent's attempts. *)

\* A first attempt, or another once the last is over: a retry.
StartAttempt(a) ==
    /\ cur = 0 /\ child[a].life = "none"
    /\ \A b \in Attempt : b < a => child[b].life # "none"
    /\ IF \E b \in Attempt : b < a THEN Once("again") ELSE acts' = acts
    /\ Becomes(a, [child[a] EXCEPT !.life = "waiting"])
    /\ cur' = a

\* Mutant of EarlierGone: a delegated task's start does not wait for them.
EarlierOver(a) == \A b \in Attempt : b < a => child[b].wind # "no"

\* Nothing let go for the task is still winding down.
EarlierGone(a) == \A b \in Attempt : b < a => child[b].wind = "gone"

Spawn(a) ==
    /\ child[a].life = "waiting" /\ EarlierGone(a)
    /\ Becomes(a, [child[a] EXCEPT !.life = "due"])
    /\ UNCHANGED <<cur, acts>>

\* The user ends it: a Stop, a cancel, a skip, a delete.
Stop(a) ==
    /\ cur = a /\ Once("stop")
    /\ Becomes(a, Stopped(child[a]))
    /\ cur' = 0

\* The verdict it told ends it, and its runner, the child, with it.
Verdict(a) ==
    /\ cur = a /\ child[a].told # "none"
    /\ Becomes(a, Stopped(child[a]))
    /\ cur' = 0 /\ UNCHANGED acts

\* The child starts a macrotask after its spawn: a Stop may have come before.
Run(a) ==
    /\ child[a].life = "due"
    /\ Becomes(a, [child[a] EXCEPT !.life = IF child[a].wind = "no" THEN "opening" ELSE "unseated"])
    /\ UNCHANGED <<cur, acts>>

\* openChild answers: the child is seated and plans, if nothing stopped it meanwhile.
Seated(a) ==
    LET c == [child[a] EXCEPT !.life = "seated"]
    IN /\ child[a].life = "opening"
       /\ Becomes(a, IF c.wind # "no" THEN c ELSE Opened([c EXCEPT !.clock = "clock" \in acts], "own"))
       /\ UNCHANGED <<cur, acts>>

\* Its mandate or its budget cannot be carved.
OpenRefused(a) ==
    LET c == [child[a] EXCEPT !.life = "unseated"]
    IN /\ child[a].life = "opening" /\ Once("refuse")
       /\ Becomes(a, IF c.wind # "no" THEN c ELSE End(c, "blocked"))
       /\ UNCHANGED cur

\* wind waits for the child that is opening: it cannot end what it has not got.
WindSeats(a) ==
    LET c == child[a]
    IN /\ c.wind = "seat" /\ c.life # "opening"
       /\ Becomes(a, IF c.life = "seated" THEN [Halted(c) EXCEPT !.wind = "halt"]
                     ELSE [c EXCEPT !.wind = "gone", !.ended = TRUE])
       /\ UNCHANGED <<cur, acts>>

WindHalts(a) ==
    /\ child[a].wind = "halt" /\ WoundDown(child[a])
    /\ Becomes(a, [child[a] EXCEPT !.wind = "close"])
    /\ UNCHANGED <<cur, acts>>

\* close: its Session is let go once nothing of it changes git.
WindCloses(a) ==
    /\ child[a].wind = "close" /\ ~child[a].tick /\ ~child[a].merging
    /\ Becomes(a, [child[a] EXCEPT !.wind = "gone", !.ended = TRUE])
    /\ UNCHANGED <<cur, acts>>

-----------------------------------------------------------------------------
(* The child's planner. Its turn calls tools until it ends. *)

InTurn(c) == c.life = "seated" /\ PlannerBusy(c) /\ ~c.aborted /\ ~NodeRefusal(c)

\* It adds a task, or readies one that failed, and the run goes on.
Plans(a, i) ==
    LET c == child[a]
    IN /\ InTurn(c) /\ ~StartRefusal(c)
       /\ \/ c.item[i] = "absent" /\ ("one task" \in acts => At(c, {"absent"}) = Item) /\ acts' = acts
          \/ c.item[i] = "failed" /\ Once("retry")
       /\ Becomes(a, [c EXCEPT !.item[i] = "ready", !.scheduling = TRUE, !.tick = TRUE, !.checkQueued = TRUE])
       /\ UNCHANGED cur

\* taskComplete with `done`, which reads the plan and the run and then the branch.
CallsDone(a) ==
    LET c == child[a]
    IN /\ InTurn(c) /\ c.call = "none" /\ ~c.ended /\ c.accepted = "none" /\ ~Unfinished(c)
       /\ Becomes(a, [c EXCEPT !.call = "reading"])
       /\ UNCHANGED <<cur, acts>>

CallRead(a) ==
    LET c == child[a]
    IN /\ c.call = "reading"
       /\ Becomes(a, [c EXCEPT !.call = "done", !.refuted = Touched(c)])
       /\ UNCHANGED <<cur, acts>>

\* taskComplete with another status is taken at any time.
GivesUp(a) ==
    LET c == child[a]
    IN /\ InTurn(c) /\ c.call = "none" /\ ~c.ended /\ c.accepted = "none"
       /\ Once("give up")
       /\ Becomes(a, [c EXCEPT !.call = "failed", !.refuted = FALSE])
       /\ UNCHANGED cur

\* The read of what is outside its scope has come: the call is recorded, if nothing ended the attempt.
CallTaken(a) ==
    LET c == child[a]
        over == c.ended \/ c.accepted # "none" \/ c.wind # "no"
    IN /\ c.call \in {"done", "failed"}
       /\ Becomes(a, IF over THEN [c EXCEPT !.call = "none"]
                     ELSE [c EXCEPT !.call = "none", !.accepted = c.call, !.grace = TRUE])
       /\ UNCHANGED <<cur, acts>>

\* checkpoint: the question goes up, and the turn ends without its answer.
Asks(a) ==
    LET c == child[a]
    IN /\ InTurn(c) /\ ~c.ended /\ c.accepted = "none" /\ ~c.asking /\ Once("ask")
       /\ Becomes(a, [c EXCEPT !.asking = TRUE, !.question = TRUE])
       /\ UNCHANGED cur

\* Mutant of Heard: a question that can have no answer still reads as waiting.
HeardAnswersOnly(c, answered) ==
    IF answered /\ ~c.ended /\ c.wind = "no" THEN Opened([c EXCEPT !.asking = FALSE], "own")
    ELSE [c EXCEPT !.checkQueued = TRUE]

\* What the answer does: it opens a turn, or the question is withdrawn and a check reads what is left.
Heard(c, answered) ==
    IF answered /\ ~c.ended /\ c.wind = "no" THEN Opened([c EXCEPT !.asking = FALSE], "own")
    ELSE [c EXCEPT !.asking = FALSE, !.checkQueued = TRUE]

Answered(a) ==
    /\ child[a].question /\ Len(child[a].turns) < MaxTurns
    /\ \E answered \in BOOLEAN : Becomes(a, Heard([child[a] EXCEPT !.question = FALSE], answered))
    /\ UNCHANGED <<cur, acts>>

\* The head of the queue settles. A failure in a turn the attempt opened ends it, unless it was
\* stopped, refused at the gate, or a wake-up follows.
TurnOver(c) == [c EXCEPT
    !.turns = Tail(@), !.aborted = FALSE, !.checkQueued = TRUE, !.reminded = @ /\ Head(c.turns) # "person"]

TurnEnds(a) ==
    /\ PlannerBusy(child[a])
    /\ Becomes(a, TurnOver(child[a]))
    /\ UNCHANGED <<cur, acts>>

TurnFails(a) ==
    LET c == child[a]
        spared == c.wind # "no" \/ c.halting # "none" \/ c.stoppedFor # "none" \/ c.withdrawn \/ c.wakeOwed
    IN /\ PlannerBusy(c) /\ Once("turn fails")
       /\ Becomes(a, IF Head(c.turns) = "own" /\ ~spared THEN End(TurnOver(c), "failed") ELSE TurnOver(c))
       /\ UNCHANGED cur

\* What its run gathered opens a turn by itself.
Wakes(a) ==
    LET c == child[a]
    IN /\ c.wakeOwed /\ ~PlannerBusy(c) /\ c.life = "seated" /\ ~NodeRefusal(c)
       /\ Becomes(a, Opened([c EXCEPT !.wakeOwed = FALSE], "wake"))
       /\ UNCHANGED <<cur, acts>>

\* The second such turn fails: the supervisor stands down.
WakeFails(a) ==
    LET c == child[a]
    IN /\ PlannerBusy(c) /\ Head(c.turns) = "wake" /\ ~c.aborted /\ c.stoppedFor = "none" /\ Once("wake fails")
       /\ Becomes(a, [TurnOver(c) EXCEPT !.stoppedFor = "failed", !.wakeOwed = FALSE])
       /\ UNCHANGED cur

\* A person's message, or one from the plan above, is a turn of its own.
PersonSpeaks(a) ==
    LET c == child[a]
        listening == ~c.ended /\ c.accepted = "none" /\ ~NodeRefusal(c)
    IN /\ c.life = "seated" /\ listening /\ Len(c.turns) < MaxTurns /\ Once("person")
       /\ Becomes(a, Opened(c, "person"))
       /\ UNCHANGED cur

ParentSpeaks(a) ==
    LET c == child[a]
    IN /\ cur = a /\ c.life = "seated" /\ ~c.ended /\ Len(c.turns) < MaxTurns /\ Once("message")
       /\ Becomes(a, Opened(c, "own"))
       /\ UNCHANGED cur

-----------------------------------------------------------------------------
(* The child's run. *)

Starts(a, i) ==
    LET c == child[a]
    IN /\ c.tick /\ c.scheduling /\ c.item[i] = "ready" /\ ~StartRefusal(c) /\ ~c.noRoom
       /\ Becomes(a, [c EXCEPT !.item[i] = "running", !.checkQueued = TRUE])
       /\ UNCHANGED <<cur, acts>>

\* A tick has started what it can. A run with nothing left ends and merges what landed, and one with
\* no room for the rest is refused; its planner is woken for either.
TickEnds(a) ==
    LET c == child[a]
        over == c.scheduling /\ At(c, {"ready", "running"}) = {}
        merge == over /\ ~c.merging /\ c.branch # At(c, {"done"})
        news == (over /\ ~merge) \/ (RefusedStart(c) /\ ~c.toldRefused)
    IN /\ c.tick /\ (c.scheduling /\ At(c, {"ready"}) # {} => StartRefusal(c) \/ c.noRoom)
       /\ Becomes(a, [c EXCEPT !.tick = FALSE, !.merging = @ \/ merge, !.checkQueued = TRUE,
                               !.scheduling = @ /\ ~over, !.toldRefused = @ \/ RefusedStart(c),
                               !.wakeOwed = @ \/ (news /\ c.stoppedFor # "failed")])
       /\ UNCHANGED <<cur, acts>>

MergeEnds(a) ==
    LET c == child[a]
    IN /\ c.merging
       /\ Becomes(a, [c EXCEPT !.merging = FALSE, !.branch = At(c, {"done"}), !.checkQueued = TRUE,
                               !.wakeOwed = @ \/ c.stoppedFor # "failed"])
       /\ UNCHANGED <<cur, acts>>

\* A task passes and lands. What it spent may leave no room for the next.
Passes(a, i) ==
    LET c == child[a]
        room == IF "no room" \in acts THEN {TRUE, FALSE} ELSE {c.noRoom}
    IN /\ c.item[i] = "running"
       /\ \E none \in room : Becomes(a, Settled([c EXCEPT !.item[i] = "done", !.noRoom = none], FALSE))
       /\ UNCHANGED <<cur, acts>>

Fails(a, i) ==
    LET c == child[a]
    IN /\ c.item[i] = "running" /\ Once("task fails")
       /\ Becomes(a, Settled([c EXCEPT !.item[i] = "failed"], TRUE))
       /\ UNCHANGED cur

\* A runner that was let go has gone; its task waits for another start.
RunnerGone(a, i) ==
    LET c == child[a]
    IN /\ c.item[i] = "stopping"
       /\ Becomes(a, [c EXCEPT !.item[i] = "ready"])
       /\ UNCHANGED <<cur, acts>>

\* Its budget is spent: the node stops as a Stop stops it.
SpentOut(a) ==
    LET c == child[a]
    IN /\ c.life = "seated" /\ c.wind # "gone" /\ Once("budget")
       /\ Becomes(a, [Halted(c) EXCEPT !.stoppedFor = "blocked"])
       /\ UNCHANGED cur

\* What it may do is withdrawn above it, and nothing tells it so.
Withdrawn(a) ==
    LET c == child[a]
    IN /\ c.life = "seated" /\ c.wind # "gone" /\ Once("withdraw")
       /\ Becomes(a, [c EXCEPT !.withdrawn = TRUE])
       /\ UNCHANGED cur

-----------------------------------------------------------------------------
(* The attempt's own callbacks. *)

Checks(a) ==
    LET c == child[a]
    IN /\ c.checkQueued
       /\ Becomes(a, Checked([c EXCEPT !.checkQueued = FALSE]))
       /\ UNCHANGED <<cur, acts>>

\* The wall clock runs out.
ClockRuns(a) ==
    LET c == child[a]
    IN /\ c.clock
       /\ Becomes(a, HaltFor([c EXCEPT !.clock = FALSE], "blocked"))
       /\ UNCHANGED <<cur, acts>>

\* haltFor's halt has come to its end.
HaltOver(a) ==
    LET c == child[a]
    IN /\ c.haltOwed /\ WoundDown(c)
       /\ Becomes(a, [c EXCEPT !.haltOwed = FALSE, !.checkQueued = TRUE])
       /\ UNCHANGED <<cur, acts>>

\* The turn that made the call is still open when its grace ends.
GraceEnds(a) ==
    /\ child[a].grace
    /\ Becomes(a, Publish([child[a] EXCEPT !.grace = FALSE]))
    /\ UNCHANGED <<cur, acts>>

LastReadHalted(a) ==
    /\ child[a].publishing = "halt" /\ WoundDown(child[a])
    /\ Becomes(a, [child[a] EXCEPT !.publishing = "read"])
    /\ UNCHANGED <<cur, acts>>

\* The branch as git shows it now; its answer comes later.
LastReadReads(a) ==
    LET c == child[a]
    IN /\ c.publishing = "read"
       /\ Becomes(a, [c EXCEPT !.publishing = "told", !.refuted = Touched(c)])
       /\ UNCHANGED <<cur, acts>>

Published(a) ==
    /\ child[a].publishing = "told" /\ Becomes(a, [Tell(child[a]) EXCEPT !.publishing = "over"])
    /\ UNCHANGED <<cur, acts>>

-----------------------------------------------------------------------------

\* What the event loop, the runners and git owe.
System ==
    \E a \in Attempt :
        \/ Spawn(a) \/ Verdict(a) \/ Run(a) \/ Seated(a)
        \/ WindSeats(a) \/ WindHalts(a) \/ WindCloses(a)
        \/ CallRead(a) \/ CallTaken(a) \/ TurnEnds(a) \/ Wakes(a)
        \/ TickEnds(a) \/ MergeEnds(a)
        \/ \E i \in Item : Starts(a, i) \/ Passes(a, i) \/ RunnerGone(a, i)
        \/ Checks(a) \/ ClockRuns(a) \/ HaltOver(a) \/ GraceEnds(a)
        \/ LastReadHalted(a) \/ LastReadReads(a) \/ Published(a)

\* What the planners, the people above and the budgets may do.
Environment ==
    \E a \in Attempt :
        \/ StartAttempt(a) \/ Stop(a) \/ OpenRefused(a)
        \/ CallsDone(a) \/ GivesUp(a) \/ Asks(a) \/ Answered(a) \/ TurnFails(a) \/ WakeFails(a)
        \/ \E i \in Item : Plans(a, i) \/ Fails(a, i)
        \/ PersonSpeaks(a) \/ ParentSpeaks(a) \/ SpentOut(a) \/ Withdrawn(a)

Next == System \/ Environment

Spec == Init /\ [][Next]_vars
FairSpec == Spec /\ WF_vars(System)

-----------------------------------------------------------------------------
(* What it must do. *)

\* Type invariant: every field of a ChildPlanSession and of the child's state is one the code has, and
\* the parent's live attempt is one that was started and not ended.
TypeOK ==
    /\ cur \in Attempt \union {0}
    /\ cur # 0 => child[cur].life # "none" /\ child[cur].wind = "no"
    /\ \A a \in Attempt : LET c == child[a] IN
        /\ c.life \in {"none", "waiting", "due", "opening", "seated", "unseated"}
        /\ c.wind \in {"no", "seat", "halt", "close", "gone"}
        /\ c.turns \in Seq({"own", "person", "wake"}) /\ Len(c.turns) <= MaxTurns
        /\ c.aborted => PlannerBusy(c)
        /\ c.item \in [Item -> {"absent", "ready", "running", "stopping", "failed", "done"}]
        /\ c.branch \subseteq At(c, {"done"})
        /\ {c.stoppedFor, c.halting} \subseteq {"none", "blocked", "failed"}
        /\ c.accepted \in {"none", "done", "blocked", "failed"}
        /\ c.call \in {"none", "reading", "done", "failed"}
        /\ c.publishing \in {"no", "halt", "read", "told", "over"}
        /\ c.told \in {"none", "refuted"} \union {c.accepted}
        /\ c.question => c.asking

\* The last read of the branch is the last (ADR-0055 D7): once it has begun for a `done`, no task of the child
\* starts or passes any more, though a start may have raced the call that reported and its task be
\* running still when the report is taken (lastRead and publish of ChildPlanRunner, startRefusal of
\* createSession). A merge already under way when the run was halted is not a task's, and not waited for.
ReadIsLast ==
    [][\A a \in Attempt : child[a].accepted = "done" /\ (child[a].publishing \in {"read", "told"} \/ child[a].told = "done")
        => At(child'[a], {"running", "done"}) \subseteq At(child[a], {"running", "done"})
           /\ At(child'[a], {"done"}) = At(child[a], {"done"})]_vars

\* An attempt tells one verdict, while it is the parent's live one: a Stop that comes while the branch is
\* read, or after a report was taken, leaves nothing to be told (publish, stop).
VerdictStands ==
    [][\A a \in Attempt : child'[a].told # child[a].told =>
        child[a].told = "none" /\ cur = a /\ child[a].wind = "no"]_vars

\* A child that is up: it is being built, or it is and has not been let go.
Up(a) == child[a].life \in {"opening", "seated"} /\ child[a].wind # "gone"

\* A Stop ends the whole subtree (D16): when it resolves, no runner, merge or planner's turn of the child is
\* left and none can open, whenever in the child's opening it came; and no two children of one
\* delegated task are ever up at once, so none is discarded or reopened under another (spawn of Attempts).
StopEndsAll ==
    /\ \A a \in Attempt : child[a].wind = "gone" =>
        /\ At(child[a], {"running", "stopping"}) = {} /\ ~child[a].merging
        /\ ~PlannerBusy(child[a]) /\ child[a].life # "opening"
    /\ \A a, b \in Attempt : Up(a) /\ Up(b) => a = b

\* What it may do went while the one thing left to it was a wake-up: its turn is refused, and nobody is told.
LeftToAWakeUp(c) == c.withdrawn /\ c.wakeOwed

\* No child sits with nothing to end it (ADR-0056 M8): one that is seated comes to an end of its own, or waits
\* on a question somebody may still answer (check, checkpoint and haltFor of ChildPlanRunner). The one that
\* does sit is one whose grants are withdrawn while a wake-up is owed to it.
NothingSits ==
    \A a \in Attempt : child[a].life = "seated" ~> child[a].ended \/ child[a].question \/ LeftToAWakeUp(child[a])

\* A Stop resolves, whatever was under way (wind).
StopsResolve == \A a \in Attempt : child[a].wind # "no" ~> child[a].wind = "gone"

\* Both: every child ends, or waits where somebody can end the wait.
ChildrenEnd == NothingSits /\ StopsResolve
===============================================================================
