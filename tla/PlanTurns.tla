------------------------------ MODULE PlanTurns ------------------------------
(* The queue of a Session's planner turns (services/PlanTurns.ts), the wait on *)
(* the planner's usage limit (services/PlannerResend.ts), the conversation its *)
(* turns take and let go (services/PlannerConversation.ts), the planner gate   *)
(* and the wiring of the Session (services/createSession.ts), and the timeout  *)
(* of a hung wake-up (services/Supervisor.ts). Inputs are abstract: what the   *)
(* user sent, a wake-up of the supervisor's, a report the planner asked for,   *)
(* or a line that rides. A handler runs whole between two awaits, and what it  *)
(* pumps is part of it: handlers are functions of the whole state, composed.   *)
EXTENDS Naturals, Sequences, FiniteSets

CONSTANTS
    User, Wake, Report, Ride,   \* inputs, by where they come from
    Turn,      \* turns that can be under way, or still unwinding, at once
    Days,      \* sets of inputs and acts: a behaviour has those of one of them
    MaxPlans,  \* bound: the plans a Session goes through
    MaxActs,   \* bound: how often somebody acts, beside sending
    None

Input == User \union Wake \union Report \union Ride

ASSUME InputAssumption ==
    /\ User \intersect (Wake \union Report \union Ride) = {} /\ Wake \intersect (Report \union Ride) = {}
    /\ Report \intersect Ride = {}
    /\ None \notin Turn \union Input
    /\ MaxPlans \in Nat \ {0} /\ MaxActs \in Nat

VARIABLES
    plan,    \* what is saved: the inputs waiting, the transcript, the limit's wait and the pause
    lane,    \* PlanTurns' own fields, and what each input's caller has heard
    talk,    \* the conversation, its calls, the slot, and the planner in use
    day,     \* what may happen in this behaviour
    acts     \* how often somebody acted

vars == <<plan, lane, talk, day, acts>>

-----------------------------------------------------------------------------
\* A turn of which nothing is under way: neither its call nor a check it waits on.
Idle == [at |-> "free", kind |-> "reply", gen |-> 0, ids |-> {}, aborted |-> FALSE, dropped |-> FALSE,
         forceStopped |-> FALSE, retry |-> FALSE, late |-> FALSE, hold |-> FALSE, checking |-> FALSE]

FreshPlan(n, goal, waiting) == [gen |-> n, goal |-> goal, pending |-> waiting, forced |-> {}, heard |-> {},
                          limit |-> "none", paused |-> FALSE, kept |-> {}, failures |-> 0]

\* An opening waiting at the planner gate, and what is held behind it.
NoOpening == [at |-> "none", input |-> None, held |-> <<>>, forced |-> {}]

Init ==
    /\ plan = FreshPlan(1, None, <<>>)
    /\ lane = [running |-> None, tails |-> {}, detecting |-> FALSE, awaitingSlot |-> FALSE, quiet |-> FALSE,
               restored |-> FALSE, reportWake |-> FALSE, caller |-> [i \in Input |-> "none"], withdrawn |-> {},
               asked |-> FALSE]
    /\ \E known, able, room \in BOOLEAN :
         talk = [live |-> None, turn |-> [t \in Turn |-> Idle], opening |-> NoOpening, lease |-> FALSE,
                 room |-> room, known |-> known, able |-> able, moved |-> FALSE]
    /\ day \in Days
    /\ acts = 0

Now == [plan |-> plan, lane |-> lane, talk |-> talk]
Becomes(s) == plan' = s.plan /\ lane' = s.lane /\ talk' = s.talk

May(act) == act \in day /\ UNCHANGED <<day, acts>>
Acts(act) == act \in day /\ acts < MaxActs /\ acts' = acts + 1 /\ UNCHANGED day

Elems(q) == {q[n] : n \in DOMAIN q}

\* Those of q that are in X, in their order. A recursive function, to be proved about.
Those(q, X) ==
    LET upto[n \in 0..Len(q)] ==
            IF n = 0 THEN <<>> ELSE IF q[n] \in X THEN Append(upto[n - 1], q[n]) ELSE upto[n - 1]
    IN  upto[Len(q)]

Without(q, X) == Those(q, Elems(q) \ X)

\* What callers hear: all of X, or those of X that still wait.
Tell(s, X, what) == [s EXCEPT !.lane.caller = [i \in Input |-> IF i \in X THEN what ELSE @[i]]]
Waiting(s, X) == {i \in X : s.lane.caller[i] = "waiting"}

\* Mutant of Take: an input's force outlives its place in the list.
TakeForced(s, X) == [s EXCEPT !.plan.pending = Without(@, X)]

\* Inputs leave the list.
Take(s, X) == [s EXCEPT !.plan.pending = Without(@, X), !.plan.forced = @ \ X]

\* The inputs of the turn in flight.
Taken(s) ==
    IF s.lane.running = None THEN {} ELSE s.talk.turn[s.lane.running].ids \union UNION {e.ids : e \in s.lane.tails}

\* The turn in flight is not merely waiting for what its end owes.
Speaks(s) == s.lane.running # None /\ s.talk.turn[s.lane.running].at = "talking"

\* A turn's place is free once its call, and what follows it, are over. Bound: a
\* turn opens with a place free.
FreeTurns(s) == {t \in Turn : s.talk.turn[t] = Idle /\ s.lane.running # t}
NextTurn(s) == CHOOSE t \in FreeTurns(s) : TRUE

Holds(s) == s.plan.limit # "none"

\* The slot is taken for the turn, or it was already; given back, another
\* planner of the tree may have it before this one asks again.
WithSlot(s) == [s EXCEPT !.talk.lease = TRUE, !.talk.room = IF s.talk.lease THEN @ ELSE FALSE]
HasRoom(s) == s.talk.lease \/ s.talk.room
EndTurnLease(s, free) == IF s.talk.lease THEN [s EXCEPT !.talk.lease = FALSE, !.talk.room = free] ELSE s

-----------------------------------------------------------------------------
\* Wake-ups alone open a turn while the supervisor watches, a report until two
\* automatic turns failed, and a line that rides never does.
Supervised(s) == s.plan.failures < 2
MayOpen(s, q) == Elems(q) \ Ride # {} /\ Supervised(s)

\* Those of one authority, the older first.
Group(s, report) ==
    Those(s.plan.pending, IF ~report THEN Input \ Report ELSE IF Supervised(s) THEN Report ELSE {})

WakeUps(s) ==
    LET eligible == Without(s.plan.pending, IF Supervised(s) THEN {} ELSE Report)
        first == Group(s, eligible # <<>> /\ Head(eligible) \in Report)
        other == Group(s, ~(eligible # <<>> /\ Head(eligible) \in Report))
    IN  IF s.lane.quiet THEN {}
        ELSE IF MayOpen(s, first) THEN Elems(first) ELSE IF MayOpen(s, other) THEN Elems(other) ELSE {}

\* Mutant of LiveBatch: a forced input goes with whatever else waits.
LiveBatchTogether(s) ==
    IF Elems(s.plan.pending) \intersect User # {} THEN Elems(s.plan.pending) ELSE WakeUps(s)

\* What the next turn takes: a forced input alone, else all with the user's, else wake-ups.
LiveBatch(s) ==
    IF s.plan.pending # <<>> /\ Head(s.plan.pending) \in s.plan.forced THEN {Head(s.plan.pending)}
    ELSE IF Elems(s.plan.pending) \intersect User # {} THEN Elems(s.plan.pending)
    ELSE WakeUps(s)

\* The inputs whose caller withdrew them before their turn began leave first.
DropWithdrawn(s) ==
    LET gone == Waiting(s, Elems(s.plan.pending) \intersect s.lane.withdrawn)
    IN  Tell(Take(s, gone), gone, "stopped")

\* A turn takes the conversation; one of the queue's holds new starts.
Claimed(s, kind, ids, retry) ==
    LET t == NextTurn(s)
    IN  [WithSlot(s) EXCEPT !.talk.live = t,
            !.talk.turn[t] = [Idle EXCEPT !.at = "talking", !.kind = kind, !.gen = s.plan.gen, !.ids = ids,
                                          !.retry = retry, !.hold = kind = "reply"]]

Run(s, ids, retry) == [Claimed(s, "reply", ids, retry) EXCEPT !.lane.running = NextTurn(s)]

\* The planner cannot plan: each caller waiting hears why and holds its message.
Refuse(s) ==
    LET waiting == Waiting(s, Elems(s.plan.pending))
    IN  Tell(Take(s, waiting \intersect User), waiting, "refused")

Due(s) ==
    /\ ~s.lane.restored /\ s.lane.running = None /\ ~s.lane.detecting /\ ~Holds(s) /\ ~s.plan.paused
    /\ s.talk.live = None /\ FreeTurns(s) # {}

\* Start the next turn if one is due.
Pump(s) ==
    LET q == DropWithdrawn(s)
        batch == LiveBatch(q)
    IN  CASE ~Due(s) -> s
          [] Due(s) /\ batch = {} -> q
          [] Due(s) /\ batch # {} /\ ~s.talk.known -> [q EXCEPT !.lane.detecting = TRUE]
          [] Due(s) /\ batch # {} /\ s.talk.known /\ ~s.talk.able -> Refuse(q)
          [] Due(s) /\ batch # {} /\ s.talk.known /\ s.talk.able ->
               IF HasRoom(s) THEN Run([q EXCEPT !.lane.awaitingSlot = FALSE], batch, FALSE)
               ELSE [q EXCEPT !.lane.awaitingSlot = TRUE]

\* Bound: one turn at most is unwinding when another is dropped.
Spare == FreeTurns(Now) # {}

-----------------------------------------------------------------------------
\* Where an input goes: a forced one ahead of what waits, but not of an earlier
\* forced one, nor of what the turn in flight has taken.
Enlisted(q, i, force, before) ==
    LET after == {n \in DOMAIN q : q[n] \notin before}
        at == CHOOSE n \in after : \A o \in after : n <= o
    IN  IF force /\ after # {} THEN SubSeq(q, 1, at - 1) \o <<i>> \o SubSeq(q, at, Len(q)) ELSE Append(q, i)

\* An input that arrives ends a held wait, and one on a runner the planner has left.
Lifted(s) ==
    IF s.plan.limit = "held" \/ (s.plan.limit = "armed" /\ s.talk.moved) THEN [s EXCEPT !.plan.limit = "none"] ELSE s

\* An input is taken in. During the wait or the pause its sender is answered at once.
Admit(s, i, force) ==
    LET q == [Lifted(s) EXCEPT !.lane.restored = FALSE, !.lane.quiet = FALSE, !.lane.asked = TRUE,
                  !.plan.pending = Enlisted(@, i, force, s.plan.forced \union Taken(s)),
                  !.plan.forced = IF force THEN @ \union {i} ELSE @]
    IN  Pump(Tell(q, {i}, IF i \in User /\ (Holds(q) \/ q.plan.paused) THEN "kept" ELSE "waiting"))

AtGate == talk.opening.at \in {"probe", "slot"}

\* A message: held behind an opening at the gate, queued behind one that is
\* live, refused while any other turn the queue did not open is.
Send(i) ==
    /\ May(i) /\ i \in User /\ lane.caller[i] = "none"
    /\ \/ /\ AtGate
          /\ Becomes([Tell(Now, {i}, "waiting") EXCEPT !.talk.opening.held = Append(@, i)])
       \/ /\ talk.opening.at = "none" /\ lane.running = None /\ talk.live # None
          /\ Becomes(Tell(Now, {i}, "busy"))
       \/ /\ talk.opening.at = "open" \/ (talk.opening.at = "none" /\ (lane.running # None \/ talk.live = None))
          /\ Becomes(Admit(Now, i, FALSE))

\* The supervisor's, or a subplanner's: never refused. A line that rides opens nothing.
Deliver(i) ==
    /\ May(i) /\ i \notin User /\ lane.caller[i] = "none"
    /\ IF i \in Ride THEN Becomes([Tell(Now, {i}, "kept") EXCEPT !.plan.pending = Append(@, i)])
       ELSE Becomes(Admit(Now, i, FALSE))

StopLive(s) == IF s.talk.live = None THEN s ELSE [s EXCEPT !.talk.turn[s.talk.live].aborted = TRUE]

\* Send now: the turn in flight is stopped, and the input goes first.
ForceSend(i) ==
    /\ Acts("force") /\ i \in User \intersect day /\ lane.caller[i] = "none"
    /\ \/ /\ AtGate
          /\ Becomes([Tell(Now, {i}, "waiting") EXCEPT !.talk.opening.held = Append(@, i),
                                                       !.talk.opening.forced = @ \union {i}])
       \/ /\ ~AtGate /\ lane.running = None /\ talk.live = None
          /\ Becomes(Admit(Now, i, FALSE))
       \/ /\ ~AtGate /\ (lane.running # None \/ talk.live # None)
          /\ LET s == StopLive(Admit(Now, i, TRUE))
             IN  Becomes(IF ~Speaks(s) THEN s
                         ELSE [s EXCEPT !.talk.turn[s.lane.running].forceStopped = TRUE])

\* A caller's own signal: it stops the turn that took its input, or the input is
\* dropped by the next look at what waits.
Withdraw(i) ==
    /\ Acts("withdraw") /\ i \in User /\ lane.caller[i] = "waiting" /\ i \in Elems(plan.pending) \ lane.withdrawn
    /\ Becomes(LET s == [Now EXCEPT !.lane.withdrawn = @ \union {i}]
               IN  IF i \in Taken(s) /\ Speaks(s) THEN [s EXCEPT !.talk.turn[s.lane.running].aborted = TRUE] ELSE s)

-----------------------------------------------------------------------------
\* The Stop of a planner paused on its context drops the user's inputs with the pause.
DropPause(s) ==
    LET stopped == Elems(s.plan.pending) \intersect User
    IN  [Tell(Take(s, stopped), stopped, "stopped")
            EXCEPT !.plan.paused = FALSE, !.plan.kept = {}, !.lane.asked = FALSE,
                   !.lane.quiet = @ \/ Elems(s.plan.pending) # stopped]

\* What an ended turn sends again is its end's to open: a Stop during that end's tick leaves it.
SentAgain(s) == s.lane.tails # {} /\ Taken(s) \intersect Elems(s.plan.pending) # {}

\* Mutant of StopQueued: the wake-ups behind the stopped turn are its release's to open.
StopQueuedOnlyUser(s) ==
    LET waiting == Elems(s.plan.pending) \ Taken(s)
        atGate == s.lane.detecting \/ s.lane.awaitingSlot
        stopped == IF atGate THEN waiting ELSE waiting \intersect User
    IN  IF s.plan.paused /\ s.lane.running = None THEN DropPause(s)
        ELSE IF ~atGate /\ s.lane.running = None /\ s.talk.live = None THEN s
        ELSE [Tell(Take(s, stopped), stopped, "stopped") EXCEPT !.lane.asked = SentAgain(s)]

\* The user's Stop drops what waits to open: at the gate all of it, behind a live
\* turn what is the user's, and the rest then waits for the next input.
StopQueued(s) ==
    LET waiting == Elems(s.plan.pending) \ Taken(s)
        atGate == s.lane.detecting \/ s.lane.awaitingSlot
        stopped == IF atGate THEN waiting ELSE waiting \intersect User
    IN  IF s.plan.paused /\ s.lane.running = None THEN DropPause(s)
        ELSE IF ~atGate /\ s.lane.running = None /\ s.talk.live = None THEN s
        ELSE [Tell(Take(s, stopped), stopped, "stopped")
                EXCEPT !.lane.asked = SentAgain(s), !.lane.quiet = @ \/ stopped # waiting]

\* An opening at the gate ends before it opens, with what is held behind it.
EndWaiting(s, why) ==
    IF s.talk.opening.at \notin {"probe", "slot"} THEN s
    ELSE [Tell(s, Elems(s.talk.opening.held) \union {s.talk.opening.input}, why) EXCEPT !.talk.opening = NoOpening]

AbortPlannerTurn ==
    /\ Acts("stop")
    /\ Becomes(EndWaiting(StopLive(StopQueued(Now)), "stopped"))

-----------------------------------------------------------------------------
\* The conversation lets its live turn go at once, whatever its call does after.
Drop(s) ==
    IF s.talk.live = None THEN s
    ELSE LET k == [s EXCEPT !.talk.live = None, !.talk.turn[s.talk.live].dropped = TRUE,
                            !.talk.turn[s.talk.live].aborted = TRUE]
         IN  IF s.lane.running = None THEN EndTurnLease(k, TRUE) ELSE k

\* Mutant of Abandon: the hold is left to the turn's own end.
AbandonHolding(s) ==
    [Tell(EndTurnLease(s, TRUE), Waiting(s, Input \ (Elems(s.talk.opening.held) \union {s.talk.opening.input})), "discarded")
        EXCEPT !.lane.running = None, !.lane.quiet = FALSE, !.lane.restored = FALSE, !.lane.reportWake = FALSE]

\* The plan is gone: the hold goes, and every caller of the queue hears.
Abandon(s) ==
    LET queued == Elems(s.plan.pending) \union Taken(s)
        k == IF s.lane.running = None THEN s ELSE [s EXCEPT !.talk.turn[s.lane.running].hold = FALSE]
    IN  [Tell(EndTurnLease(k, TRUE), Waiting(s, queued), "discarded")
            EXCEPT !.lane.running = None, !.lane.quiet = FALSE, !.lane.restored = FALSE, !.lane.reportWake = FALSE]

\* A goal its gate let in: the plan held now goes with all that served it, but
\* the slot the gate took stays, and what was held queues behind the opening.
OpenGoal(s) ==
    LET i == s.talk.opening.input
        held == s.talk.opening.held
        ahead == Those(held, s.talk.opening.forced)
        dropped == Abandon(Drop([WithSlot(s) EXCEPT !.talk.lease = FALSE]))
        fresh == [dropped EXCEPT !.plan = FreshPlan(s.plan.gen + 1, i, ahead \o Without(held, Elems(ahead))),
                                 !.plan.forced = Elems(ahead),
                                 !.lane.asked = TRUE, !.talk.lease = TRUE, !.talk.moved = FALSE,
                                 !.talk.opening = [NoOpening EXCEPT !.at = "open", !.input = i]]
    IN  Claimed(fresh, "opening", {i}, FALSE)

\* The gate an opening passes: the probe, the planner in use, a slot of the tree.
ThroughGate(s) ==
    CASE s.talk.opening.at = "probe" /\ ~s.talk.known -> s
      [] s.talk.opening.at = "probe" /\ s.talk.known /\ ~s.talk.able -> EndWaiting(s, "refused")
      [] OTHER -> IF HasRoom(s) THEN OpenGoal(s) ELSE [s EXCEPT !.talk.opening.at = "slot"]

\* A new goal: it replaces one still at the gate, and drops the plan once through.
StartPlanning(i) ==
    /\ Acts("goal") /\ i \in User \intersect day /\ lane.caller[i] = "none" /\ plan.gen < MaxPlans /\ Spare
    /\ LET s == [Tell(EndWaiting(Now, "discarded"), {i}, "waiting")
                    EXCEPT !.talk.opening = [NoOpening EXCEPT !.at = "probe", !.input = i]]
       IN  Becomes(ThroughGate(s))

\* Another session's plan is adopted: it stays idle until somebody asks.
LoadPlan(saved) ==
    /\ Acts("load") /\ plan.gen < MaxPlans /\ Spare
    /\ Elems(saved) \subseteq {i \in Input \intersect day : lane.caller[i] = "none"}
    /\ LET s == Abandon(Drop(EndWaiting(Now, "discarded")))
       IN  Becomes([Tell(s, Elems(saved), "kept") EXCEPT
                !.plan = FreshPlan(plan.gen + 1, None, saved), !.lane.restored = TRUE, !.lane.asked = FALSE,
                !.lane.reportWake = Elems(saved) \intersect Report # {}, !.talk.moved = FALSE])

\* The process dies and the session is read back: what was saved waits for a new
\* input, and a wait on a limit for the user.
Crash ==
    /\ Acts("crash") /\ plan.gen < MaxPlans
    /\ plan' = [plan EXCEPT !.limit = IF @ = "armed" THEN "held" ELSE @, !.failures = IF @ = 2 THEN 2 ELSE 0]
    /\ lane' = [running |-> None, tails |-> {}, detecting |-> FALSE, awaitingSlot |-> FALSE, quiet |-> FALSE,
                restored |-> TRUE, reportWake |-> Elems(plan.pending) \intersect Report # {},
                caller |-> [i \in Input |-> IF lane.caller[i] # "waiting" THEN lane.caller[i]
                                            ELSE IF i \in Elems(plan.pending) THEN "kept" ELSE "discarded"],
                withdrawn |-> {}, asked |-> FALSE]
    /\ talk' = [talk EXCEPT !.live = None, !.turn = [t \in Turn |-> Idle], !.opening = NoOpening,
                            !.lease = FALSE, !.room = @ \/ talk.lease, !.moved = FALSE]

\* A saved report wakes the planner once its load is over.
ReportWake ==
    /\ lane.reportWake
    /\ UNCHANGED <<day, acts>>
    /\ LET s == [Now EXCEPT !.lane.reportWake = FALSE]
       IN  Becomes(IF ~lane.restored \/ Holds(Now) \/ ~Supervised(Now) THEN s
                   ELSE Pump([s EXCEPT !.lane.restored = FALSE, !.lane.asked = TRUE]))

-----------------------------------------------------------------------------
\* A turn for the supervisor, on wake-ups alone.
IsWakeUp(r) == r.kind = "reply" /\ r.ids \intersect User = {}

\* How a turn's call can end: one that was stopped may still settle as a
\* message, but a wake-up's may not.
Outcomes(r) ==
    CASE r.dropped -> {"discarded"}
      [] ~r.dropped /\ IsWakeUp(r) /\ r.aborted -> {IF r.late THEN "failed" ELSE "stopped"}
      [] ~r.dropped /\ ~IsWakeUp(r) /\ r.aborted -> {"stopped", "answered"}
      [] ~r.dropped /\ ~r.aborted /\ r.kind = "compaction" -> {"answered", "failed"}
      [] ~r.dropped /\ ~r.aborted /\ r.kind # "compaction" -> {"answered", "failed", "limited", "paused"}

\* Mutant of Landed: the transcript takes the inputs, and the list keeps them.
LandedTwice(s, r) ==
    [s EXCEPT !.plan.heard = @ \union r.ids, !.plan.paused = @ /\ ~r.retry, !.plan.kept = IF r.retry THEN {} ELSE @]

\* What a turn was told is written with its answer, as its inputs leave the list.
Landed(s, r) ==
    [Take(s, r.ids) EXCEPT !.plan.heard = @ \union r.ids, !.plan.paused = @ /\ ~r.retry,
                           !.plan.kept = IF r.retry THEN {} ELSE @]

\* The supervisor's count of the turns it opened that failed. Of one past its
\* time it asks again, whoever stopped it since.
Counted(s, r, how) ==
    IF ~IsWakeUp(r) THEN s
    ELSE [s EXCEPT !.lane.asked = @ \/ (how = "failed" /\ r.late),
                   !.plan.failures = CASE how = "answered" -> 0
                                       [] how = "failed" -> IF @ = 0 THEN 1 ELSE 2
                                       [] how = "limited" /\ s.plan.limit = "held" -> 2
                                       [] OTHER -> @]

\* The call is over, and what it left on the plan: an answer, a wait, a pause.
\* One whose inputs a tool's change has landed arms no wait.
Over(s, t, how, wait) ==
    LET r == s.talk.turn[t]
        unread == ~(r.ids \subseteq s.plan.heard)
        q == [s EXCEPT !.talk.turn[t] = [Idle EXCEPT !.checking = r.checking, !.hold = r.hold],
                       !.talk.live = IF @ = t THEN None ELSE @]
        p == CASE how = "answered" /\ r.kind # "compaction" -> Landed(q, r)
               [] how = "limited" /\ unread -> [q EXCEPT !.plan.limit = wait, !.talk.moved = FALSE]
               [] how = "paused" -> [q EXCEPT !.plan.paused = TRUE, !.plan.kept = r.ids]
               [] OTHER -> q
    IN  Counted(p, r, how)

\* What the queue does of a turn's end, before it lets starts go: what is dropped
\* of its inputs, and what waits on.
ForceStopped(e) == e.how # "answered" /\ e.forceStopped
Interrupted(e) == e.how \in {"stopped", "discarded"}
Kept(e) == e.how \in {"limited", "paused"} \/ (e.retry /\ e.how = "failed" /\ ~e.forceStopped)

\* Mutant of Dropped: a failed turn takes its wake-ups with it.
DroppedWhole(e) == IF Kept(e) THEN {} ELSE IF ForceStopped(e) THEN e.ids \intersect User ELSE e.ids

Dropped(e) ==
    IF Kept(e) THEN {}
    ELSE IF e.how = "answered" \/ (Interrupted(e) /\ ~ForceStopped(e)) THEN e.ids
    ELSE e.ids \intersect User

LetGo(s, t, e) ==
    LET q == Take(s, Dropped(e))
        unpaused == e.retry /\ (Interrupted(e) \/ ForceStopped(e))
        ahead == Those(q.plan.pending, q.plan.forced)
    IN  [q EXCEPT !.plan.pending = IF ForceStopped(e) THEN ahead \o Without(@, Elems(ahead)) ELSE @,
                  !.plan.paused = @ /\ ~unpaused, !.plan.kept = IF unpaused THEN {} ELSE @,
                  !.talk.turn[t].hold = FALSE, !.lane.tails = @ \union {e}]

\* Mutant of Settled: the next turn is left to the next input.
SettledUnpumped(s, e, free) ==
    LET q == EndTurnLease([s EXCEPT !.lane.running = None, !.lane.tails = @ \ {e}], free)
    IN  Tell(q, Waiting(q, e.ids), e.how)

\* And after it: the slot goes back, callers hear, and the next turn may open.
Settled(s, e, free) ==
    LET q == EndTurnLease([s EXCEPT !.lane.running = None, !.lane.tails = @ \ {e}], free)
        early == IF e.how \in {"limited", "paused"} THEN e.ids \intersect User ELSE {}
        stays == IF ForceStopped(e) \/ Kept(e) THEN e.ids \intersect Elems(q.plan.pending) ELSE {}
        heard == Waiting(q, e.ids \ (early \union stays))
        noticed == IF e.how = "failed" /\ ~e.retry THEN (e.ids \intersect User) \ stays ELSE {}
    IN  Pump(Tell(Tell(Tell(q, noticed, "failed"), heard, e.how), Waiting(q, early), "kept"))

\* A turn the queue opened has ended: new starts tick, and while they do it is
\* still the turn in flight.
Ended(s, t, r, how, free) ==
    LET e == [how |-> how, ids |-> r.ids, forceStopped |-> r.forceStopped, retry |-> r.retry]
    IN  IF "ticks" \in day THEN LetGo(s, t, e) ELSE Settled(LetGo(s, t, e), e, free)

\* An opening's goal that a limit or a pause kept goes in front, and who sent
\* what is behind it is answered.
OpeningOver(s, r, how) ==
    LET kept == how = "paused" \/ (how = "limited" /\ Holds(s) /\ ~(r.ids \subseteq s.plan.heard))
        g == CHOOSE i \in r.ids : TRUE
        q == IF kept THEN [s EXCEPT !.plan.pending = <<g>> \o @] ELSE s
    IN  [Tell(q, Waiting(q, IF kept THEN Elems(q.plan.pending) \intersect User ELSE r.ids), IF kept THEN "kept" ELSE how)
            EXCEPT !.talk.opening = IF @.at = "open" /\ @.input = g THEN NoOpening ELSE @]

\* A turn's call comes to its end.
EndTurn(t) ==
    /\ talk.turn[t].at = "talking"
    /\ UNCHANGED <<day, acts>>
    /\ \E how \in Outcomes(talk.turn[t]), free \in BOOLEAN : \E wait \in IF how = "limited" THEN {"armed", "held"} ELSE {"none"} :
         LET r == talk.turn[t]
             s == Over(Now, t, how, wait)
             mine == talk.live = t
             lets == IF lane.running = None THEN EndTurnLease(s, free) ELSE s
         IN  Becomes(CASE lane.running = t /\ r.kind = "reply" -> Ended(s, t, r, how, free)
                       [] r.kind = "opening" -> LET q == OpeningOver(s, r, how)
                                                IN  IF mine THEN Pump(EndTurnLease(q, free)) ELSE q
                       [] OTHER -> IF mine THEN Pump(lets) ELSE s)

\* The tick a turn's end owed is over.
TickOver(e) ==
    /\ e \in lane.tails
    /\ UNCHANGED <<day, acts>>
    /\ \E free \in BOOLEAN : Becomes(Settled(Now, e, free))

-----------------------------------------------------------------------------
\* A planner tool's change waits on its check, and lands in the turn it was
\* made in, if that is still the one open. Bound: one change at a time.
StartCheck(t) ==
    /\ May("check") /\ talk.live = t /\ talk.turn[t].kind # "compaction"
    /\ ~talk.turn[t].aborted /\ (\A u \in Turn : ~talk.turn[u].checking) /\ ~(talk.turn[t].ids \subseteq plan.heard)
    /\ Becomes([Now EXCEPT !.talk.turn[t].checking = TRUE])

ToolTurn(t) == talk.live = t /\ talk.turn[t].at = "talking" /\ ~talk.turn[t].aborted /\ talk.turn[t].gen = plan.gen

\* Mutant of ChecksOut: the turn is not looked at again after the check.
ChecksOutAsCalled(t) ==
    /\ talk.turn[t].checking
    /\ UNCHANGED <<day, acts>>
    /\ LET s == [Now EXCEPT !.talk.turn[t].checking = FALSE] IN Becomes(Landed(s, talk.turn[t]))

ChecksOut(t) ==
    /\ talk.turn[t].checking
    /\ UNCHANGED <<day, acts>>
    /\ LET s == [Now EXCEPT !.talk.turn[t].checking = FALSE]
       IN  Becomes(IF ToolTurn(t) THEN Landed(s, talk.turn[t]) ELSE s)

\* New starts wait no longer for a turn that takes long.
HoldTimesOut(t) ==
    /\ talk.turn[t].hold /\ talk.turn[t].at = "talking" /\ lane.running = t
    /\ UNCHANGED <<day, acts>>
    /\ Becomes([Now EXCEPT !.talk.turn[t].hold = FALSE])

\* A wake-up past its time is stopped, and let go if it does not end then.
Overdue(t) ==
    /\ "hang" \in day /\ lane.running = t /\ talk.turn[t].at = "talking" /\ IsWakeUp(talk.turn[t])
    /\ ~talk.turn[t].late /\ ~talk.turn[t].dropped

TurnTimesOut(t) ==
    /\ Overdue(t)
    /\ UNCHANGED <<day, acts>>
    /\ Becomes([Now EXCEPT !.talk.turn[t].late = TRUE, !.talk.turn[t].aborted = TRUE])

Late(t) == "hang" \in day /\ lane.running = t /\ talk.live = t /\ talk.turn[t].late

\* Mutant of GraceEnds: the conversation is taken from it, and its queue not told.
GraceEndsQuietly(t) ==
    /\ Late(t) /\ Spare
    /\ UNCHANGED <<day, acts>>
    /\ Becomes([Drop(Now) EXCEPT !.talk.turn[t].kind = "hung"])

GraceEnds(t) ==
    /\ Late(t) /\ Spare
    /\ UNCHANGED <<day, acts>>
    /\ \E free \in BOOLEAN :
         LET r == talk.turn[t]
             s == [Drop(Now) EXCEPT !.talk.turn[t].kind = "hung"]
         IN  Becomes(Ended(Counted(s, r, "failed"), t, r, "failed", free))

-----------------------------------------------------------------------------
\* The limit's reset comes: what waits is sent again, or held if the planner has moved.
ResetComes ==
    /\ plan.limit = "armed"
    /\ UNCHANGED <<day, acts>>
    /\ Becomes(IF talk.moved THEN [Now EXCEPT !.plan.limit = "held"] ELSE Pump([Now EXCEPT !.plan.limit = "none"]))

CancelResend ==
    /\ Acts("cancel") /\ plan.limit = "armed"
    /\ Becomes([Now EXCEPT !.plan.limit = "held"])

SwitchPlanner ==
    /\ Acts("switch") /\ plan.limit = "armed" /\ ~talk.moved
    /\ Becomes([Now EXCEPT !.talk.moved = TRUE])

\* The user's Retry of a planner paused on its context: the turn it paused on, again.
RetryCompaction ==
    /\ Acts("retry") /\ plan.paused /\ lane.running = None /\ ~lane.detecting /\ talk.live = None
    /\ talk.known /\ talk.able /\ Spare
    /\ LET ids == Elems(plan.pending) \intersect plan.kept
       IN  /\ ids # {}
           /\ Becomes(LET s == [Now EXCEPT !.lane.restored = FALSE, !.lane.quiet = FALSE, !.lane.asked = TRUE]
                      IN  IF HasRoom(s) THEN Run(s, ids, TRUE) ELSE s)

\* The user condenses the conversation: a turn the queue does not open.
Compact ==
    /\ Acts("compact") /\ talk.live = None /\ talk.known /\ talk.able /\ HasRoom(Now) /\ Spare
    /\ Becomes(Claimed(Now, "compaction", {}, FALSE))

\* The planner in use stops, or starts again, being one that can plan.
SetAble ==
    /\ Acts("able")
    /\ Becomes([Now EXCEPT !.talk.able = ~@])

\* Another host took the session: its turn is let go, and no other opens.
LeaseLost ==
    /\ Acts("lease lost") /\ Spare /\ talk.able
    /\ Becomes([Drop(Now) EXCEPT !.talk.able = FALSE])

\* The probe answers: a queued turn is judged afresh, then an opening at the gate.
PlannerDetected ==
    /\ ~talk.known
    /\ UNCHANGED <<day, acts>>
    /\ LET s == [Now EXCEPT !.talk.known = TRUE, !.lane.detecting = FALSE]
           q == IF lane.detecting THEN Pump(s) ELSE s
       IN  /\ talk.opening.at = "probe" => FreeTurns(q) # {}
           /\ Becomes(IF talk.opening.at = "probe" THEN ThroughGate(q) ELSE q)

\* The tree has a slot again: an opening that waits for one is first.
TurnRoomFreed ==
    /\ ~talk.room
    /\ UNCHANGED <<day, acts>>
    /\ LET s == [Now EXCEPT !.talk.room = TRUE]
       IN  CASE talk.opening.at = "slot" -> Spare /\ Becomes(OpenGoal(s))
             [] talk.opening.at # "slot" -> Becomes(IF lane.awaitingSlot THEN Pump(s) ELSE s)

-----------------------------------------------------------------------------
TurnMoves(t) == EndTurn(t) \/ ChecksOut(t) \/ GraceEnds(t)

Next ==
    \/ \E i \in Input : Send(i) \/ Deliver(i) \/ ForceSend(i) \/ Withdraw(i) \/ StartPlanning(i)
    \/ AbortPlannerTurn \/ LoadPlan(<<>>) \/ (\E i \in Input : LoadPlan(<<i>>)) \/ Crash \/ ReportWake
    \/ \E t \in Turn : TurnMoves(t) \/ StartCheck(t) \/ HoldTimesOut(t) \/ TurnTimesOut(t)
    \/ \E e \in lane.tails : TickOver(e)
    \/ ResetComes \/ CancelResend \/ SwitchPlanner \/ RetryCompaction \/ Compact \/ SetAble \/ LeaseLost
    \/ PlannerDetected \/ TurnRoomFreed

Spec == Init /\ [][Next]_vars

\* A wake-up's call may hang: its timers are what ends it, and it unwinds once dropped.
MayHang(t) == "hang" \in day /\ IsWakeUp(talk.turn[t]) /\ ~talk.turn[t].dropped

\* Weak fairness, with what enables an action spelled out; each changes something.
\* Any other call settles, stopped or not; a check, a tick, a timer and the
\* probe come to an end; a reset comes; the tree's other turns end.
Fairness ==
    /\ \A t \in Turn : /\ []<>(talk.turn[t].at = "free" \/ MayHang(t)) \/ []<><<EndTurn(t)>>_vars
                       /\ []<>~Overdue(t) \/ []<><<TurnTimesOut(t)>>_vars
                       /\ []<>~(Late(t) /\ Spare) \/ []<><<GraceEnds(t)>>_vars
                       /\ []<>~talk.turn[t].checking \/ []<><<ChecksOut(t)>>_vars
    /\ []<>(lane.tails = {}) \/ []<><<\E e \in lane.tails : TickOver(e)>>_vars
    /\ []<>(plan.limit # "armed") \/ []<><<ResetComes>>_vars
    /\ []<>talk.room \/ []<><<TurnRoomFreed>>_vars
    /\ []<>(talk.known \/ ~Spare) \/ []<><<PlannerDetected>>_vars

FairSpec == Spec /\ Fairness

-----------------------------------------------------------------------------
TypeOK ==
    /\ plan.gen \in 1..MaxPlans /\ Elems(plan.pending) \subseteq Input
    /\ plan.forced \subseteq User \intersect Elems(plan.pending) /\ plan.goal \in User \union {None}
    /\ plan.heard \subseteq Input /\ plan.limit \in {"none", "armed", "held"} /\ plan.paused \in BOOLEAN
    /\ plan.kept \subseteq Input /\ plan.failures \in 0..2
    /\ lane.running \in Turn \union {None} /\ talk.live \in Turn \union {None}
    /\ lane.caller \in [Input -> {"none", "waiting", "kept", "busy", "refused", "answered", "failed", "limited",
                                  "paused", "stopped", "discarded"}]
    /\ \A t \in Turn : talk.turn[t].at \in {"free", "talking"} /\ talk.turn[t].ids \subseteq Input
    /\ acts \in 0..MaxActs

\* An input waits once, or is in the transcript, and never both: what a save
\* holds is neither answered twice nor lost to a reload.
AnsweredOnce ==
    /\ \A m, n \in DOMAIN plan.pending : plan.pending[m] = plan.pending[n] => m = n
    /\ Elems(plan.pending) \intersect plan.heard = {}

\* Whoever waits for an answer waits for something that will give one.
CallerIsOwed ==
    \A i \in Input : lane.caller[i] = "waiting" =>
        \/ i \in Elems(plan.pending) \union Taken(Now) \union Elems(talk.opening.held) \union {talk.opening.input}
        \/ \E t \in Turn : talk.turn[t].at = "talking" /\ i \in talk.turn[t].ids
        \/ \E e \in lane.tails : i \in e.ids

\* No message waits with a caller while nothing is under way that would take it.
NoCallerStranded ==
    (\E i \in Elems(plan.pending) \intersect User : lane.caller[i] = "waiting" /\ i \notin lane.withdrawn) =>
        \/ lane.running # None \/ talk.live # None
        \/ (lane.detecting /\ ~talk.known) \/ (lane.awaitingSlot /\ ~talk.room)
        \/ Holds(Now) \/ plan.paused

\* Nobody is left waiting for an answer: what they sent is somewhere, and
\* something is under way that takes it from there.
CallersAreOwed == CallerIsOwed /\ NoCallerStranded

\* New starts are held by the turn in flight alone, whose own timer ends it.
HoldHasTurn ==
    \A t \in Turn : talk.turn[t].hold => lane.running = t /\ talk.turn[t].at = "talking"

\* The slot is out as long as a turn needs it, and no longer.
SlotHasTurn == talk.lease <=> (lane.running # None \/ talk.live # None)

\* What a turn takes from the others, their slot in the tree and their new
\* starts, it has exactly while it is under way: no end of it leaves either behind.
TurnTakesItsOwn == HoldHasTurn /\ SlotHasTurn

\* What the user stopped opens no turn of its own: the next one is asked for.
StopAnswers ==
    [][lane'.running # None /\ lane'.running # lane.running => lane'.asked]_vars

\* After a force send nothing goes between the turn it stopped and its own, but
\* a retry, or the goal of an opening it waited behind.
ForcedGoesNext ==
    [][\A i \in plan.forced \ lane.withdrawn :
          /\ i \in Elems(plan.pending) /\ plan.goal \notin Elems(plan.pending)
          /\ lane.running = None /\ lane'.running # None
          => LET t == talk'.turn[lane'.running] IN t.retry \/ (t.ids \subseteq plan.forced /\ Cardinality(t.ids) = 1)]_vars

\* Only the live turn writes, on the plan it answers; one that was stopped, only as it ends.
LandsCurrent ==
    [][plan'.gen = plan.gen /\ plan'.heard # plan.heard =>
          /\ talk.live # None
          /\ talk.turn[talk.live].gen = plan.gen
          /\ plan'.heard \ plan.heard \subseteq talk.turn[talk.live].ids
          /\ talk.turn[talk.live].aborted => ~talk'.turn[talk.live].aborted]_vars

\* The next turn is the one asked for: none of its own after a Stop, and the forced one after a force send.
NextIsAsked == StopAnswers /\ ForcedGoesNext

\* A wake-up leaves the list with an answer, or because the user stopped it.
WakeUpsStay ==
    [][\A i \in Wake \union Report :
          plan'.gen = plan.gen /\ i \in Elems(plan.pending) /\ i \notin Elems(plan'.pending)
              => \/ i \in plan'.heard \/ acts' # acts
                 \/ \E t \in Turn : talk.turn[t].aborted /\ i \in talk.turn[t].ids /\ ~talk.turn[t].forceStopped]_vars

\* Every sender hears, unless the planner waits on its limit or is paused.
CallersHear ==
    \A i \in User : lane.caller[i] = "waiting" ~> (lane.caller[i] # "waiting" \/ Holds(Now) \/ plan.paused)

\* New starts are always let go.
HoldEnds == \A t \in Turn : talk.turn[t].hold ~> ~talk.turn[t].hold

\* Senders hear and starts are let go, though calls hang and checks go on past a stop.
TurnsGoOn == CallersHear /\ HoldEnds
=============================================================================
