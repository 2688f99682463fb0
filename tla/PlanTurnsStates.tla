-------------------------- MODULE PlanTurnsStates --------------------------
(* What PlanTurnsProofs says of a state and of a step. A handler of PlanTurns  *)
(* is a function of the whole state, so the parts of the inductive invariants  *)
(* are predicates of a state s, and of D, what its day allows; and what a      *)
(* handler does is a relation of the state s it found and the state r it left. *)
EXTENDS PlanTurns

-----------------------------------------------------------------------------
\* The fields a state has, whatever most of them hold.
TurnIsRecord(r) ==
    r \in [at : {"free", "talking"}, kind : {"reply", "opening", "compaction", "hung"}, gen : Nat, ids : {r.ids},
           aborted : BOOLEAN, dropped : BOOLEAN, forceStopped : {r.forceStopped}, retry : {r.retry},
           late : {r.late}, hold : BOOLEAN, checking : {r.checking}]

PlanShaped(p) ==
    p \in [gen : Nat, goal : {p.goal}, pending : {p.pending}, forced : {p.forced}, heard : {p.heard},
           limit : {p.limit}, paused : {p.paused}, kept : {p.kept}, failures : {p.failures}]

LaneShaped(l) ==
    l \in [running : Turn \union {None}, tails : {l.tails}, detecting : {l.detecting},
           awaitingSlot : {l.awaitingSlot}, quiet : {l.quiet}, restored : {l.restored},
           reportWake : {l.reportWake}, caller : {l.caller}, withdrawn : {l.withdrawn}, asked : {l.asked}]

TalkShaped(k) ==
    /\ k \in [live : Turn \union {None}, turn : {k.turn}, opening : {k.opening}, lease : BOOLEAN,
              room : {k.room}, known : {k.known}, able : BOOLEAN, moved : {k.moved}]
    /\ k.opening \in [at : {k.opening.at}, input : {k.opening.input}, held : {k.opening.held},
                      forced : {k.opening.forced}]
    /\ k.turn = [t \in Turn |-> k.turn[t]]
    /\ \A t \in Turn : TurnIsRecord(k.turn[t])

Shaped(s) ==
    /\ s \in [plan : {s.plan}, lane : {s.lane}, talk : {s.talk}]
    /\ PlanShaped(s.plan) /\ LaneShaped(s.lane) /\ TalkShaped(s.talk)

\* Nothing is different of the turns, their slot and what is written.
SameTurns(s, r) ==
    /\ r.plan.gen = s.plan.gen /\ r.plan.heard = s.plan.heard
    /\ r.lane.running = s.lane.running /\ r.lane.tails = s.lane.tails
    /\ r.talk.live = s.talk.live /\ r.talk.turn = s.talk.turn /\ r.talk.lease = s.talk.lease
    /\ r.talk.able = s.talk.able /\ r.talk.opening.at \in {s.talk.opening.at, "none"}

Alike(s, r) == Shaped(r) /\ SameTurns(s, r)

\* Turn t of kind k has taken the conversation, found free, and the slot.
Claims(s, r, t, k) ==
    /\ Shaped(r) /\ r.plan.gen = s.plan.gen /\ r.plan.heard = s.plan.heard
    /\ r.lane.tails = s.lane.tails /\ r.talk.able = s.talk.able
    /\ r.talk.opening.at \in {s.talk.opening.at, "none"}
    /\ t \in Turn /\ s.talk.turn[t].at = "free" /\ s.talk.live = None
    /\ r.talk.lease /\ r.talk.live = t
    /\ LET n == r.talk.turn[t]
       IN  n.at = "talking" /\ n.kind = k /\ n.gen = s.plan.gen /\ ~n.aborted /\ ~n.dropped /\ (n.hold <=> k = "reply")
    /\ \A u \in Turn \ {t} : r.talk.turn[u] = s.talk.turn[u]

\* One the queue opened: it is the turn in flight.
Opens(s, r) == s.lane.running = None /\ \E t \in Turn : r.lane.running = t /\ Claims(s, r, t, "reply")

\* One it did not.
Takes(s, r, k) == r.lane.running = s.lane.running /\ \E t \in Turn : Claims(s, r, t, k)

\* All but turn t is as it was.
ButTurn(s, r, t) ==
    /\ Shaped(r) /\ r.plan = s.plan /\ r.lane = s.lane /\ r.talk.live = s.talk.live
    /\ r.talk.lease = s.talk.lease /\ r.talk.able = s.talk.able /\ r.talk.opening = s.talk.opening
    /\ \A u \in Turn \ {t} : r.talk.turn[u] = s.talk.turn[u]

\* What the pump leaves is what it found, or a turn it opened.
Pumps(s, r) == Alike(s, r) \/ Opens(s, r)

-----------------------------------------------------------------------------
\* First invariant, of a state and what its day allows: what turns take is theirs.
HoldsOwn(s) ==
    \A t \in Turn : s.talk.turn[t].hold =>
        s.lane.running = t /\ s.talk.turn[t].at = "talking" /\ s.talk.turn[t].kind = "reply"

SlotOwn(s) == s.talk.lease <=> (s.lane.running # None \/ s.talk.live # None)

\* The live turn talks, on the plan held now, and every other that talks was dropped.
LiveOwn(s) ==
    /\ s.talk.live # None => LET r == s.talk.turn[s.talk.live]
                             IN  r.at = "talking" /\ r.gen = s.plan.gen /\ ~r.dropped
    /\ \A t \in Turn : s.talk.turn[t].at = "talking" /\ ~s.talk.turn[t].dropped => s.talk.live = t

\* The live turn is the one in flight when it is the queue's, and otherwise none is.
FlightOwn(s) ==
    s.talk.live # None =>
        s.lane.running = IF s.talk.turn[s.talk.live].kind = "reply" THEN s.talk.live ELSE None

\* A turn in flight has its call, or a tick its end waits on, and never both.
TailOwn(s) ==
    s.lane.running # None =>
        LET r == s.talk.turn[s.lane.running]
        IN  s.lane.tails = {} <=> r.at = "talking" /\ r.kind = "reply"

\* A tick is of a turn's end, which lets nothing but itself go.
TickOwn(s, D) ==
    s.lane.tails # {} =>
        /\ s.lane.running # None /\ s.talk.live = None /\ "ticks" \in D
        /\ \E e \in s.lane.tails : s.lane.tails = {e}

\* A day's acts decide what can meet.
DayOwn(s, D) ==
    /\ "ticks" \in D => s.talk.opening.at = "none"
    /\ s.lane.running # None /\ s.talk.live = None /\ s.lane.tails = {}
           => "lease lost" \in D /\ ("able" \in D \/ ~s.talk.able)

Own(s, D) ==
    /\ Shaped(s) /\ HoldsOwn(s) /\ SlotOwn(s) /\ LiveOwn(s) /\ FlightOwn(s) /\ TailOwn(s)
    /\ TickOwn(s, D) /\ DayOwn(s, D)

\* The plan a state is of, and what its transcript has; a turn is not un-stopped.
Writes(s, r, X) ==
    /\ r.plan.gen = s.plan.gen /\ r.plan.heard = s.plan.heard \union X
    /\ \A t \in Turn : r.talk.turn[t].aborted => s.talk.turn[t].aborted

\* A flag of a turn's that no other reads: its stop, its lateness, its check.
SameButFlags(s, r) ==
    /\ Shaped(r) /\ r.plan.gen = s.plan.gen /\ r.plan.heard = s.plan.heard
    /\ r.lane.running = s.lane.running /\ r.lane.tails = s.lane.tails
    /\ r.talk.live = s.talk.live /\ r.talk.lease = s.talk.lease
    /\ r.talk.able = s.talk.able /\ r.talk.opening.at \in {s.talk.opening.at, "none"}
    /\ \A t \in Turn : /\ r.talk.turn[t].at = s.talk.turn[t].at /\ r.talk.turn[t].kind = s.talk.turn[t].kind
                       /\ r.talk.turn[t].gen = s.talk.turn[t].gen /\ (r.talk.turn[t].dropped <=> s.talk.turn[t].dropped)
                       /\ r.talk.turn[t].hold => s.talk.turn[t].hold

\* Turn t is still what it was a turn of; one flag of it is set.
SameTurn(s, r, t) ==
    LET n == r.talk.turn[t]
        o == s.talk.turn[t]
    IN  n.at = o.at /\ n.kind = o.kind /\ n.gen = o.gen

WithFlag(s, r, t) ==
    /\ ButTurn(s, r, t) /\ SameTurn(s, r, t) /\ (r.talk.turn[t].dropped <=> s.talk.turn[t].dropped)
    /\ (r.talk.turn[t].hold <=> s.talk.turn[t].hold)

TurnDropped(s, r, t) ==
    /\ ButTurn(s, r, t) /\ SameTurn(s, r, t) /\ r.talk.turn[t].dropped
    /\ (r.talk.turn[t].hold <=> s.talk.turn[t].hold)

HoldGone(s, r, t) ==
    /\ ButTurn(s, r, t) /\ SameTurn(s, r, t) /\ (r.talk.turn[t].dropped <=> s.talk.turn[t].dropped)
    /\ ~r.talk.turn[t].hold /\ (r.talk.turn[t].aborted <=> s.talk.turn[t].aborted)

TurnHung(s, r, t) ==
    /\ ButTurn(s, r, t) /\ r.talk.turn[t].at = s.talk.turn[t].at /\ r.talk.turn[t].kind = "hung"
    /\ (r.talk.turn[t].dropped <=> s.talk.turn[t].dropped) /\ (r.talk.turn[t].hold <=> s.talk.turn[t].hold)

\* The conversation has let its turn go.
LetsGo(s, r) ==
    /\ Shaped(r) /\ r.plan = s.plan /\ r.lane = s.lane /\ r.talk.live = None
    /\ r.talk.able = s.talk.able /\ r.talk.opening = s.talk.opening
    /\ r.talk.lease <=> s.talk.lease /\ (s.lane.running # None \/ s.talk.live = None)
    /\ \A t \in Turn : LET n == r.talk.turn[t]
                           o == s.talk.turn[t]
                       IN  /\ n.at = o.at /\ n.kind = o.kind /\ n.gen = o.gen /\ (n.hold <=> o.hold)
                           /\ n.dropped <=> o.dropped \/ t = s.talk.live
                           /\ t # s.talk.live => n = o

\* Nothing of the plan's turns is under way: each still talking was let go.
Cleared(s, r) ==
    /\ Shaped(r) /\ r.plan = s.plan /\ r.lane.tails = s.lane.tails /\ r.talk.able = s.talk.able
    /\ r.talk.opening = s.talk.opening /\ r.lane.running = None /\ r.talk.live = None /\ ~r.talk.lease
    /\ \A t \in Turn : ~r.talk.turn[t].hold /\ (r.talk.turn[t].at = "talking" => r.talk.turn[t].dropped)
    /\ FreeTurns(s) \subseteq FreeTurns(r)

\* No turn is in flight or live, and none that still talks is anybody's.
Vacant(s) ==
    /\ Shaped(s) /\ s.lane.running = None /\ s.talk.live = None /\ s.lane.tails = {}
    /\ \A t \in Turn : ~s.talk.turn[t].hold /\ (s.talk.turn[t].at = "talking" => s.talk.turn[t].dropped)

\* Still so on a plan p, the conversation as it was; or with the turns as they were.
VacantOn(s, r, p) == Vacant(r) /\ r.plan = p /\ r.talk = s.talk
VacantStill(s, r) == Vacant(r) /\ r.plan = s.plan /\ r.lane = s.lane /\ r.talk.turn = s.talk.turn

\* It is of the plan after.
Renews(s, r) == r.plan.gen = s.plan.gen + 1

\* The plan another session had is adopted.
Loaded(s, saved, X, wakes) ==
    [Tell(Abandon(Drop(EndWaiting(s, "discarded"))), X, "kept") EXCEPT
        !.plan = FreshPlan(s.plan.gen + 1, None, saved), !.lane.restored = TRUE, !.lane.asked = FALSE,
        !.lane.reportWake = wakes, !.talk.moved = FALSE]

\* The call of turn t is over: what it left, and what its transcript took.
CallOver(s, r, t, X) ==
    /\ Shaped(r) /\ Writes(s, r, X) /\ r.lane.running = s.lane.running /\ r.lane.tails = s.lane.tails
    /\ r.talk.lease = s.talk.lease /\ r.talk.able = s.talk.able /\ r.talk.opening.at \in {s.talk.opening.at, "none"}
    /\ r.talk.live = IF s.talk.live = t THEN None ELSE s.talk.live
    /\ r.talk.turn[t].at = "free" /\ ~r.talk.turn[t].aborted /\ (r.talk.turn[t].hold <=> s.talk.turn[t].hold)
    /\ \A u \in Turn \ {t} : r.talk.turn[u] = s.talk.turn[u]

\* What lands is written, and otherwise nothing of the turns changes.
LandsIn(s, r, X) ==
    /\ Shaped(r) /\ r.plan.gen = s.plan.gen /\ r.plan.heard = s.plan.heard \union X
    /\ r.lane.running = s.lane.running /\ r.lane.tails = s.lane.tails
    /\ r.talk.live = s.talk.live /\ r.talk.turn = s.talk.turn /\ r.talk.lease = s.talk.lease
    /\ r.talk.able = s.talk.able /\ r.talk.opening.at \in {s.talk.opening.at, "none"}

\* The end of the turn in flight: nothing of the conversation's is left of it.
Ending(s, t, D) ==
    /\ Shaped(s) /\ t \in Turn /\ s.lane.running = t /\ s.talk.live = None /\ s.lane.tails = {} /\ s.talk.lease
    /\ ~(s.talk.turn[t].at = "talking" /\ s.talk.turn[t].kind = "reply")
    /\ \A u \in Turn : /\ s.talk.turn[u].hold => u = t
                       /\ s.talk.turn[u].at = "talking" => s.talk.turn[u].dropped
    /\ "ticks" \in D => s.talk.opening.at = "none"

\* Ticks are of days on which no other turn comes meanwhile; and a session whose
\* lease was lost does not plan again the day it also compacts.
TicksAlone == \A D \in Days : "ticks" \in D => D \intersect {"goal", "load", "compact"} = {}
LostForGood == \A D \in Days : ~({"compact", "lease lost", "able"} \subseteq D)
DaysGo == InputAssumption /\ TicksAlone /\ LostForGood
OwnInv == Own(Now, day) /\ day \in Days

\* What LandsCurrent says of a step.
Landing ==
    plan'.gen = plan.gen /\ plan'.heard # plan.heard =>
        /\ talk.live # None
        /\ talk.turn[talk.live].gen = plan.gen
        /\ plan'.heard \ plan.heard \subseteq talk.turn[talk.live].ids
        /\ talk.turn[talk.live].aborted => ~talk'.turn[talk.live].aborted

\* A state a handler may leave that writes nothing.
Quiet(s, r) == Own(r, day) /\ (r.plan.gen = s.plan.gen => r.plan.heard = s.plan.heard)

-----------------------------------------------------------------------------
\* What Those has gathered of the first n.
Gathers(f, n, q, X) ==
    f = [k \in 0..n |-> IF k = 0 THEN <<>> ELSE IF q[k] \in X THEN Append(f[k - 1], q[k]) ELSE f[k - 1]]

OneEach(q) == \A m, n \in DOMAIN q : q[m] = q[n] => m = n

\* Places h of q are those r was taken from, in order.
Places(h, r, q, X, n) ==
    /\ h \in [1..Len(r) -> 1..n]
    /\ \A k \in 1..Len(r) : r[k] = q[h[k]] /\ q[h[k]] \in X
    /\ \A j, k \in 1..Len(r) : j < k => h[j] < h[k]
    /\ \A m \in 1..n : q[m] \in X => \E k \in 1..Len(r) : h[k] = m

-----------------------------------------------------------------------------
\* Second invariant: where the inputs are. What a caller may hear, and how a
\* turn's end may say it.
Hows == {"answered", "failed", "limited", "paused", "stopped", "discarded"}
Words == Hows \union {"waiting", "kept", "busy", "refused"}

\* Those somebody sent.
Sent(c) == {i \in Input : c[i] # "none"}

\* The list and the transcript: sent once, each in one of the two.
Listed(p, c) ==
    /\ p.pending \in Seq(Input) /\ OneEach(p.pending)
    /\ p.heard \subseteq Sent(c) /\ Elems(p.pending) \subseteq Sent(c) \ p.heard
    /\ p.forced \subseteq User \intersect Elems(p.pending)
    /\ p.gen \in 1..MaxPlans /\ p.goal \in User \union {None} /\ p.limit \in {"none", "armed", "held"}
    /\ p.paused \in BOOLEAN /\ p.kept \subseteq Input /\ p.failures \in 0..2

\* An opening still at the gate, and what is held behind it.
Gated(o, g, c, D) ==
    /\ o.at \in {"none", "probe", "slot", "open"}
    /\ o.held \in Seq(Input) /\ OneEach(o.held) /\ Elems(o.held) \subseteq User \intersect Sent(c)
    /\ o.at \in {"probe", "slot"} =>
         o.input \in (User \intersect Sent(c)) \ Elems(o.held) /\ "goal" \in D /\ g < MaxPlans

\* What a turn was told was sent; a goal that may yet be put back is nowhere else.
TurnFits(r, p, c, D) ==
    /\ r.ids \subseteq Sent(c)
    /\ r.checking => "check" \in D
    /\ r.kind = "opening" /\ r.at = "talking" /\ ~r.dropped =>
         /\ "goal" \in D
         /\ \E g \in Input : r.ids = {g} /\ g \notin Elems(p.pending) \union p.heard

Fits(s, D) ==
    /\ Shaped(s) /\ s.lane.caller \in [Input -> Words \union {"none"}]
    /\ Listed(s.plan, s.lane.caller)
    /\ Gated(s.talk.opening, s.plan.gen, s.lane.caller, D)
    /\ \A t \in Turn : TurnFits(s.talk.turn[t], s.plan, s.lane.caller, D)
    /\ \A e \in s.lane.tails : e.how \in Hows

\* Nothing that says where an input is has changed.
Still(s, r) ==
    /\ Shaped(r) /\ r.plan = s.plan /\ r.lane.caller = s.lane.caller /\ r.lane.tails \subseteq s.lane.tails
    /\ r.talk.opening \in {s.talk.opening, NoOpening} /\ r.talk.turn = s.talk.turn

\* An input taken in, before the pump.
Admitted(s, i, force) ==
    LET q == [Lifted(s) EXCEPT !.lane.restored = FALSE, !.lane.quiet = FALSE, !.lane.asked = TRUE,
                  !.plan.pending = Enlisted(@, i, force, s.plan.forced \union Taken(s)),
                  !.plan.forced = IF force THEN @ \union {i} ELSE @]
    IN  Tell(q, {i}, IF i \in User /\ (Holds(q) \/ q.plan.paused) THEN "kept" ELSE "waiting")

\* A turn's own record of what it was told, and no other's, decides where a goal
\* is: no day has both an opening and a change of its tools' that waits on a check.
NoGoalChecks == \A D \in Days : ~({"goal", "check"} \subseteq D)
FitsInv == Fits(Now, day) /\ OwnInv

-----------------------------------------------------------------------------
\* Third invariant: who waits for an answer waits for something. Where an input is
\* that a caller waits on, and what will take it from there.
TakenBy(s, t, i) ==
    /\ s.talk.turn[t].at = "talking" /\ i \in s.talk.turn[t].ids
    /\ s.talk.turn[t].kind = "opening" \/ (s.talk.turn[t].kind = "reply" /\ s.lane.running = t)

Somewhere(s, i) ==
    \/ i \in Elems(s.plan.pending)
    \/ s.talk.opening.at \in {"probe", "slot"} /\ i \in Elems(s.talk.opening.held) \union {s.talk.opening.input}
    \/ \E t \in Turn : TakenBy(s, t, i)
    \/ \E e \in s.lane.tails : i \in e.ids

\* Those whose caller waits; of them, those that are nowhere; and the messages
\* in the list that are not withdrawn.
Owing(s) == {i \in Input : s.lane.caller[i] = "waiting"}
Lost(s) == {i \in Owing(s) : ~Somewhere(s, i)}
Calls(s) == {i \in Owing(s) : i \in Elems(s.plan.pending) /\ i \in User /\ i \notin s.lane.withdrawn}

\* Nobody new waits, nowhere or in the list.
Eases(s, r) == Owing(r) \subseteq Owing(s) /\ Lost(r) \subseteq Lost(s) /\ Calls(r) \subseteq Calls(s)

\* Only the list, the callers and what is saved of the plan are changed.
Frame(s, r) ==
    /\ Shaped(r)
    /\ r.lane.running = s.lane.running /\ r.lane.tails = s.lane.tails /\ r.lane.withdrawn = s.lane.withdrawn
    /\ r.lane.restored = s.lane.restored /\ r.lane.detecting = s.lane.detecting
    /\ r.lane.awaitingSlot = s.lane.awaitingSlot
    /\ r.talk.turn = s.talk.turn /\ r.talk.live = s.talk.live /\ r.talk.opening = s.talk.opening
    /\ r.talk.known = s.talk.known

\* Turn t, idle before, is one of kind k on ids, and live.
TurnTaken(s, r, t, k, ids) ==
    /\ Shaped(r) /\ r.plan = s.plan /\ r.talk.opening = s.talk.opening /\ r.talk.known = s.talk.known
    /\ t \in Turn /\ s.talk.turn[t] = Idle /\ r.talk.live = t
    /\ LET n == r.talk.turn[t]
       IN  n.at = "talking" /\ n.kind = k /\ n.ids = ids /\ n.dropped = FALSE /\ n.checking = FALSE
    /\ \A u \in Turn \ {t} : r.talk.turn[u] = s.talk.turn[u]

\* The lane is as it was, but for the turn in flight.
LaneSame(s, r) ==
    /\ r.lane.tails = s.lane.tails /\ r.lane.withdrawn = s.lane.withdrawn /\ r.lane.caller = s.lane.caller
    /\ r.lane.restored = s.lane.restored /\ r.lane.detecting = s.lane.detecting
    /\ r.lane.awaitingSlot = s.lane.awaitingSlot

\* Of the turns: a place is free or being checked, one check is waited on, a turn
\* that hangs was let go, and when none is live there is a place for the next.
Checked == [Idle EXCEPT !.checking = TRUE]

Turning(s, D) ==
    /\ \A t \in Turn : /\ s.talk.turn[t].at = "free" => s.talk.turn[t] \in {Idle, Checked}
                       /\ s.talk.turn[t].checking \in BOOLEAN
                       /\ "check" \in D => ~s.talk.turn[t].dropped
                       /\ s.talk.turn[t].at = "talking" /\ s.talk.turn[t].kind = "compaction" =>
                            "compact" \in D /\ s.talk.turn[t].ids = {}
                       /\ s.talk.turn[t].kind = "hung" => s.talk.turn[t].dropped
    /\ \A t, u \in Turn : s.talk.turn[t].checking /\ s.talk.turn[u].checking => t = u
    /\ s.talk.live = None => \E t \in Turn : s.talk.turn[t] = Idle

\* Of the callers: they are of the day, none with a message waits on a plan
\* read back, and a probe is waited on only until it has answered.
Calling(s, D) ==
    /\ Owing(s) \subseteq D
    /\ s.lane.restored => Calls(s) = {}
    /\ s.lane.detecting => ~s.talk.known

Ready(s, D) == Fits(s, D) /\ Turning(s, D) /\ Calling(s, D)
Waits(s) == (s.lane.awaitingSlot /\ ~s.talk.room) \/ Holds(s) \/ s.plan.paused

Served(s) ==
    Calls(s) # {} =>
        s.lane.running # None \/ s.talk.live # None \/ (s.lane.detecting /\ ~s.talk.known) \/ Waits(s)

\* Everybody who waits is owed an answer.
Owed(s, D) == Ready(s, D) /\ Lost(s) = {} /\ Served(s)

\* A turn that talks is marked: stopped, late, its starts let go.
Marked(s, r, t) ==
    /\ Shaped(r) /\ r.plan = s.plan /\ r.lane = s.lane /\ r.talk.live = s.talk.live
    /\ r.talk.opening = s.talk.opening /\ r.talk.known = s.talk.known /\ r.talk.room = s.talk.room
    /\ \A u \in Turn \ {t} : r.talk.turn[u] = s.talk.turn[u]
    /\ LET n == r.talk.turn[t]
           o == s.talk.turn[t]
       IN  n.at = o.at /\ n.kind = o.kind /\ n.ids = o.ids /\ n.dropped = o.dropped /\ n.checking = o.checking

\* Nothing is different of where inputs are and who waits for them; the list may
\* be held back less, and what else is saved may be anything.
Loose(s, r) ==
    /\ Shaped(r) /\ Elems(r.plan.pending) = Elems(s.plan.pending)
    /\ r.lane.running = s.lane.running /\ r.lane.tails = s.lane.tails /\ r.lane.withdrawn = s.lane.withdrawn
    /\ r.lane.caller = s.lane.caller
    /\ (r.lane.restored => s.lane.restored) /\ (r.lane.detecting => s.lane.detecting /\ ~r.talk.known)
    /\ r.talk.turn = s.talk.turn /\ r.talk.live = s.talk.live /\ r.talk.opening = s.talk.opening

\* Two turns can be under way; a check is of days on which nothing is let go while
\* it runs; and a session is lost on no day it also plans a goal, nor on one a
\* user's message meets a compaction.
TwoTurns == \E t, u \in Turn : t # u
ChecksStay == \A D \in Days : "check" \in D => D \intersect {"goal", "load", "hang", "lease lost"} = {}
LostQuietly == \A D \in Days : "lease lost" \in D => "goal" \notin D /\ ("compact" \notin D \/ D \intersect User = {})
DaysOwe == DaysGo /\ TwoTurns /\ ChecksStay /\ LostQuietly
OwedInv == Owed(Now, day) /\ OwnInv

\* A turn's check is waited on, or is over.
CheckSet(s, r, t, b) ==
    /\ Shaped(r) /\ r.plan = s.plan /\ r.lane = s.lane /\ r.talk.live = s.talk.live
    /\ r.talk.opening = s.talk.opening /\ r.talk.known = s.talk.known /\ r.talk.room = s.talk.room
    /\ \A u \in Turn \ {t} : r.talk.turn[u] = s.talk.turn[u]
    /\ r.talk.turn[t] = [s.talk.turn[t] EXCEPT !.checking = b]
    /\ LET n == r.talk.turn[t]
           o == s.talk.turn[t]
       IN  n.at = o.at /\ n.kind = o.kind /\ n.ids = o.ids /\ n.dropped = o.dropped /\ n.checking = b

\* Every turn goes on as what it was, but for being let go.
TurnsStay(s, r) ==
    /\ Shaped(r) /\ r.talk.opening = s.talk.opening /\ r.talk.known = s.talk.known
    /\ \A t \in Turn : LET n == r.talk.turn[t]
                           o == s.talk.turn[t]
                       IN  /\ n.at = o.at /\ n.kind = o.kind /\ n.ids = o.ids /\ n.checking = o.checking
                           /\ o.dropped => n.dropped
                           /\ o.at = "free" => n = o

\* What the plan's end leaves: no turn of the plan's is anybody's, and whoever
\* waited in its queue has heard.
Gone(s, r) ==
    /\ TurnsStay(s, r) /\ r.plan = s.plan /\ r.talk.live = None /\ r.lane.running = None
    /\ r.lane.tails = s.lane.tails /\ r.lane.withdrawn = s.lane.withdrawn /\ ~r.lane.restored
    /\ r.lane.detecting = s.lane.detecting /\ r.lane.awaitingSlot = s.lane.awaitingSlot
    /\ \A j \in Input : r.lane.caller[j] = "waiting" =>
          /\ s.lane.caller[j] = "waiting" /\ j \notin Elems(s.plan.pending)
          /\ \A t \in Turn : s.lane.running = t => j \notin s.talk.turn[t].ids

\* The call of turn t is over, and X of its inputs have left the list.
Ends(s, r, t, X) ==
    /\ Shaped(r)
    /\ r.lane.running = s.lane.running /\ r.lane.tails = s.lane.tails /\ r.lane.withdrawn = s.lane.withdrawn
    /\ r.lane.restored = s.lane.restored /\ r.lane.detecting = s.lane.detecting
    /\ r.lane.awaitingSlot = s.lane.awaitingSlot /\ r.lane.caller = s.lane.caller
    /\ r.talk.opening = s.talk.opening /\ r.talk.known = s.talk.known
    /\ r.talk.live = IF s.talk.live = t THEN None ELSE s.talk.live
    /\ r.talk.turn[t] = [Idle EXCEPT !.checking = s.talk.turn[t].checking, !.hold = s.talk.turn[t].hold]
    /\ \A u \in Turn \ {t} : r.talk.turn[u] = s.talk.turn[u]
    /\ Elems(r.plan.pending) = Elems(s.plan.pending) \ X

-----------------------------------------------------------------------------
\* Fourth invariant: what a caller withdraws is of the user's, and a turn that the
\* conversation let go was stopped.
Wary(s) ==
    /\ s.lane.withdrawn \subseteq User
    /\ \A t \in Turn : s.talk.turn[t].dropped => s.talk.turn[t].aborted

\* A handler leaves that as it was.
Minds(s, r) ==
    /\ r.lane.withdrawn = s.lane.withdrawn
    /\ \A t \in Turn : (s.talk.turn[t].dropped => s.talk.turn[t].aborted)
                           => (r.talk.turn[t].dropped => r.talk.turn[t].aborted)

\* The list and the transcript too, or those in the list that are not the user's.
Light(s, r) == Shaped(r) /\ Minds(s, r) /\ r.plan.pending = s.plan.pending /\ r.plan.heard = s.plan.heard

Spares(s, r) ==
    /\ Minds(s, r) /\ r.plan.heard = s.plan.heard
    /\ r.plan.pending \in Seq(Input) /\ Elems(s.plan.pending) \ User \subseteq Elems(r.plan.pending)

\* What an end leaves of the list: all but X, those of the user's aside.
Spends(s, r, X) ==
    /\ Minds(s, r) /\ r.plan.heard = s.plan.heard
    /\ r.plan.pending \in Seq(Input) /\ Elems(s.plan.pending) \ User \subseteq Elems(r.plan.pending) \union X

\* What WakeUpsStay says of a step, and what a handler leaves for it.
Excused(i) == \E t \in Turn : talk.turn[t].aborted /\ i \in talk.turn[t].ids /\ ~talk.turn[t].forceStopped

Staying ==
    \A i \in Wake \union Report :
        plan'.gen = plan.gen /\ i \in Elems(plan.pending) /\ i \notin Elems(plan'.pending)
            => \/ i \in plan'.heard \/ acts' # acts
               \/ Excused(i)

WakeInv == FitsInv /\ Wary(Now) /\ acts \in 0..MaxActs
Stays == Wary(Now') /\ Staying

Leaves(r) ==
    /\ Becomes(r) /\ Wary(r)
    /\ \/ acts' # acts \/ r.plan.gen # plan.gen
       \/ \A i \in Elems(plan.pending) \ User : i \in Elems(r.plan.pending) \union r.plan.heard \/ Excused(i)

\* At the start of a step.
Poised ==
    /\ InputAssumption /\ Fits(Now, day) /\ Own(Now, day) /\ Light(Now, Now) /\ Shaped(Now)
    /\ Now.plan.pending \in Seq(Input) /\ Now.lane.withdrawn \subseteq User /\ Spares(Now, Now)
=============================================================================
