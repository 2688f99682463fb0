------------------------------- MODULE SlotPool -------------------------------
(***************************************************************************)
(* The pool of slots a tree of Sessions shares (services/SlotPool.ts), and *)
(* the three callers that take from it: a Session's planner turn           *)
(* (createSession.turnRoom), an attempt's start (TaskOrchestrator.claim)   *)
(* and the refused start that keeps its Session (TaskOrchestrator          *)
(* .slotsFull).                                                            *)
(*                                                                         *)
(* A claim is named by what holds it: a node stands for that node's        *)
(* planner turn (a Session has one turn lease), a task for its attempt.    *)
(* Everything in the pool that grants a slot is synchronous: between the   *)
(* free that begins an offer and the end of its loop (offering) no other   *)
(* step runs, so every other action waits for ~Offering.                   *)
(***************************************************************************)
EXTENDS Integers, Sequences, FiniteSets, SequencesExt

CONSTANTS
    Node,        \* Sessions that may join the tree
    Root,        \* the Session that joins first
    Task,        \* attempts the Sessions may start, each started once
    Owner,       \* the Session whose attempt a task is
    Limit,       \* config.maxParallelSessions
    MaxInputs,   \* bound: inputs and questions the environment brings
    None         \* no claim, no node

ASSUME NodeAssumption == Root \in Node /\ None \notin Node \cup Task
ASSUME TaskAssumption == Node \cap Task = {} /\ Owner \in [Task -> Node]
ASSUME LimitAssumption == Limit \in Nat \ {0}

VARIABLES
    nodes,       \* pool.nodes
    gone,        \* nodes that have left; a Session that comes back is a new node
    holders,     \* pool.holders
    passing,     \* pool.passing
    keptTurns,   \* pool.keptTurns
    keptStarts,  \* pool.keptStarts
    turnsLeft,   \* offer()'s loop: the turns it may still offer, or NotOffering
    offering,    \* pool.offering: offerStarts is in flight
    startTick,   \* the node whose tick offerStarts awaits, None once it is woken
    due,         \* nodes with a planner turn due
    ready,       \* tasks a tick of their Session would start
    ticking,     \* nodes whose tick is under way
    asking,      \* attempts that wait on their planner (waitsMidAttempt)
    unheard,     \* those of them whose wake-up has not reached it yet
    ended,       \* attempts that have ended
    inputs       \* inputs and questions so far

poolVars == <<nodes, gone, holders, passing, keptTurns, keptStarts, turnsLeft, offering, startTick>>
vars == <<poolVars, due, ready, ticking, asking, unheard, ended, inputs>>

Claim == Node \cup Task
NotOffering == -1

TypeOK ==
    /\ nodes \in SUBSET Node
    /\ gone \in SUBSET Node
    /\ holders \in SUBSET Claim
    /\ passing \in Claim \cup {None}
    /\ keptTurns \in Seq(Node) /\ keptStarts \in Seq(Node)
    /\ turnsLeft \in Nat \cup {NotOffering}
    /\ offering \in BOOLEAN
    /\ startTick \in Node \cup {None}
    /\ due \in SUBSET Node
    /\ ready \in SUBSET Task
    /\ ticking \in SUBSET Node
    /\ asking \in SUBSET Task
    /\ unheard \in SUBSET Task
    /\ ended \in SUBSET Task
    /\ inputs \in Nat

Init ==
    /\ nodes = {Root}
    /\ gone = {}
    /\ holders = {}
    /\ passing = None
    /\ keptTurns = <<>>
    /\ keptStarts = <<>>
    /\ turnsLeft = NotOffering
    /\ offering = FALSE
    /\ startTick = None
    /\ due = {}
    /\ ready = {}
    /\ ticking = {}
    /\ asking = {}
    /\ unheard = {}
    /\ ended = {}
    /\ inputs = 0

-----------------------------------------------------------------------------
(* What the pool reads. *)

Quiet == turnsLeft = NotOffering

NodeOf(c) == IF c \in Task THEN Owner[c] ELSE c

Shared == \E n, m \in nodes : n # m

\* The root's planner turn counts only once the tree has a child.
Counted == IF Shared THEN holders ELSE holders \ {Root}

\* Mutant of Full: one more than the limit.
FullPast == Cardinality(Counted) > Limit

Full == Cardinality(Counted) >= Limit

Keep(kept, n) == IF Contains(kept, n) THEN kept ELSE Append(kept, n)

Drop(kept, n) ==
    IF \E i \in DOMAIN kept : kept[i] = n
    THEN LET at == CHOOSE i \in DOMAIN kept : kept[i] = n
         IN  SubSeq(kept, 1, at - 1) \o SubSeq(kept, at + 1, Len(kept))
    ELSE kept

\* Everything that holds a slot is an attempt that waits on its planner.
AllWait == Counted # {} /\ Counted \subseteq asking

HoldsSome(n) == \E c \in Counted : NodeOf(c) = n

\* The first turn of the queue that some holder waits on; None if a holder works.
WaitedTurn(turns) ==
    IF AllWait /\ \E i \in DOMAIN turns : HoldsSome(turns[i])
    THEN turns[CHOOSE i \in DOMAIN turns :
                  HoldsSome(turns[i]) /\ \A j \in 1..(i - 1) : ~HoldsSome(turns[j])]
    ELSE None

\* Mutant of TurnPasses: a turn passes whatever the holders do.
TurnPassesWorkers(n, offered) == passing = None

\* The turn of n may go past the limit; offered is the node offer() is offering to.
TurnPasses(n, offered) ==
    passing = None /\ (offered = n \/ WaitedTurn(Append(keptTurns, n)) = n)

TurnRefused(n, offered) == n # Root /\ Full /\ ~TurnPasses(n, offered)

StartRefused == Full

\* Mutant of NextTurn: a full pool offers no turn.
NextTurnIfRoom == IF ~Full /\ keptTurns # <<>> THEN Head(keptTurns) ELSE None

NextTurn ==
    IF ~Full THEN IF keptTurns = <<>> THEN None ELSE Head(keptTurns)
    ELSE IF passing # None THEN None
    ELSE WaitedTurn(keptTurns)

-----------------------------------------------------------------------------
(* What the pool does. *)

\* offer(): a flat run's own events already start what waits.
BeginOffer ==
    turnsLeft' = IF Shared' THEN Len(keptTurns') ELSE NotOffering

\* take() granting a claim: any grant wakes the offer of starts in flight.
Grant(c) ==
    /\ holders' = holders \cup {c}
    /\ passing' = IF Full /\ c # Root THEN c ELSE passing
    /\ startTick' = None

\* The free() of a granted claim.
Free(c) ==
    /\ holders' = holders \ {c}
    /\ passing' = IF passing = c THEN None ELSE passing
    /\ BeginOffer

\* One round of offer()'s loop: the turn is dropped from the queue and asks
\* again at once, or has nothing due any more.
OfferTurn ==
    /\ turnsLeft > 0
    /\ NextTurn # None
    /\ keptTurns' = Drop(keptTurns, NextTurn)
    /\ turnsLeft' = turnsLeft - 1
    /\ IF NextTurn \in due \ holders
       THEN Grant(NextTurn) /\ due' = due \ {NextTurn}
       ELSE UNCHANGED <<holders, passing, startTick, due>>
    /\ UNCHANGED <<nodes, gone, keptStarts, offering, ready, ticking, asking, unheard, ended, inputs>>

\* offerStarts' loop, from its start or from the end of an await.
OfferStart ==
    IF keptStarts # <<>> /\ ~Full
    THEN /\ keptStarts' = Tail(keptStarts)
         /\ startTick' = Head(keptStarts)
         /\ ticking' = ticking \cup {Head(keptStarts)}
         /\ offering' = TRUE
    ELSE /\ offering' = FALSE
         /\ UNCHANGED <<keptStarts, startTick, ticking>>

\* Mutant of EndOfferTurns: starts are not offered after turns.
EndOfferTurnsAlone ==
    /\ ~Quiet
    /\ turnsLeft = 0 \/ NextTurn = None
    /\ turnsLeft' = NotOffering
    /\ UNCHANGED <<nodes, gone, holders, passing, keptTurns, keptStarts, offering, startTick,
                   due, ready, ticking, asking, unheard, ended, inputs>>

\* The end of offer(): no turn is left to offer, so the starts are.
EndOfferTurns ==
    /\ ~Quiet
    /\ turnsLeft = 0 \/ NextTurn = None
    /\ turnsLeft' = NotOffering
    /\ IF offering THEN UNCHANGED <<keptStarts, startTick, ticking, offering>> ELSE OfferStart
    /\ UNCHANGED <<nodes, gone, holders, passing, keptTurns, due, ready, asking, unheard, ended, inputs>>

\* offerStarts goes on: its tick ended, or a slot was taken meanwhile.
ResumeOffer ==
    /\ Quiet
    /\ offering /\ startTick = None
    /\ OfferStart
    /\ UNCHANGED <<nodes, gone, holders, passing, keptTurns, turnsLeft, due, ready, asking, unheard, ended, inputs>>

-----------------------------------------------------------------------------
(* Sessions come and go. *)

Join(n) ==
    /\ Quiet
    /\ n \notin nodes \cup gone
    /\ nodes' = nodes \cup {n}
    /\ UNCHANGED <<gone, holders, passing, keptTurns, keptStarts, turnsLeft, offering, startTick,
                   due, ready, ticking, asking, unheard, ended, inputs>>

\* A child is halted, which ends its turn and its attempts, before it leaves.
Leave(n) ==
    /\ Quiet
    /\ n \in nodes \ {Root}
    /\ \A c \in holders : NodeOf(c) # n
    /\ nodes' = nodes \ {n}
    /\ gone' = gone \cup {n}
    /\ keptTurns' = Drop(keptTurns, n)
    /\ keptStarts' = Drop(keptStarts, n)
    /\ BeginOffer
    /\ due' = due \ {n}
    /\ ready' = {t \in ready : Owner[t] # n}
    /\ ticking' = ticking \ {n}
    /\ startTick' = IF startTick = n THEN None ELSE startTick
    /\ UNCHANGED <<holders, passing, offering, asking, unheard, ended, inputs>>

-----------------------------------------------------------------------------
(* Planner turns. *)

\* A message or a wake-up queues a turn.
TurnDue(n) ==
    /\ Quiet
    /\ n \in nodes \ due
    /\ inputs < MaxInputs
    /\ inputs' = inputs + 1
    /\ due' = due \cup {n}
    /\ UNCHANGED <<poolVars, ready, ticking, asking, unheard, ended>>

\* What waited to be said is stopped, or the run is paused: no turn is due. The pool keeps its place.
WithdrawTurn(n) ==
    /\ Quiet
    /\ n \in due
    /\ \A t \in asking : Owner[t] # n
    /\ due' = due \ {n}
    /\ UNCHANGED <<poolVars, ready, ticking, asking, unheard, ended, inputs>>

\* PlanTurns.pump asks turnRoom, which takes the turn's lease or is kept.
AskTurn(n) ==
    /\ Quiet
    /\ n \in due \ holders
    /\ IF TurnRefused(n, None)
       THEN /\ keptTurns' = Keep(keptTurns, n)
            /\ UNCHANGED <<holders, passing, startTick, due>>
       ELSE /\ keptTurns' = Drop(keptTurns, n)
            /\ Grant(n)
            /\ due' = due \ {n}
    /\ UNCHANGED <<nodes, gone, keptStarts, turnsLeft, offering, ready, ticking, asking, unheard, ended, inputs>>

\* The turn ends, having answered what its attempts asked; the hold it kept on
\* starts is let go, which ticks its Session.
EndTurn(n) ==
    /\ Quiet
    /\ n \in holders \cap Node
    /\ asking' = {t \in asking : Owner[t] = n => t \in unheard}
    /\ ticking' = ticking \cup {n}
    /\ UNCHANGED <<nodes, gone, keptTurns, keptStarts, offering, startTick, due, ready,
                   unheard, ended, inputs>>
    /\ Free(n)

-----------------------------------------------------------------------------
(* Attempts. *)

\* The plan gets something to start, which ticks its Session.
TaskReady(t) ==
    /\ Quiet
    /\ Owner[t] \in nodes
    /\ t \notin ready \cup holders \cup ended
    /\ ready' = ready \cup {t}
    /\ ticking' = ticking \cup {Owner[t]}
    /\ UNCHANGED <<poolVars, due, asking, unheard, ended, inputs>>

\* A tick is over: the offer that awaited it is woken.
TickOver(n) ==
    /\ ticking' = ticking \ {n}
    /\ startTick' = IF startTick = n THEN None ELSE startTick

\* Mutant of TickStart: a refusal keeps the task, not its Session.
TickStartKeepsTask(t) ==
    /\ Quiet
    /\ Owner[t] \in ticking \cap nodes
    /\ t \in ready
    /\ IF StartRefused
       THEN /\ keptStarts' = Keep(keptStarts, t)
            /\ TickOver(Owner[t])
            /\ UNCHANGED <<holders, passing, ready>>
       ELSE Grant(t) /\ ready' = ready \ {t} /\ UNCHANGED <<keptStarts, ticking>>
    /\ UNCHANGED <<nodes, gone, keptTurns, turnsLeft, offering, due, asking, unheard, ended, inputs>>

\* A tick claims a ready task, or is refused and its Session kept.
TickStart(t) ==
    LET n == Owner[t] IN
    /\ Quiet
    /\ n \in ticking \cap nodes
    /\ t \in ready
    /\ IF StartRefused
       THEN /\ keptStarts' = Keep(keptStarts, n)
            /\ TickOver(n)
            /\ UNCHANGED <<holders, passing, ready>>
       ELSE /\ Grant(t)
            /\ ready' = ready \ {t}
            /\ UNCHANGED <<keptStarts, ticking>>
    /\ UNCHANGED <<nodes, gone, keptTurns, turnsLeft, offering, due, asking, unheard, ended, inputs>>

TickEnd(n) ==
    /\ Quiet
    /\ n \in ticking
    /\ \A t \in ready : Owner[t] # n
    /\ TickOver(n)
    /\ UNCHANGED <<nodes, gone, holders, passing, keptTurns, keptStarts, turnsLeft, offering,
                   due, ready, asking, unheard, ended, inputs>>

\* An attempt ends: its slot is freed and its Session ticks.
EndAttempt(t) ==
    /\ Quiet
    /\ t \in holders \cap Task
    /\ asking' = asking \ {t}
    /\ unheard' = unheard \ {t}
    /\ ended' = ended \cup {t}
    /\ ticking' = ticking \cup {Owner[t]}
    /\ UNCHANGED <<nodes, gone, keptTurns, keptStarts, offering, startTick, due, ready, inputs>>
    /\ Free(t)

\* Mutant of Ask: the pool is not told that an attempt waits.
AskUntold(t) ==
    /\ Quiet
    /\ t \in (holders \cap Task) \ asking
    /\ inputs < MaxInputs
    /\ inputs' = inputs + 1
    /\ asking' = asking \cup {t}
    /\ unheard' = unheard \cup {t}
    /\ UNCHANGED <<poolVars, due, ready, ticking, ended>>

\* An attempt asks its planner and waits: the pool is told (waitsChanged).
Ask(t) ==
    /\ Quiet
    /\ t \in (holders \cap Task) \ asking
    /\ inputs < MaxInputs
    /\ inputs' = inputs + 1
    /\ asking' = asking \cup {t}
    /\ unheard' = unheard \cup {t}
    /\ UNCHANGED <<nodes, gone, holders, passing, keptTurns, keptStarts, offering, startTick,
                   due, ready, ticking, ended>>
    /\ BeginOffer

\* What was asked reaches its planner as a wake-up, which queues a turn.
WakePlanner(t) ==
    /\ Quiet
    /\ t \in unheard
    /\ unheard' = unheard \ {t}
    /\ due' = due \cup {Owner[t]}
    /\ UNCHANGED <<poolVars, ready, ticking, asking, ended, inputs>>

-----------------------------------------------------------------------------
Offer == OfferTurn \/ EndOfferTurns

Next ==
    \/ OfferTurn
    \/ EndOfferTurns
    \/ ResumeOffer
    \/ \E n \in Node :
          \/ Join(n)
          \/ Leave(n)
          \/ TurnDue(n)
          \/ WithdrawTurn(n)
          \/ AskTurn(n)
          \/ EndTurn(n)
          \/ TickEnd(n)
    \/ \E t \in Task :
          \/ TaskReady(t)
          \/ TickStart(t)
          \/ EndAttempt(t)
          \/ Ask(t)
          \/ WakePlanner(t)

Spec == Init /\ [][Next]_vars

\* The event loop runs every continuation in the end: an offer and a tick run
\* to their end, a turn due and not kept asks (pump), what is asked reaches its
\* planner, and a turn ends, as does an attempt that waits on nobody.
Fairness ==
    /\ WF_vars(Offer)
    /\ WF_vars(ResumeOffer)
    /\ \A n \in Node :
          /\ WF_vars(TickEnd(n))
          /\ WF_vars(~Contains(keptTurns, n) /\ AskTurn(n))
          /\ WF_vars(EndTurn(n))
    /\ \A t \in Task :
          /\ WF_vars(TickStart(t))
          /\ WF_vars(WakePlanner(t))
          /\ WF_vars(t \notin asking /\ EndAttempt(t))

FairSpec == Spec /\ Fairness

-----------------------------------------------------------------------------
(* Properties. *)

\* No interleaving of claims, frees, joins and leaves puts more work past the
\* limit than the root's own turn and one turn that others wait on.
LimitHolds == Cardinality(holders \ {Root, passing}) <= Limit

\* The turn past the limit is forgotten with its slot: a stale one would keep
\* every later turn from passing.
PassingHolds == passing # None => passing \in (holders \cap Node) \ {Root}

\* Between steps no slot is free that a kept turn could have taken: whatever
\* frees one, offers it (SlotPool.offer).
NoIdleTurn == Quiet /\ Shared /\ ~Full => keptTurns = <<>>

\* "Nothing holds a slot for ever on a turn that waits for that slot"
\* (SlotPool.turnPasses): when every holder waits on its planner, and such a
\* planner's turn is kept, some turn is past the limit already.
TreeNeverStalls ==
    Quiet /\ Shared /\ AllWait /\ (\E i \in DOMAIN keptTurns : HoldsSome(keptTurns[i]))
        => passing # None

\* A Session refused a start is ticked again once a slot is free: its start is
\* never left in the queue with nothing under way to offer it.
NoIdleStart ==
    \A t \in ready :
        Quiet /\ Shared /\ ~Full /\ Owner[t] \notin ticking /\ Contains(keptStarts, Owner[t])
            => offering

\* No slot is free with somebody in line for it, whether a turn or a start, once
\* what freed it is over: an offer told while another is under way is not lost
\* (SlotPool.offer, offering and offerAgain).
NoIdleSlot == NoIdleTurn /\ NoIdleStart

\* A turn due opens, whatever holds the slots: no attempt that waits on it, and
\* no turn ahead of it, keeps it out for ever.
TurnOpens == \A n \in Node : n \in due ~> n \notin due

\* What an attempt asked its planner is answered, though every slot may be held
\* by attempts that ask.
AnswerComes == \A t \in Task : t \in asking ~> t \notin asking

\* A refused start is not forgotten: it starts, or its Session leaves.
StartHappens == \A t \in Task : t \in ready ~> t \notin ready

\* Whoever waits on the pool goes on: turns, the attempts that wait on them, and
\* refused starts.
WaitersGoOn == TurnOpens /\ AnswerComes /\ StartHappens

\* The pool keeps what a tree is promised of its slots (SlotBudget): the root's
\* own turn is on nobody's budget, and what passes the limit does so only while
\* all that is inside waits (SlotPool.turnPasses).
Budget == INSTANCE SlotBudget WITH
    Turn <- Node,
    inside <- holders \ {Root, passing},
    past <- {passing} \ {None},
    waiting <- asking

KeepsBudget == Budget!Spec
=============================================================================
