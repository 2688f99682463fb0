# Ordewell in TLA+

Ordewell plans a goal with a planner agent, runs the plan's tasks in coding
agents (runners), verifies and lands each task's work, and may delegate a task
to a child Session with a planner and a plan of its own. Several clients, each
with a host process, may open one saved session. This directory holds TLA+
models of the parts of `packages/core` where several things happen at once, the
TLC runs that check them, and TLAPS proofs of what matters most. Paths below are
under `packages/core/src` unless they say otherwise.

## 1. The system

A **host** (daemon, VS Code extension host) is one Node process: one thread,
whose steps are what runs between two awaits. It runs **Sessions**
(`services/createSession.ts`). A root Session may have child Sessions, a *tree*
that shares one pool of slots and one ledger.

| Component | Source | State | Operations | What is hard | What makes it correct | Modelled |
|---|---|---|---|---|---|---|
| Slot pool | `services/SlotPool.ts`, `LocalWorktreeLease.ts` | nodes, holders, kept turns and starts, the turn past the limit | join, take, free, offer, tick | offers re-entered while a callback runs; the exception that avoids a deadlock | the limit, and no free slot beside someone who waits | `SlotPool` |
| Run state | `services/runState.ts` | idle, scheduling, held, stopped | one transition function | events that come late | a hold returns to where it came from | `RunState` |
| Readiness, blocking | `services/readiness.ts`, `blocking.ts` | none | who may start, who is blocked | reads before an await | order of the plan | `Readiness` |
| Scheduler | `services/TaskOrchestrator.ts` | statuses, live attempts, generations of Stop, queued starts, start holds | tick, claim, settle, Execute, Stop, cancel, retry, skip, force, mark | every control meets awaits of the others | no stray runner, no start after Stop, no idle run | `RunScheduler` |
| Attempts | `services/Attempts.ts` | phase of each attempt, its runner, wind-downs | open, spawn, checkpoint, verdict, land, end | each await may find the attempt superseded | a status tells the truth; a session is in one process | `RunScheduler` |
| Limit pauses | `services/LimitPauses.ts` | limited tasks, resets armed | pause, resume, cancel, hold | timers against controls | a task that says it resumes does | `RunScheduler` (one runner) |
| File lock | `utils/fileLock.ts` | the lock file | wait, take over, swap, free | processes, deaths, files removed by name | swaps overlap only where a lock was taken by name | `FileLock` |
| Session lease | `services/sessionLease.ts`, `utils/leaseRecord.ts`, `leasedIsolation.ts` | lease files, holders, what was lost | claim, hold, beat, lose, release | hosts that die, sleep, or close while work goes on | one host per session; no older plan saved over a newer | `SessionLease` |
| Opening and closing | `web/server/pool/orchestratorPool.ts`, `createSession.ts` (load, reset, destroy, persist) | the pool's map of Sessions | adopt, destroy, close | read before claim; saves after close | as above | `SessionLease` |
| Plan store, editor, task ops | `services/PlanStore.ts`, `PlanEditor.ts`, `TaskOps.ts`, `ExecutionCommands.ts` | the plan, its revision | edits, patches | edits beside a run | edits never break the order | planned |
| Plan turns, conversation | `services/PlanTurns.ts`, `PlannerResend.ts`, `PlannerConversation.ts`, the planner gate in `createSession.ts`, the wake-up's timeout in `Supervisor.ts` | queued inputs, the turn in flight, the live turn, its slot and hold, the limit's wait | pump, admit, stop, force, resend, abandon, opening, compaction | late answers of a stopped turn; stops, new goals and lost leases beside a release that awaits | every sender hears, nothing lands from a turn that was stopped | `PlanTurns` |
| Turn gate | `conversation/turnGate.ts` | ids of turns whose messages are let through | open, stop | late messages of a stopped turn | — | planned |
| Approvals | `services/PendingApprovals.ts`, `RunnerApprovals.ts` | open requests and their timers | ask, answer, time out, clear | answer against timeout | one answer each | planned |
| Isolation, landing | `services/GitWorktreeIsolation.ts`, `IsolationRunController.ts`, `isolationLocks.ts`, `Landing.ts`, `taskRevert.ts` | worktrees, branches, the run's record and its saved copy, two promise chains | prepare, land, settle, release, merge, revert, hand off, clean up, adopt | crashes inside a landing, controls that wait for a turn they were judged before | work is never lost; a landing is whole or undone; lock order | `Isolation` |
| Landing interlock | `services/landingInterlock.ts` | none (reads `runLive` of the leases) | judge a move of a branch | records read before runs begin or end | — | planned |
| Verdicts | `services/VerdictEngine.ts` | checks under way | verify, ask | aborts | one verdict per attempt | planned (one answer in `RunScheduler`) |
| Child plans, supervision | `services/ChildPlanRunner.ts`, `Subtree.ts`, `Supervisor.ts`, `WakePolicy.ts`, `escalations.ts` | a child's attempt: its report, halts, clock, questions; wake-ups, escalations | seat, check, report, ask, stop, wake, escalate | a stop while a child is seated, a report raced by a start, states with nothing to end them | a Stop leaves nothing of the subtree, one verdict, no child that sits | `ChildPlan` (no escalations, no Continue) |
| Ledger, mandates | `services/TreeLedger.ts`, `Mandate.ts` | grants, spending, pending events | grant, return, append | an append that fails | never more granted than there is | planned |
| Loops | `services/LoopGuards.ts`, `models/Loop.ts` | rounds | next round, stop | late verdicts | bounds on rounds | planned |
| Runner adapters, containers | `services/StructuredRunner.ts`, `ScriptRunner.ts`, `container/` | processes, engine objects | spawn, stream, reap | vendors' protocols | — | no: process I/O |
| Command policy, patches | `services/commandPolicy.ts`, `PatchCapture.ts` | none | parse, match | data, no order of steps | — | no |
| Surfaces | `packages/cli`, `desktop`, `ui`, `vscode` | views | render, send | — | — | no |

How they interact: a surface calls the Session; the Session's controls call the
scheduler inside `withSave`, which saves when they end; the scheduler claims a
slot from the pool and hands the task to Attempts; an attempt opens its lease,
spawns a runner, and calls back as it ends; a limit found pauses the task and
arms a reset that calls the scheduler; the pool ticks *other* Sessions'
schedulers as slots come free; every save and every change to git asks the
session lease first; every lease write is made under the file lock.

`PROJECT.json` lists the hazards at their lines, each with the property that
would catch it or the reason none does yet.

## 2. The modules

| Module | Models | Extends or uses |
|---|---|---|
| `SlotBudget` | abstract: what a tree is promised of its limit | — |
| `SlotPool` | the pool and its three callers | refines `SlotBudget` (`KeepsBudget`) |
| `SlotPoolProofs` | proofs about `SlotPool` | `SlotPool` |
| `RunState` | `nextRunState` | — |
| `Readiness` | `waitingBehind`, `planBlocks` | — |
| `RunScheduler` | scheduler, attempts, pauses, of one Session | `RunState`, `Readiness` |
| `RunSchedulerProofs` | proofs about `RunScheduler` | `RunScheduler` |
| `PlanTurns` | planner turns of one Session: queue, gate, conversation | — |
| `PlanTurnsStates` | what the proofs about `PlanTurns` say of a state and of a step | `PlanTurns` |
| `PlanTurnsProofs` | proofs about `PlanTurns` | `PlanTurnsStates` |
| `Isolation` | isolated runs: worktrees, landings, merges, reverts, crashes | — |
| `IsolationProofs` | types of `Isolation`, and its reverts | `Isolation` |
| `IsolationWorkProofs` | proofs that `Isolation` loses no work but what was exposed, and that worktrees stand on what landed | `IsolationProofs` |
| `ChildPlan` | the attempts of one delegated task and the child behind each | — |
| `ChildPlanProofs` | proofs about `ChildPlan` | `ChildPlan` |
| `FileLock` | `withFileLock`, call by call | — |
| `FileLockProofs` | proofs about `FileLock` | `FileLock` |
| `SessionLease` | leases, saves, loads, closes of several hosts | — (a swap under the lock is one step) |
| `SessionLeaseProofs` | proofs about `SessionLease` | `SessionLease` |
| `MC…` | small instances for TLC | one module each |

### SlotPool

A claim is named by who holds it: a node for its planner's turn, a task for its
attempt. `offer` is synchronous and re-entered by its own callbacks, so it is a
loop of steps (`BeginOffer`, `OfferTurn`, `OfferStart`, `EndOfferTurns`) during
which nothing else runs, up to the tick that `offerStarts` awaits. A Session
that leaves holds nothing (its close halts it first); one that comes back is a
new node. The root's leaving is not modelled, nor the tree's usage limits. A
turn that the Session declines goes to the back of the queue, as in the code.

### RunScheduler

`ticks` are the ticks under way, `waits` the controls and continuations that
await something, both sets of records that say what goes on when they do. A
step is what runs between two awaits, so every `…GoesOn` action re-reads what
the code re-reads there and trusts what it trusts. `stops` counts Stops: a
start admitted under an older number is refused at its claim. `attempt` is each
attempt's phase and how its runner is; an attempt that is over may still have a
runner winding down.

Left out: loops, conflict repairs, merge gates, an isolation that refuses to
open, script, user and delegated tasks, single starts and continues of one
task, plan edits and loads during a run, a fan-out above the eight starts at
once, several runners' limits, reminders. `Openings` keeps a verdict from
overtaking an open start of the same Session only where the code serialises
them, and the guard on a mark-complete override is let go as the landing ends,
which allows a little more than the code does.

### PlanTurns

The state is three records: `plan` is what a save holds (inputs waiting, the
transcript, the limit's wait), `lane` the fields of `PlanTurns` and what each
input's sender has heard, `talk` the conversation, its calls, the slot and the
planner in use. A handler runs whole between two awaits and calls others, so
handlers are functions of that state, composed as the code composes them
(`Pump`, `Run`, `Abandon`, `Drop`, `StopQueued`, …), and an action applies one.
A turn is first in flight in the queue (`lane.running`) and live in the
conversation (`talk.live`); the two come apart when a stop or a new goal drops
a turn whose call has not settled, which is where the hazards are. `lane.tails`
are ended turns whose release of the start hold awaits a tick. `day` is the
kind of day: which inputs and which of the rarer acts a behaviour has.

Left out: one-shot plan generation, inputs while no planner is set, edits of a
waiting message, rewinds, tasks stopped by the user, a supervisor switched off,
reports under the supervisor's authority, the window in which a relapse counts,
a refused save after a lost lease, the wording of refusals.

### Isolation

`line[r]` is the integration branch of a repository from the run's base on, as
the merges, reverts and commits on it; `head[r]` what the user's branch has of
them; `tree[t]` the task's worktree and branch: of which attempt, which
repositories it changed, and where it was cut. `run` is the record in memory
and `saved` what a crash leaves of it. `turn` is the turn's chain, a queue of
jobs whose first is under way and says how far it is (`at`, `todo`); `admin` is
the second chain, in which stand the tasks being let go and, for its short
parts, the turn. Merges, rollbacks and revert commits, which move a branch, are a
step per repository, in the group's order, so that a crash falls between any two.
Making the worktrees of one task, removing them, and deleting a run's branches are
each one step for all repositories. `Crash` comes at any moment and goes on from `saved` as
`adopt` does: roll the recorded landing back, prune. What a waiting job was judged by is
judged again where the code does it (`RevertJudged`, `RefusedLate`), and trusted
where it does not. Starts, repairs, retries and overrides are let in wherever the
code lets them in.

Three sets of history, which no guard reads, say what a property does not promise:

- `exposed`: work whose worktree went, or whose process died, while a landing on
  record was to take back its merge, the only other place that has it;
- `loose`: tasks cut or repaired while a landing on record could still be taken back;
- `doomed`: attempts begun with something already under way, or owed to their
  task, that may take their place from them.

What each of them stands for in the code is in §5.

Left out: conflict resolvers and what they carry, read-only tasks, child
Sessions, the intent to restore, bootstrap and links, sweeps of other runs, the
reflog rules that find a merge in the user's branch, shared or dirty starts,
preflight, merging and undoing by the user's own hand, a git that fails in a
preserve, a prepare or a merge otherwise than by a conflict, automatic merges
at gates, edges to tasks that left the plan, empty reverts, what `clearLeftovers`
finds of a start that died half way. Two releases owed to one task are one, and
what waits in the turn behind a clean-up that forgets the run fails with it
without turns of its own. `acts` counts each act of a day once. `ensureIntegrationWorktree`'s own short wait for admin is
taken together with the merge it serves.

### ChildPlan

`child[a]` is one attempt of the delegated task: the fields of its
`ChildPlanSession` (`accepted`, `publishing`, `told`, `halting`, `reminded`,
`asking`, the grace and the clock, `checkQueued`), how far its seating (`life`)
and its winding down (`wind`) are, and behind it the child: its planner's
`turns`, its run (`item`, `tick`, `merging`), what is merged into the delegated
task's branch (`branch`), and what the node reads of itself (`stoppedFor`,
`withdrawn`, `wakeOwed`). `cur` is the parent's live attempt. Handlers are
functions of a child's state (`Checked`, `Publish`, `Halted`, `End`, …), composed
as the code composes them. `Checked` is `check` with its early returns in the
code's order; it runs a macrotask after what queued it. `acts` holds what a kind
of day may still do, each once; the names that never go ("clock", "no room",
"one task") say what kind it is.

Left out: Continue and the reopening of a child, lines of Ordewell's own to the
planner, the read of what is outside the scope, loop guards and usage limits,
raises of a budget and the ledger's side of it, slots for the child's turns (see
SlotPool), a Merge all by hand, a merge that fails, levels below as children of
their own: a level below is one of the items. A task's pass and its landing are
one step here (see Isolation).

### FileLock

One step is one call on the file system: the exclusive create, the write of the
token, a look (read and stat), an unlink. A lock is told from another by its
maker, its call and whether it is named yet. `Remove` and `Free` unlink *by name*,
whatever is there by then, and `robbed` keeps whose lock went that way. A lock
grows old when its maker is dead or its call is over, as it is after a token that
could not be written (`NameFails`): the code's comment accepts that a holder that
stalls past the stale age is overtaken, and the model has no such holder.

### SessionLease

`record[f]` is the lease file, `file[k]` what the Session `k` holds, `lost[k]`
what was taken from it. `Holds` is `HostedLease.hold`'s answer and `Grant` /
`Refused` its effect; each action that saves, starts or loads makes that look
in the same step. `Read` and `Load` are two steps: `adoptSavedSession` reads the
file and then claims, and although its own host does nothing in between, another
host may. A closed Session stays in `closing` while its runners or its changes
to git go on; a control ends with a save (`EndOp`) or, where it throws, without one (`FailOp`). Which saves lose work is told
by `older` (Sessions whose plan lacks what another saved) and `outdated` (reads
of the file likewise), ghosts that no guard reads; `named[f]`, the groups that
`f`'s lease file has named, and `overwrote` are ghosts too. Saves throttled by a timer are taken as made at once. A host dies
with its pid free or handed to another process (`"reused"`); a suspended host
takes no step. Not modelled: `runLive`, children's leases (views of the root's),
a host that exits in good order, a release whose file cannot be removed.

## 3. The runs

`CHECK_DEADLOCK FALSE` throughout: every system here may rest, with its inputs
used up and nothing under way.

| Run | Instance | Shows | Distinct states |
|---|---|---|---|
| `slots` | root and two children, an attempt each, limit 1, 2 inputs | limit, kept turns and starts, refinement of `SlotBudget`; turns open, answers come, starts happen | 112 000 |
| `sched_controls` | 2 tasks in a row, 1 slot, 2 attempts, 3 controls of Execute, Stop, cancel, retry, force, mark complete and incomplete, cancel resume | work is accounted for: statuses tell the truth, no stray runner, slots hold; nothing starts late; order and completions hold; limits, holds and resumes; one process per session | 1 308 000 |
| `sched_live` | 2 tasks in a row, 2 controls of Execute, a planner's turn, skip, retry, cancel resume | no missed start, a resting run rests on the user; runs, attempts and holds end | 44 000 |
| `sched_late_stop` | 3 tasks, 4 controls | finding 1 | violated |
| `lock_race` | 3 processes, 2 swaps, 2 polls, one may die, any write may fail | finding 2 | violated |
| `lease_safety` | 2 hosts, 3 Sessions, 1 session, 2 runners; closes, controls, deaths, disks that refuse | a holder is whom the file names, takeover beside no named runner | 154 000 |
| `lease_lost` | 2 hosts, deaths and suspensions | lost stays lost; the lease goes on: a loss is told, a takeover comes | 7 500 |
| `lease_race` | 2 hosts, 1 session, closes | finding 3 | violated |
| `turns` | 2 turns, twelve kinds of day: 3 inputs at most of two users, a wake-up, a report and a rider; 2 acts | senders hear, stops hold and forced inputs go next, only the live turn lands | 92 000 |
| `isolation` | 2 tasks, alone or in a row, over 2 repositories, 3 attempts, twelve kinds of day, crashes at any moment | landings whole, work kept, worktrees kept, reverts under nobody, the turn ends | 1 236 000 |
| `isolation_late` | 2 tasks, 2 repositories, 2 attempts, a crash | finding 4 | violated |
| `child` | 2 attempts, a child of 2 tasks of which one changes a protected path, 3 turns, ten kinds of day | a Stop ends all of the subtree, one child at a time, one verdict, nothing passes behind the last read, every child ends or waits on somebody | 358 000 |

**Bounds.** `MaxInputs` counts the user's controls (or the pool's inputs and
questions): three reach every pair of controls around a third event, which is
what the hazards are made of; the late Stop needs four. Two tasks are enough for
an order. The slot is one, so that a start always meets the slot of what is not
over yet; two tasks at work at once in one scheduler, under one account's limit, are left to
the proofs (`slots` has them in one tree). `Attempt` names are reused once an
attempt is over and its runner gone, so their number bounds only how many
overlap. `MaxPolls` is how often a wait looks; two looks are what a takeover
needs, and three processes are one that leaves a lock and two that meet at it. SessionLease needs no counter: its state is finite. `Acts` and `Controls`
choose what a run's environment may do, so that each run asks one question; all
together every action fires. In `PlanTurns`, `Isolation` and `ChildPlan` a *day* does the
same inside one run: the acts that meet on one day are those whose code reads
or writes what the others do; two turns are one in flight and one still
unwinding (a turn opens with a place free, `FreeTurns`); two repositories give a landing a middle, two tasks a dependent, and
three attempts a retry beside another task. In `ChildPlan` two attempts are a
retry over a child that still winds down, two tasks one that passes beside one
that fails or runs on, and three turns one under way, one waiting and the
reminder; a retry of a task has a day of one task.

**Fairness.** Only of what the event loop or the system owes. A callback that is
due runs (`WF` of ticks, waits, offers). An attempt's own steps go on
(`AttemptMoves`: the runner ends or is stopped, its grace is bounded). A reset's
timer fires. A planner's turn ends (`ReleaseStarts`, `EndTurn`). For the lease: a
host's heartbeat timer fires, a load that has read goes on in the same
synchronous call, a heartbeat nobody writes grows old, and a dead host's runners
are stopped (`watchForHostDeath` in `utils/processTree.ts`). For planner turns: a
call settles unless the day lets a wake-up's hang, in which case its timers end
it; checks, ticks, probes and resets come. For isolation: git and the two chains
go on (`TurnStep`, `AdminStep`). For a child: seating, checks, timers, git and
runners go on and a planner's turn ends (`System`), but whether it calls
anything, and whether a question is answered, is nobody's debt. No fairness on the
user, on a suspended host, or on anything a user must answer: the liveness
properties end in those states instead. Every fairness is weak.

**Mutants.** Each property of a passing run has a mutated definition, in its
module just above the one it mutates, under which TLC finds the property
violated in the same run: a dropped guard, a missing wake-up, a worktree that goes
while it is being merged. A property that is a conjunction (`NoIdleSlot`, `WaitersGoOn`,
`LimitIsOwed`, `RestsRightly`, `RunGoesOn`, `CallersAreOwed`, `TurnTakesItsOwn`,
`TurnsGoOn`, `AttemptKeepsPlace`, `UserBranchHolds`, `WorkIsAccountedFor`,
`OrderHolds`, `LeaseGoesOn`, `NextIsAsked`, `StopEndsAll`, `ChildrenEnd`) is one question in parts,
each part defined and commented on its own.

## 4. What is proved

TLAPS checks these for every value of the constants, from the named assumptions
of the modules (`…Assumption`), which TLC evaluates in every run.

- `SlotPoolProofs`: `TypeCorrect`, `LimitIsKept`, `PassingIsHeld`, from the
  inductive `SlotInv` (types, a finite set of holders, the limit, and that the
  turn past the limit is a held one). The limit alone is not inductive: a free
  takes the count down only if what passes is known to be held, and a cardinality
  says something only of a finite set. `PoolKeepsBudget`: every step of the pool
  is a step of `SlotBudget` or a stutter. `SlotsAreUsed` (`NoIdleSlot`) and
  `TreeGoesOn` (`TreeNeverStalls`) need more, `IdleInv`: what is kept is of a
  Session still in the tree, and no turn is kept twice (`OfTheTree`), so the count
  an offer's loop starts with reaches every kept turn (`OfferReaches`) although its
  callbacks keep and take others meanwhile; and a start kept beside a free slot is
  of a Session whose schedule is about to tick, or one the offer under way comes
  to (`StartsTick`). That is why an offer told within an offer may be left to the
  loop (`offerAgain`).
- `RunSchedulerProofs`: `SchedTypeCorrect`, `WorkAccounted`,
  `OneProcessPerSession`, `LimitIsAlwaysOwed`, `OrderAlwaysHolds`
  (`DependentsWait` and `CompletionStands`), `RestsAlwaysRightly` and `StopKeepsOut`, from the
  inductive `SchedInv`. What a
  run checks is not inductive by itself; `SchedInv` says besides

  - `AttemptsRight`: a task's live record is a record of that task, still under
    way; before its spawn an attempt has no runner; a runner is up only in the
    phase that has one. So a verdict or a landing that finds itself current may
    set the task's status, and one that does not leaves it alone;
  - `LandsAlone`: a task whose Mark complete is landing is not at work and not
    complete yet, because the override is refused while anything could start it
    (`AdvancesOnItsOwn`) and a claim refuses it (`claimRefusal`);
  - `LimitsRight`: the run is held exactly while some task waits on the reset;
    each such task is limited, and the reset is armed or *this run's* resume of it
    is under way. With a resume admitted before a Stop the hold would never be let
    go, which is why Stop drops the resets in the step that counts it;
  - `WaitsRight`: one Mark complete lands at a time, and a task that an explicit
    start waits for is not complete and has nothing past its spawn. It rests on
    `Openings`: a verdict waits for the starts on their way in. Without it a landing
    could complete the task before the start claims it again, and `CompletionStands`
    would fail.

  A tick changes no status but what its handler did (`TickKeeps`): the recovery of
  orphans finds none, since the statuses of whoever ticks already fit the attempts
  (`Fits`). `DependentsWait` rests on `BlockedBehind`: a task not started with a
  dependency that failed, or is blocked, is blocked itself, so what
  `waitingBehind` passes over for a queued task still keeps an ordinary start away.

  `RestsAlwaysRightly` (`RestsRightly`) adds `RestInv`: a run that goes on owes
  a tick, or has an attempt at work, or awaits a start of this Stop's count whose task is
  startable; or else the last tick found nothing to do and nothing it looked at has
  changed. So each handler is put to one question, whether what it changes ticks
  (`TickOwes`), claims (`ClaimOwes`), leaves a wait that ticks (`WaitOwes`) or changes nothing
  that `Ready` reads (`LeavesOwed`). Two are not plain: a force start that only queues
  takes a hold off its task without a tick, which is right because what it queues behind
  keeps an ordinary start away too (`WaitsAlike`, `QueueAside`: the queue makes nothing
  startable); and a resume refused beside a landing would let its run go
  without a tick, if a task that resumes could be landing (it cannot: `resumes \cap completing = {}`).

  `StopKeepsOut` (`StopHolds`) assumes `StopsBetween`: no Stop comes while a queue's loop,
  past the start it awaits, has more to start. That is finding 1 and nothing else: with
  it, `StopInv` says that no start is of a Stop still to come, and that a stopped run is
  `Quiet`, with no queue, no reset and only starts an earlier count admitted. `StopHoldsUnforced`
  needs no such assumption where nobody asks for a force start (`"force" \notin Controls`), since
  then the queue stays empty (`UnforcedKeeps`).
- `ChildPlanProofs`: `ChildTypeCorrect`, `StopEndsTheSubtree` (`StopEndsAll`),
  `OneVerdictStands` and `TheReadIsLast`, from `ChildInv`. It says that a child is
  bare until it is seated, under a Stop too (`SeatsLate`), that each stage of a
  wind-down has left behind what it was to end (`WindsDown`), that behind the last
  read for a `done` no task runs (`TellsRight`), and that the live attempt is the
  one not let go, with all before it gone once its own child is up (`OneLive`). The
  last is what makes a Stop's claim about *the subtree* follow from one about a
  child.
- `PlanTurnsProofs`: `TurnsTakeTheirOwn` (`TurnTakesItsOwn`) and
  `OnlyTheLiveTurnWrites` (`LandsCurrent`), for any number of turns, inputs and plans,
  from the inductive `OwnInv`, which TLC checked on the instance of `turns` first.
  It says of the turn in flight (`lane.running`), the live one (`talk.live`) and
  the ended ones awaiting their tick (`lane.tails`), which a drop takes apart:

  - `HoldsOwn`, `SlotOwn`: a hold on new starts is of the turn in flight, while its
    call talks; the slot is held exactly while a turn is in flight or live;
  - `LiveOwn`, `FlightOwn`: the live turn talks, on the plan held now, and is not
    dropped, and every other call that still talks was; the live turn is the one in
    flight if the queue opened it, and otherwise none is;
  - `TailOwn`, `TickOwn`: a turn in flight has its call or a tick its end waits on,
    never both, and a tick is of the only turn there is to clear;
  - `DayOwn`: a turn in flight that is not live any more and awaits no tick was
    let go with a lost lease; on a day without `able` the planner then stays unable.

  Since handlers are functions of the whole state, the proof is about functions: one
  of them leaves all of this as it was (`Alike`: the list, the pause, the gate and
  the senders only) or opens a turn (`Opens`: it found the conversation free and took
  the slot), so `Pump`, which most handlers end with, needs one lemma. Then there is
  one lemma per action, which gives both the invariant and what it may write. The
  transcript grows in one place, behind the check that the turn that answers is
  still live (`ChecksOut`).

  `DaysGo` is assumed of the days: `TicksAlone`, a day with a slow tick has no
  goal, load or compaction, because the code breaks `TurnTakesItsOwn` on one that
  has (§5); and `LostForGood`: a day with compactions on which a lease is lost has no
  planner that becomes able again. Such a compaction could begin beside the turn that
  the loss let go and whose call is still to settle, and that turn's end would clear
  it; §5 has what the days keep apart around a lost lease. Every day of `turns` is such a day.

  `AnsweredOnceHolds` (`AnsweredOnce`) and `PlanTurnsTyped` (`TypeOK`) follow from
  `FitsInv`, which TLC checked on the instance of `turns` too: `Fits` beside `OwnInv`.

  - `Listed`: the list holds no input twice; what it holds and what the transcript has was
    sent, and nothing is in both; what is forced is of the user's and waits;
  - `Gated`: the goal of an opening still at its gate was sent and is not among what is
    held behind it, which is there once each;
  - `TurnFits`: what a turn was told was sent; the goal of an opening whose call still
    counts, which a limit or a pause may put back, is in neither the list nor the
    transcript; only on a day with checks does a turn have one.

  An input is new to the list, the gate and every turn when it is sent (`Unsent`), so
  joining any of them keeps each single; after that an input only moves, and there
  is one lemma per handler of what it moves (`…Fits`). What the list loses, and the
  order a force send gives it, is said about sequences: `Those` filters with a recursive
  function, and that it keeps what is there, once each and in order, is shown from the
  least place at which it would not (`Gathers`, `ThoseOf`), with `WFMin` of the
  library in place of its induction theorems, whose operator parameter the provers cannot take.
  `NoGoalChecks` is assumed of the days: no day has both openings and checks of tool
  changes, because the code breaks `AnsweredOnce` on one that has (§5).

  `CallersAreOwedHolds` (`CallersAreOwed`) is the safety under `TurnsGoOn`'s liveness: no
  caller is forgotten. The promise of a `send` is settled far from where it was made, by
  whichever handler ends the turn that took it, and a handler that moves an input or
  clears `running` and does not pump leaves somebody waiting for good. `OwedInv` is
  `Owed` beside `OwnInv`; TLC checked its parts on the instance of `turns` first.

  - `Lost` is empty: whoever waits has their input in the list, behind the gate of an
    opening, with a turn whose call still counts or with an end that awaits its tick
    (`Somewhere`). A turn's end takes the inputs from it before they are put
    elsewhere, so in between they are lost, and the lemmas of an end say which (`EndsLoses`)
    and that what is settled or put back next is just those (`EndedOwed`);
  - `Served`: a message in the list has a turn, a probe, a slot, a limit or a pause
    to wait for;
  - `Turning`: what is live has a place, one is free for the next turn, and one check at
    most is waited on; `Calling`: nobody waits on a plan restored from disk, and a probe is
    under way only while its answer is not known.

  The two halves are proved apart. Most of a handler only *eases* (`Eases`: nobody new
  waits, is lost or is in the list); what it does to `Served` does not matter, since it
  ends with `Pump`, which serves from any state in which nobody is lost (`PumpServes`,
  `PumpOwed`). A handler that does not pump has to show that something else was under
  way (`FrameOwed`), and there is one lemma per action (`…Owed`).

  `DaysOwe` is assumed of the days: `DaysGo`; `TwoTurns`, since a turn let go talks on
  while the next one opens; `ChecksStay`, no day has both checks and what lets a turn
  go, a bound of the model, whose places an unsettled call and the check it left could both
  take; and `LostQuietly`, no day on which the lease is lost has an opening, or a
  compaction that a user's message could come behind, because nothing in the code pumps the
  queue behind those (§5). Every day of `turns` is such a day.

  `WakeUpsStayHolds` (`WakeUpsStay`) says that a wake-up or a report leaves the list with
  an answer, with something that somebody did, or with a turn that was stopped: what
  fails, pauses, meets its limit, times out or is put off by a probe keeps it. The
  invariant is `WakeInv`: `FitsInv`, and `Wary`, that what was withdrawn is of the user's
  and that a turn the conversation let go was stopped, so that the discarded end of one
  (which strikes what it was told) is the stopped turn's that the property excuses.
  Each handler either only *spares* the list's inputs (`Spares`: what leaves the list
  is of the user's) or is an end, which *spends* the turn's own (`Spends`); an act
  counts itself (`acts`), which the property excuses, so of an act only `Wary` has to be
  shown. It takes the days of `AnsweredOnce` (`DaysGo`, `NoGoalChecks`).
- `FileLockProofs`: `LockTyped`, and `OverlapsNeedRobbery` (`OverlapsAreRobbed`):
  of two swaps that overlap, one had its lock removed by name, for any number of
  processes, deaths and failed writes. So the window between a look and an unlink
  (finding 2) is the only one. The invariant says that whoever is past its create
  has its lock there or was robbed of it (`HolderOwns`), and that only a lock left
  behind grows old (`OldIsLeft`): a first takeover takes nobody's lock, and only one
  that comes late takes its successor's.
- `SessionLeaseProofs`: `HolderRecorded`: a Session that holds a lease is of the
  host the file names, so no two hosts hold one at once, while no host is
  suspended (`NoSleep`). The invariant adds that a holder's host is up
  (`HoldersUp`) and that the record of a host that is up is fresh (`UpIsFresh`):
  together they make `judge` refuse everyone else, which is what keeps a grant
  from taking a lease somebody holds. With suspended hosts it does not hold, and
  the code relies on `LostIsTold` (a part of
  `LeaseGoesOn`) and `LostStaysLost` instead (`lease_lost`).

  `RunnersOfOneHost` (`OneHostRuns`) adds that no Session switches (`NoSwitch`; §5).
  Whoever starts a runner or has one holds the lease of its session
  (`StartersHold`, `RunnersHold`), a lease file names groups of its own host only
  (`NamesItsOwn`), and a runner its session's file has named is named there for as
  long as it lives (`NamedStay`): a host writes only files it may take, each with all
  its runners, and removes only those it has no holder of (`NamingKeeps`). Two
  named runners of one session are then named by one record, so they are of one host.
  That a file of *another* session names a runner protects nothing; `named` is kept
  per file for that reason.

  `OlderStaysOlder` (`LostStaysLost`) is for hosts that are suspended and die at any
  moment, with no close, no switch and no load the disk refuses (`StaysOpen`): each
  takes away the record that tells a Session of its loss, and §5 has the trace. A
  Session whose plan is older has lost its lease, or holds one that names another
  host (`OlderLost`), and `hold` refuses both. It rests on the Sessions of a host
  having different sessions open (`OneHere`), so only another host's save makes a plan
  older and only that Session's own load would clear its loss, and on
  every open session having been claimed before anyone else could read it
  (`ClaimedOrNew`).

- `IsolationProofs`: `IsolationTypeCorrect` and `RevertsTakeFromNobody`
  (`RevertsUnderNobody`), from the inductive `TypeInv`, on every day. Beyond the shape of the state,
  `TypeInv` says how the two chains hold together:

  - `Jobs`: only the first job of the turn has begun, and each kind is at a stage of
    its own;
  - `Admins`: nobody stands in the admin chain twice, and the turn is in it exactly
    while its job does what needs it. A job past its wait for admin is at the head:
    that is why two chains, taken in one order, need no third rule;
  - `Tipped`: a landing in memory is the one on disk, and no branch is shorter than
    the tips it names, which is what lets a crash take it back by cutting;
  - `Before`: what a job under way relies on from its earlier stages (what it is to
    put back or to merge is among the tips, what it reverts was made);
  - `RunIsOn`: a record with no run holds nothing, and a prepare has a run, the one
    that is on or the one a mint ahead of it opens (`MintedBefore`): a clean-up that
    forgets the run leaves nothing in the turn up to the next mint.

  A revert's refusal is judged before its first commit and again after its last
  (`RefusedLate`); the theorem shows that the second look, at the very step that
  drops the landings, is enough, since who depends on a dependent depends on the
  task itself (`ReachGoesOn`) and nothing else takes a landing off a reverted
  record but a crash, which leaves nobody at work (`LandingsStand`).

- `IsolationWorkProofs`: `WorkIsNeverLost` (`WorkSurvives`) and `TreesStandOnLanded`
  (`StandsOnLanded`), for any tasks, repositories and attempts and on every day: any
  mixture of crashes, rollbacks that fail, users who review, retries, stops, conflicts and
  their repairs, reverts, merges that stop half way, hand-overs, discards and clean-ups.
  Nothing is assumed of when an act comes; what the code does lose is in `exposed` and
  `loose` before it is lost, by a step the history names.

  The invariant is `WorkInv` beside `TypeInv`; both properties are parts of it, since
  a rollback loses nothing because of where worktrees stand, and they stand right
  because rollbacks go no lower than the tips.

  - `RiskTold`: what a rollback of the landing on record would take, with no worktree and
    no user's branch that has it, was told exposed. The removal of a worktree
    and a crash are the only steps that put work there (`RiskNext`): a landing is taken off
    the record in memory before its worktree goes, so without a crash nothing is at risk;
  - `StandsBelow`: no worktree but a loose one was cut from above a tip that the landing
    in memory, or the one on disk, goes back to. A cut is made with no landing on record,
    or is told loose (`BelowNext`);
  - `Cleared`: nothing stands where a worktree is about to be cut, nothing stands as the
    branches go, and a landing is off the record as its worktree goes.

  The lemmas above them say of each part of the state by which steps it moves, and how
  (`GitMoves`, `LineMoves`, `LandingMoves`, `TreesMove`), so that each conjunct is
  shown from a few causes and not action by action.

Only model-checked: of `PlanTurns` `NextIsAsked`; of `Isolation` `LandedWhole` and
`UserBranchHolds`, which need the record of landings related to every commit on
every branch, and `AttemptKeepsPlace`, whose `doomed` would have to be followed through every order of
prepares, releases and landings; every liveness property (liveness and
`ENABLED` are beyond the prover here). Violated, and so not proved: `OneSwap` (finding 2),
`NoWorkLost` (3), `LandedWorkStays` (4). Only proved, beyond the runs' bounds:
`HolderIsRecorded` and `OneHostRuns` of Sessions on several session files, since
`lease_safety` has one; `LimitIsOwed` and `SessionInOneProcess` with two tasks at
work at once, since `sched_controls` has one slot. No module declares a
recursive operator; `Readiness` closes the order of a plan with a set and not by
recursion.

## 5. Findings

1. `sched_late_stop`: a Stop while one forced start opens its run does not keep
   the next queued one from starting (`TaskOrchestrator.ts:2589`).
2. `lock_race`: two waiters that have both looked twice at a lock left behind meet
   at its takeover. The faster removes it, by name, and makes its own; the slower
   then removes that one (`fileLock.ts:72`), and both are in their swap, though
   the comment says that a lock another waiter has since taken over "is left to its
   holder" (`fileLock.ts:27`) and knows of no window but that of a holder that neither dies
   nor finishes (`fileLock.ts:31`). The lock may be left by a process that died or
   by a token that could not be written (`fileLock.ts:43`); with the second, two
   processes do. `OverlapsNeedRobbery` proves that there is no other way.
3. `lease_race`: a session file is read before its lease is claimed, and not
   again (`orchestratorPool.ts:1104`), so a load can save an older plan over what
   the last holder saved and let go in between.
4. `isolation_late`: a landing takes itself off the record in memory, and removes the
   task's worktree and branch (`GitWorktreeIsolation.ts:1531`), before the
   controller saves the run (`IsolationRunController.ts:546`). A crash in between
   comes back with the landing on record: the merge is rolled back, and the work is
   on no branch, against ADR-0013, "Ordewell never deletes landed work the
   user has not merged" (`docs/adr/isolation/0013-worktree-isolation.md:261`).
   `WorkIsNeverLost` proves the rest safe.

**Where the lease's properties stop.** The runs leave out an input of `Acts`
because with it the code breaks the property; adding it back shows the trace.

- `NoWorkLost` also fails inside one host (`HostOf <- Beside`, `Acts = {"close",
  "op"}`): a closed Session whose control still changes git saves, as the control
  ends (`createSession.ts:3782`), over the same session opened again.
- `lease_lost` has no closes: with `Acts = {"close", "sleep"}` a suspended host,
  which learns of its loss from another host's record only
  (`sessionLease.ts:284`), finds none once that one has closed, and claims back.
- `lease_safety` has no switches: with `Acts = {"switch"}` and two sessions, a
  Session that loads another plan lets its old lease go while the old run's
  runners wind down (`sessionLease.ts:415`), though closing waits for them
  (`createSession.ts:4017`), and `OneHostRuns` fails.
- `lease_lost` has no disk that refuses a load: with three hosts and `Acts = {"sleep",
  "disk"}` one takes the lease of a suspended host and dies, or sleeps, in its turn; a third
  claims it, fails to save, and removes the file (`sessionLease.ts:408`), and the
  first, on waking, finds no record of its loss and claims back.

**Where the turns' properties stop.** In the same way the days of `turns` keep
apart what the code does not.

- `ticks` meets neither a goal, a load nor a compaction: the end of a turn awaits
  its tick and then clears `running` without asking whether that is still its
  turn (`PlanTurns.ts:631`–`636`), so what replaced it is cleared too.
- `force` meets no `ticks` either: the ids of a turn stay its own until its tick is
  over, and `admit` looks past them for the place of a forced input
  (`PlanTurns.ts:380`). When the turn keeps its inputs (a failure its wake-ups, a
  limit all), a force send in that tick is put behind them, and the next turn takes
  it with them (`ForcedGoesNext` fails in five states), although the comment at
  `PlanTurns.ts:345` has it answered alone and ahead of every input waiting. The
  invariants that are proved hold with both.
- `force` and `stop` meet no wake-up on one day: a Stop while a force-stopped turn
  unwinds drops the forced message, but `forceStopped` stays (`PlanTurns.ts:607`),
  so the wake-ups the turn had read are kept and its release opens a turn with them
  (`StopAnswers` fails), although `PlanTurns.ts:158` calls the user's stop their
  answer to them.
- `check` meets no `goal`: the planner of an opening may land its goal with a tool's
  change and then pause on its context, and `waitOnPause` puts the goal back in the
  list (`createSession.ts:3025`) without asking, as `waitOnLimit` two lines on does,
  whether it was answered ("A goal its own submit_plan already answered is not sent
  again to be planned twice"). The list and the transcript then both hold the goal
  (`AnsweredOnce` fails in five states) and a Retry plans it a second time.
- `CallersAreOwed` lets those wait that came behind a turn which ended limited or
  paused. `admit` (`PlanTurns.ts:380`) tells who comes later at once; those
  already in the queue hear nothing until the reset.
- `StopAnswers` lets a turn that the supervisor asks again open: a wake-up whose
  time runs out around the user's Stop (`Supervisor.ts:384`) ends as a timeout
  and its wake-ups open a turn, although `PlanTurns.ts:158` says that what was
  stopped waits for an input.
- `lease lost` meets only turns of the queue, and a compaction nobody waits
  behind: `leaseLost` (`createSession.ts:2572`) ends an opening or a compaction,
  after which nothing pumps the queue.

**Where isolation's properties stop.** No act is kept from meeting another by a guard the
code lacks. Each property speaks of all but what its history names, and this
is what that stands for.

- `exposed` (`WorkSurvives`) is the late crash of finding 4 and one thing more: a
  landing that could not be rolled back stays on the branch and on record. `prepare`
  does not settle first (`GitWorktreeIsolation.ts:616`), so a start of such a task
  takes what was merged for landed and removes the last attempt's worktree, the other
  place that has it; the next turn then rolls the merge back (`GitWorktreeIsolation.ts:1836`).
- `loose` (`StandsOnLanded`) is the same from the other side: a worktree cut from such a branch
  stands on what is still to go back, and a repair, which takes `admin` and not
  the turn (`reopen`, `GitWorktreeIsolation.ts:814`), may read its base in the middle
  of another task's landing.
- `doomed` (`AttemptKeepsPlace`) are attempts that the code lets begin beside what takes
  their worktree or their run:
  - a start under a discard or a clean-up that forgets the run goes on with the run
    it finds, and `forget` then takes it, which leaves the attempt in the user's
    checkout; so does one under a mint that a Stop interrupts, and each that starts
    after it. `adopt` guards against this, the others do not;
  - a start of a retried or stopped task whose landing is in flight: its prepare may come
    before the release still owed to the last attempt, which then removes the new worktree;
    with the landing itself still in the turn, that removes it as it ends;
  - a start after a Stop that opens a new run while a task marked complete waits to land:
    the mint that comes first takes its worktree;
  - a mark complete beside a clean-up (which is refused only over live tasks), a release, a
    prepare of a stopped attempt still in the turn, or another landing of its task, or of a
    task whose worktree a crash took: its landing finds nothing and answers `failed`;
  - a retry of an attempt whose task's earlier landing is still under way;
  - a repair beside a clean-up that waits in the turn, judged while nobody was live, or
    beside any of the others.

  An attempt begun with none of these about keeps its place, whatever comes while
  it is up.

**Where the child's properties stop.**

- `ReadIsLast` speaks of tasks, not of the run's merge. `stopSubtree`
  (`createSession.ts:2266`) waits for runners, children and the conversation, not
  for a merge under way, so `lastRead` (`ChildPlanRunner.ts:447`, "its merge
  cannot land behind this read") may read before such a merge ends. Only a merge
  already in flight as the halt comes can do so.
- `NothingSits` lets a child sit that is left to a wake-up. When its `control`
  grant goes, above it, while a wake-up is owed, the wake-up is refused at
  `assertPlannerReady` without a word to the attempt, no check is queued, and a
  check would find the grant gone and end it. `ChildPlanRunner.ts:282` says that
  no state of a child can sit with nothing to end it; only a wall clock, where one
  is set, ends this one. `LeftToAWakeUp` is the exception; without it the run
  shows the trace.

## 6. Plan

In this order, most important first:

1. Prove more: `Isolation`'s `LandedWhole`, `UserBranchHolds` and `AttemptKeepsPlace`,
   `PlanTurns`' `NextIsAsked`.
2. `PendingApprovals` and the turn gate: an abstract one-answer register and its
   refinement.
3. Several runners' limits and the tree's holds (`ResetWaits`, `limitFound`),
   composed with the pool.
4. `TreeLedger` and mandates with failing appends, a budget returned once; the
   Continue of a delegated task and its child's reopening.
5. `VerdictEngine`, loops, `WakePolicy`, the landing interlock over `runLive`, and
   last the container leases.
