----------------------------- MODULE RunScheduler -----------------------------
(***************************************************************************)
(* The scheduler of one Session's plan (services/TaskOrchestrator.ts) and  *)
(* the attempts it starts (services/Attempts.ts), with the pauses on a     *)
(* usage limit (services/LimitPauses.ts) and the run's state               *)
(* (services/runState.ts): a flat plan of AI tasks on one runner, no loop, *)
(* no repair, no merge gate.                                               *)
(*                                                                         *)
(* Everything between two awaits is one step. A handler that awaits leaves *)
(* a record of what it goes on with: ticks holds the ticks under way,      *)
(* waits every other one. Two records that are equal do the same thing,    *)
(* and are kept as one.                                                    *)
(***************************************************************************)
EXTENDS Readiness, RunState, Integers, Sequences, SequencesExt

CONSTANTS
    Before,       \* Before[t]: the tasks a start of t comes after, by their order
    MaxParallel,  \* config.maxParallelSessions
    Attempt,      \* records of attempts; one whose attempt is over is used again
    Controls,     \* what the user and the planner may ask for
    MaxInputs,    \* bound: how often they ask
    None          \* no task, no attempt

ASSUME BeforeAssumption == Before \in [Task -> SUBSET Task]
ASSUME MaxParallelAssumption == MaxParallel \in Nat \ {0}
ASSUME NoneAssumption == None \notin Task \cup Attempt

VARIABLES
    run,         \* runState
    status,      \* each task's status, in the plan store
    onHold,      \* each task's hold, which the user chose or not
    queued,      \* queuedStarts, oldest first
    completing,  \* tasks whose Mark complete is landing
    resumes,     \* tasks with a time to resume at
    armed,       \* the runner's reset is waited for
    planning,    \* a planner's turn holds new starts
    stops,       \* stopGeneration
    live,        \* each task's attempt
    attempt,     \* what became of each attempt, ended ones included
    ticks,       \* ticks and settled verdicts that await their queued starts
    waits,       \* every other handler that awaits
    inputs,      \* what was asked so far
    stopped      \* the user stopped the run, and asked for no start since

runVars == <<run, resumes, armed>>
vars == <<runVars, status, onHold, queued, completing, planning, stops, live, attempt, ticks, waits, inputs, stopped>>

Unused == [task |-> None, at |-> "over", gen |-> 0, kind |-> "fresh", runner |-> "none"]

Starting == {"winding", "opening", "spawning"}

AttemptRecord ==
    [task : Task \cup {None}, at : Starting \cup {"up", "deciding", "landing", "over"}, gen : Nat,
     kind : {"fresh", "continue"}, runner : {"none", "up", "stopping"}]

Awaited == {"letgo", "verdict", "retried", "skipped", "completed", "force", "revive", "queuedforce", "start", "resume"}

TypeOK ==
    /\ run \in RunStates
    /\ status \in [Task -> Status]
    /\ onHold \in [Task -> {"no", "chosen", "unchosen"}]
    /\ queued \in Seq(Task)
    /\ completing \in SUBSET Task
    /\ resumes \in SUBSET Task
    /\ armed \in BOOLEAN
    /\ planning \in BOOLEAN
    /\ stops \in Nat
    /\ live \in [Task -> Attempt \cup {None}]
    /\ attempt \in [Attempt -> AttemptRecord]
    /\ ticks \in SUBSET [gen : Nat, left : Seq(Task), on : Task \cup {None}, after : {"tick", "verdict"}]
    /\ waits \in SUBSET [do : Awaited, task : Task \cup {None}, gen : Nat]
    /\ inputs \in Nat
    /\ stopped \in BOOLEAN

Init ==
    /\ run = Run("idle")
    /\ status = [t \in Task |-> "pending"]
    /\ onHold = [t \in Task |-> "no"]
    /\ queued = <<>>
    /\ completing = {}
    /\ resumes = {}
    /\ armed = FALSE
    /\ planning = FALSE
    /\ stops = 0
    /\ live = [t \in Task |-> None]
    /\ attempt = [a \in Attempt |-> Unused]
    /\ ticks = {}
    /\ waits = {}
    /\ inputs = 0
    /\ stopped = FALSE

-----------------------------------------------------------------------------
(* What the scheduler reads. *)

HasLive(t) == live[t] # None
LiveTasks == {t \in Task : HasLive(t)}
Current(a) == attempt[a].task # None /\ live[attempt[a].task] = a
Scheduling == run.kind = "scheduling"
HeldRun == run.kind = "held"
SlotsFull == Cardinality(LiveTasks) >= MaxParallel
Remaining == {t \in Task : status[t] \notin Done}

\* The start rule, short of a slot: what startWaits finds nothing against.
Startable(t) ==
    /\ status[t] = "pending"
    /\ t \notin completing
    /\ onHold[t] = "no"
    /\ t \notin Blocked(status)
    /\ WaitingBehind(status, t, Contains(queued, t)) = {}
    /\ Of(status, {"limited"}) = {}
    /\ ~planning

StillReady(t) == ~HasLive(t) /\ ~SlotsFull /\ Startable(t)

\* The free slots' worth of startable tasks, lowest order first.
Ready ==
    LET candidates == {t \in Task : Startable(t)}
    IN  {t \in candidates : Cardinality(Before[t] \cap candidates) < MaxParallel - Cardinality(LiveTasks)}

\* Mutant of ForcedBehind: only what is at work is waited for.
ForcedBehindLive(t) == {u \in WaitingBehind(status, t, TRUE) : HasLive(u)}

\* A force start of t made now would wait for these.
ForcedBehind(t) == WaitingBehind(status, t, TRUE)

LeftToScheduler(t) == Scheduling /\ status[t] = "pending" /\ t \notin Blocked(status)

\* What startQueued makes of a queued start of t, as its loop comes to it.
Withdrawn(t) == HasLive(t) \/ status[t] \in Done
Unstartable(t) == SlotsFull \/ planning \/ t \in completing

AllDoneOrStuck == \A t \in Remaining : status[t] = "failed" \/ t \in Blocked(status)

-----------------------------------------------------------------------------
(* What steps are made of. *)

\* recoverOrphans: in progress with nothing at work goes back to not started.
Recovered(s) ==
    [t \in Task |-> IF s[t] = "in_progress" /\ live'[t] = None /\ t \notin completing' THEN "pending" ELSE s[t]]

Await(do, t, gen) == [do |-> do, task |-> t, gen |-> gen]

\* A queue without some of its tasks.
Dropped(q, gone) ==
    LET kept == {i \in DOMAIN q : q[i] \notin gone}
    IN  [n \in 1..Cardinality(kept) |-> q[CHOOSE i \in kept : Cardinality({j \in kept : j <= i}) = n]]

\* startQueued, to its first await: what comes before the first start it makes
\* is dropped or passed over. `left` is the queue as it was when the loop began,
\* and dependencies hold back only what is in the queue still.
QueuePass(left, q, w, gen, after, others) ==
    LET drops  == {t \in Task : Withdrawn(t)'}
        keeps  == {t \in Task : Unstartable(t)'} \cup {t \in ToSet(q) : ForcedBehind(t)' # {}}
        leaves == {t \in Task : LeftToScheduler(t)'}
        starts == {i \in DOMAIN left : left[i] \notin drops \cup keeps \cup leaves}
        first  == IF starts = {} THEN Len(left) + 1 ELSE Min(starts)
        gone   == {left[i] : i \in {j \in DOMAIN left : j = first \/ (j < first /\ left[j] \in drops \cup (leaves \ keeps))}}
        start  == IF starts = {} THEN {} ELSE {left[first]}
    IN  /\ queued' = Dropped(q, gone)
        /\ ticks' = others \cup
             {[gen |-> gen, left |-> SubSeq(left, first + 1, Len(left)),
               on |-> IF start = {} THEN None ELSE left[first], after |-> after]}
        /\ waits' = w \cup {Await("queuedforce", t, stops') : t \in start}

\* A tick begins. It leaves the statuses s, the queue q and the waits w.
Tick(s, q, w) ==
    /\ status' = Recovered(s)
    /\ QueuePass(q, q, w, stops', "tick", ticks)

\* The runner of an ending attempt is let go, to wind down on its own time.
LetGo(r) == IF r.at = "up" THEN [r EXCEPT !.at = "over", !.runner = "stopping"] ELSE r

\* An attempt has nothing left to do.
Over(a) == IF attempt[a].runner = "none" THEN Unused ELSE [attempt[a] EXCEPT !.at = "over"]

\* Attempts.end by a control: only the record goes, whatever is in flight finds out.
EndLive(t) ==
    /\ live' = [live EXCEPT ![t] = None]
    /\ attempt' = IF HasLive(t) THEN [attempt EXCEPT ![live[t]] = LetGo(@)] ELSE attempt

\* The hold on a run goes with the last wait on a reset.
RunHolding(r, left) == IF left = {} THEN NextRunState(r, "release") ELSE r

\* Mutant of CancelResume: the hold is left on, though nobody resumes at the reset any more.
CancelResumeStaysHeld(t) ==
    IF t \in resumes
    THEN resumes' = resumes \ {t} /\ armed' = (armed /\ resumes' # {}) /\ UNCHANGED run
    ELSE UNCHANGED runVars

\* LimitPauses.cancel: t waits for no reset any more.
CancelResume(t) ==
    IF t \in resumes
    THEN /\ resumes' = resumes \ {t}
         /\ armed' = (armed /\ resumes' # {})
         /\ run' = RunHolding(run, resumes')
    ELSE UNCHANGED runVars

Free == {a \in Attempt : attempt[a] = Unused}

\* Attempts.start: live, and in progress, before anything is awaited.
StartAttempt(t, gen, kind) ==
    LET a == CHOOSE b \in Free : TRUE
    IN  /\ live' = [live EXCEPT ![t] = a]
        /\ attempt' = [attempt EXCEPT ![a] =
               [task |-> t, at |-> IF kind = "continue" THEN "winding" ELSE "opening", gen |-> gen,
                kind |-> kind, runner |-> "none"]]

\* Mutant of Refused: the slots are not looked at again.
RefusedNoSlot(t, gen) == gen # stops \/ t \in completing

\* claimRefusal: a Stop since it was admitted, a landing that owns the task, no slot.
Refused(t, gen) == gen # stops \/ t \in completing \/ SlotsFull

-----------------------------------------------------------------------------
(* Ticks. *)

\* The start a queue's loop awaits has claimed and spawned, or come to nothing.
Awaits(e) ==
    e.on # None /\ (\/ \E w \in waits : w.do = "queuedforce" /\ w.task = e.on
                    \/ \E a \in Attempt : attempt[a].task = e.on /\ attempt[a].at \in Starting)

\* The loop of startQueued goes on after the start it awaited.
QueueGoesOn(e) ==
    /\ e \in ticks /\ ~Awaits(e) /\ e.left # <<>>
    /\ UNCHANGED <<runVars, status, onHold, completing, planning, stops, live, attempt, inputs, stopped>>
    /\ QueuePass(e.left, queued, waits, e.gen, e.after, ticks \ {e})

\* settleRun: whether the run goes on, waits or is over.
SettledRun(after) ==
    LET open == IF Remaining # {} THEN NextRunState(run, "reopen") ELSE run
    IN  IF LiveTasks # {} \/ open.kind = "held" THEN open
        ELSE IF open.kind # "scheduling"
             THEN IF after = "verdict" /\ Remaining = {} THEN NextRunState(open, "end finished") ELSE open
        ELSE IF Remaining = {} THEN NextRunState(open, "end finished")
        ELSE IF AllDoneOrStuck THEN NextRunState(open, "end failed")
        ELSE open

\* A tick past its queued starts settles the run, or begins the starts of what is ready.
TickGoesOn(e) ==
    /\ e \in ticks /\ ~Awaits(e) /\ e.left = <<>>
    /\ ticks' = ticks \ {e}
    /\ IF e.after = "verdict" \/ ~Scheduling \/ (~planning /\ Ready = {} /\ LiveTasks = {})
       THEN run' = SettledRun(e.after) /\ UNCHANGED waits
       ELSE UNCHANGED run /\ waits' = waits \cup {Await("start", t, e.gen) : t \in Ready}
    /\ UNCHANGED <<resumes, armed, status, onHold, queued, completing, planning, stops, live, attempt, inputs, stopped>>

\* startReady past the run's decision: judged again, and claimed in the same step.
StartGoesOn(w) ==
    /\ w \in waits /\ w.do = "start"
    /\ waits' = waits \ {w}
    /\ IF Scheduling /\ StillReady(w.task) /\ ~Refused(w.task, w.gen)
       THEN Free # {} /\ StartAttempt(w.task, w.gen, "fresh") /\ status' = [status EXCEPT ![w.task] = "in_progress"]
       ELSE UNCHANGED <<live, attempt, status>>
    /\ UNCHANGED <<runVars, onHold, queued, completing, planning, stops, ticks, inputs, stopped>>

-----------------------------------------------------------------------------
(* Attempts. *)

\* Mutant of Abandon: a newer attempt of the task is not looked for.
AbandonBlindly(a) ==
    LET t == attempt[a].task
    IN  /\ attempt' = [attempt EXCEPT ![a] = Unused]
        /\ status' = IF status[t] = "in_progress" THEN [status EXCEPT ![t] = "pending"] ELSE status

\* abandonSpawn: only the claim is taken back, whatever ended the attempt decides the rest.
Abandon(a) ==
    LET t == attempt[a].task
    IN  /\ attempt' = [attempt EXCEPT ![a] = Unused]
        /\ status' = IF ~HasLive(t) /\ t \notin completing /\ status[t] = "in_progress"
                     THEN [status EXCEPT ![t] = "pending"] ELSE status

\* Mutant of WoundDown: a continue waits for nobody.
WoundDownAtOnce(a) ==
    /\ attempt[a].at = "winding"
    /\ attempt' = [attempt EXCEPT ![a].at = "opening"]
    /\ UNCHANGED <<runVars, status, onHold, queued, completing, planning, stops, live, ticks, waits, inputs, stopped>>

\* A continue waits until no earlier runner of its task is winding down.
WoundDown(a) ==
    /\ attempt[a].at = "winding"
    /\ \A b \in Attempt : attempt[b].task = attempt[a].task => attempt[b].runner # "stopping"
    /\ attempt' = [attempt EXCEPT ![a].at = "opening"]
    /\ UNCHANGED <<runVars, status, onHold, queued, completing, planning, stops, live, ticks, waits, inputs, stopped>>

\* The lease is open: an attempt ended meanwhile spawns nothing.
Opened(a) ==
    /\ attempt[a].at = "opening"
    /\ IF Current(a)
       THEN attempt' = [attempt EXCEPT ![a].at = "spawning"] /\ UNCHANGED status
       ELSE Abandon(a)
    /\ UNCHANGED <<runVars, onHold, queued, completing, planning, stops, live, ticks, waits, inputs, stopped>>

\* Mutant of Spawned: any attempt of the task being live will do.
SpawnedForAny(a) ==
    /\ attempt[a].at = "spawning"
    /\ IF HasLive(attempt[a].task)
       THEN attempt' = [attempt EXCEPT ![a].at = "up", ![a].runner = "up"] /\ UNCHANGED status
       ELSE Abandon(a)
    /\ UNCHANGED <<runVars, onHold, queued, completing, planning, stops, live, ticks, waits, inputs, stopped>>

\* The runner is up: one whose attempt was ended meanwhile is killed.
Spawned(a) ==
    /\ attempt[a].at = "spawning"
    /\ IF Current(a)
       THEN attempt' = [attempt EXCEPT ![a].at = "up", ![a].runner = "up"] /\ UNCHANGED status
       ELSE Abandon(a)
    /\ UNCHANGED <<runVars, onHold, queued, completing, planning, stops, live, ticks, waits, inputs, stopped>>

\* LimitPauses.pause: with a reset to wait for, the run is held.
Pause(t, reset) ==
    /\ status' = [status EXCEPT ![t] = "limited"]
    /\ IF reset
       THEN resumes' = resumes \cup {t} /\ armed' = TRUE /\ run' = NextRunState(run, "hold")
       ELSE UNCHANGED runVars

\* The start failed, its runner hit its limit, or a retry could start it again.
SpawnFails(a, how) ==
    LET t == attempt[a].task IN
    /\ attempt[a].at \in {"opening", "spawning"}
    /\ IF ~Current(a)
       THEN /\ Abandon(a)
            /\ UNCHANGED <<runVars, live, onHold, waits>>
       ELSE /\ live' = [live EXCEPT ![t] = None]
            /\ attempt' = [attempt EXCEPT ![a] = Unused]
            /\ IF how = "failed"
               THEN status' = [status EXCEPT ![t] = "failed"] /\ UNCHANGED <<runVars, onHold>>
               ELSE IF how = "held"
               THEN /\ status' = [status EXCEPT ![t] = "pending"]
                    /\ onHold' = [onHold EXCEPT ![t] = "unchosen"]
                    /\ UNCHANGED runVars
               ELSE Pause(t, how = "limited, with a reset") /\ UNCHANGED onHold
            /\ waits' = waits \cup {Await(IF how \in {"failed", "held"} THEN "letgo" ELSE "verdict", None, 0)}
    /\ UNCHANGED <<queued, completing, planning, stops, ticks, inputs, stopped>>

\* A checkpoint, or a turn that ended without a report: the task waits for the user.
Ask(a) ==
    LET t == attempt[a].task IN
    /\ attempt[a].at = "up" /\ Current(a)
    /\ status[t] = "in_progress"
    /\ status' = [status EXCEPT ![t] = "asking"]
    /\ UNCHANGED <<runVars, onHold, queued, completing, planning, stops, live, attempt, ticks, waits, inputs, stopped>>

\* The user answers, and the runner goes on.
Answer(t) ==
    /\ status[t] = "asking"
    /\ status' = [status EXCEPT ![t] = "in_progress"]
    /\ UNCHANGED <<runVars, onHold, queued, completing, planning, stops, live, attempt, ticks, waits, inputs, stopped>>

\* Explicit starts that wait for their run to open, which no runner's work is shorter than.
Openings == {w \in waits : w.do \in {"force", "revive", "queuedforce", "resume"}}

\* A verdict: the runner is let go, and the rest waits for the next turn of the loop.
Verdict(a) ==
    /\ attempt[a].at = "up" /\ Current(a) /\ Openings = {}
    /\ attempt' = [attempt EXCEPT ![a].at = "deciding", ![a].runner = "stopping"]
    /\ UNCHANGED <<runVars, status, onHold, queued, completing, planning, stops, live, ticks, waits, inputs, stopped>>

\* Its work goes to landing, or it failed, or stopped on its limit.
Decided(a, how) ==
    LET t == attempt[a].task IN
    /\ attempt[a].at = "deciding"
    /\ IF ~Current(a)
       THEN attempt' = [attempt EXCEPT ![a] = Over(a)] /\ UNCHANGED <<runVars, live, status, waits>>
       ELSE IF how = "passed"
       THEN attempt' = [attempt EXCEPT ![a].at = "landing"] /\ UNCHANGED <<runVars, live, status, waits>>
       ELSE /\ live' = [live EXCEPT ![t] = None]
            /\ attempt' = [attempt EXCEPT ![a] = Over(a)]
            /\ waits' = waits \cup {Await("verdict", None, 0)}
            /\ IF how = "failed"
               THEN status' = [status EXCEPT ![t] = "failed"] /\ UNCHANGED runVars
               ELSE Pause(t, how = "limited, with a reset")
    /\ UNCHANGED <<onHold, queued, completing, planning, stops, ticks, inputs, stopped>>

\* Mutant of Landed: whoever ended the attempt, its landing completes the task.
LandedAnyway(a, how) ==
    LET t == attempt[a].task IN
    /\ attempt[a].at = "landing"
    /\ attempt' = [attempt EXCEPT ![a] = Over(a)]
    /\ live' = IF Current(a) THEN [live EXCEPT ![t] = None] ELSE live
    /\ status' = [status EXCEPT ![t] = how]
    /\ waits' = waits \cup {Await("verdict", None, 0)}
    /\ UNCHANGED <<runVars, onHold, queued, completing, planning, stops, ticks, inputs, stopped>>

\* The landing is over: merged, in conflict, or thrown.
Landed(a, how) ==
    LET t == attempt[a].task IN
    /\ attempt[a].at = "landing"
    /\ attempt' = [attempt EXCEPT ![a] = Over(a)]
    /\ IF Current(a)
       THEN /\ live' = [live EXCEPT ![t] = None]
            /\ status' = [status EXCEPT ![t] = how]
            /\ waits' = waits \cup {Await("verdict", None, 0)}
       ELSE UNCHANGED <<live, status, waits>>
    /\ UNCHANGED <<runVars, onHold, queued, completing, planning, stops, ticks, inputs, stopped>>

\* Mutant of RunnerGone: a runner whose attempt is over is never noted as gone.
RunnerGoneOfCurrent(a) ==
    /\ attempt[a].runner = "stopping" /\ Current(a)
    /\ attempt' = [attempt EXCEPT ![a].runner = "none"]
    /\ UNCHANGED <<runVars, status, onHold, queued, completing, planning, stops, live, ticks, waits, inputs, stopped>>

\* The runner that was let go has gone.
RunnerGone(a) ==
    /\ attempt[a].runner = "stopping"
    /\ attempt' = [attempt EXCEPT ![a] = IF @.at = "over" THEN Unused ELSE [@ EXCEPT !.runner = "none"]]
    /\ UNCHANGED <<runVars, status, onHold, queued, completing, planning, stops, live, ticks, waits, inputs, stopped>>

\* afterVerdict: a run the scheduler does not drive settles with its queued starts.
AfterVerdict(w) ==
    /\ w \in waits /\ w.do = "verdict"
    /\ armed' = (armed /\ resumes # {})
    /\ run' = RunHolding(run, resumes)
    /\ UNCHANGED <<resumes, onHold, completing, planning, stops, live, attempt, inputs, stopped>>
    /\ IF run'.kind = "scheduling"
       THEN Tick(status, queued, waits \ {w})
       ELSE UNCHANGED status /\ QueuePass(queued, queued, waits \ {w}, stops, "verdict", ticks)

\* The worktree has gone: what ended the attempt ticks.
LetGoOver(w) ==
    /\ w \in waits /\ w.do = "letgo"
    /\ UNCHANGED <<runVars, onHold, completing, planning, stops, live, attempt, inputs, stopped>>
    /\ Tick(status, queued, waits \ {w})

-----------------------------------------------------------------------------
(* A usage limit's reset. *)

\* The timer fires: every task that waits on the reset resumes.
ResetComes ==
    /\ armed
    /\ armed' = FALSE
    /\ waits' = waits \cup {Await("resume", t, stops) : t \in resumes}
    /\ UNCHANGED <<run, resumes, status, onHold, queued, completing, planning, stops, live, attempt, ticks, inputs, stopped>>

\* resumeTask past its run's opening: a task that may not claim waits for the
\* user instead. The last one gives a scheduled run back, and it starts again.
ResumeGoesOn(w) ==
    LET t == w.task
        goesOn == t \in resumes /\ ~HasLive(t)
        starts == goesOn /\ ~Refused(t, w.gen)
        restarts == starts /\ run.from = "scheduling" /\ resumes = {t}
        rest == waits \ {w}
    IN  /\ w \in waits /\ w.do = "resume"
        /\ IF starts
           THEN /\ Free # {} /\ StartAttempt(t, w.gen, "continue")
                /\ onHold' = [onHold EXCEPT ![t] = "no"]
                /\ resumes' = resumes \ {t}
                /\ UNCHANGED armed
                /\ run' = IF restarts THEN NextRunState(run, "schedule") ELSE RunHolding(run, resumes')
           ELSE /\ UNCHANGED <<live, attempt, onHold>>
                /\ IF goesOn /\ w.gen = stops THEN CancelResume(t) ELSE UNCHANGED runVars
        /\ UNCHANGED <<completing, planning, stops, inputs, stopped>>
        /\ LET s == IF starts THEN [status EXCEPT ![t] = "in_progress"] ELSE status
           IN  IF restarts THEN Tick(s, queued, rest)
               ELSE status' = s /\ waits' = rest /\ UNCHANGED <<queued, ticks>>

-----------------------------------------------------------------------------
(* What the user asks for. *)

Control(c) == c \in Controls /\ inputs < MaxInputs /\ inputs' = inputs + 1

\* A start or a skip is refused while a Mark complete lands.
Asks(c) == Control(c) /\ completing = {}

Moved(t, new) == [status EXCEPT ![t] = new]

\* Execute with nothing live and no run: a new run, its failures and waits taken back.
BeginRun ==
    /\ Asks("execute")
    /\ LiveTasks = {} /\ ~HeldRun /\ ~Scheduling
    /\ run' = NextRunState(NextRunState(NextRunState(run, "stop"), "load"), "schedule")
    /\ onHold' = [t \in Task |-> IF onHold[t] = "chosen" THEN "chosen" ELSE "no"]
    /\ resumes' = {} /\ armed' = FALSE
    /\ stopped' = FALSE
    /\ UNCHANGED <<completing, planning, stops, live, attempt>>
    /\ Tick([t \in Task |-> IF status[t] \in Done THEN status[t] ELSE "pending"], <<>>, waits)

\* Execute with a run under way takes the plan into it; one the scheduler was
\* not driving gets the fresh chance of a new run.
JoinRun ==
    /\ Asks("execute")
    /\ LiveTasks # {} \/ HeldRun \/ Scheduling
    /\ stopped' = FALSE
    /\ run' = IF HeldRun THEN NextRunState(run, "join") ELSE NextRunState(run, "schedule")
    /\ UNCHANGED <<resumes, armed, onHold, completing, planning, stops, live, attempt>>
    /\ LET fresh == ~Scheduling /\ run.from # "scheduling"
           s == [t \in Task |-> IF fresh /\ status[t] = "failed" /\ ~HasLive(t) THEN "pending" ELSE status[t]]
       IN  IF HeldRun THEN status' = s /\ UNCHANGED <<queued, ticks, waits>>
           ELSE Tick(s, queued, waits)

\* Mutant of Stop: the resets stay waited for.
StopKeepsResets ==
    /\ Control("stop")
    /\ stops' = stops + 1
    /\ run' = NextRunState(run, "stop")
    /\ live' = [t \in Task |-> None]
    /\ attempt' = [a \in Attempt |-> LetGo(attempt[a])]
    /\ onHold' = [t \in Task |-> IF onHold[t] = "chosen" THEN "chosen" ELSE "no"]
    /\ queued' = <<>>
    /\ stopped' = TRUE
    /\ UNCHANGED <<resumes, armed, completing, planning, ticks, waits>>
    /\ status' = Recovered([t \in Task |-> IF HasLive(t) THEN "pending" ELSE status[t]])

\* The user's Stop. Whatever awaits goes on, and finds that it came.
Stop ==
    /\ Control("stop")
    /\ stops' = stops + 1
    /\ run' = NextRunState(run, "stop")
    /\ live' = [t \in Task |-> None]
    /\ attempt' = [a \in Attempt |-> LetGo(attempt[a])]
    /\ onHold' = [t \in Task |-> IF onHold[t] = "chosen" THEN "chosen" ELSE "no"]
    /\ queued' = <<>>
    /\ resumes' = {} /\ armed' = FALSE
    /\ stopped' = TRUE
    /\ UNCHANGED <<completing, planning, ticks, waits>>
    /\ status' = Recovered([t \in Task |-> IF HasLive(t) THEN "pending" ELSE status[t]])

\* A running task is cancelled: not started again, and held.
CancelTask(t) ==
    /\ Control("cancel")
    /\ HasLive(t) /\ t \notin completing
    /\ EndLive(t)
    /\ status' = Moved(t, "pending")
    /\ onHold' = [onHold EXCEPT ![t] = "chosen"]
    /\ waits' = waits \cup {Await("letgo", None, 0)}
    /\ UNCHANGED <<runVars, queued, completing, planning, stops, ticks, stopped>>

\* The seam refuses the retry of a task at work, completed or blocked, or behind unfinished work.
RetryTask(t) ==
    /\ Asks("retry")
    /\ ~HasLive(t)
    /\ status[t] \in {"failed", "conflict", "limited", "skipped"}
    /\ WaitingBehind(status, t, Contains(queued, t)) = {}
    /\ Scheduling \/ ~SlotsFull
    /\ CancelResume(t)
    /\ status' = Moved(t, "pending")
    /\ onHold' = [onHold EXCEPT ![t] = "no"]
    /\ waits' = waits \cup {Await("retried", t, stops)}
    /\ UNCHANGED <<queued, completing, planning, stops, live, attempt, ticks, stopped>>

SkipTask(t) ==
    /\ Asks("skip")
    /\ status[t] \notin Done \cup {"in_progress"}
    /\ CancelResume(t)
    /\ EndLive(t)
    /\ status' = Moved(t, "skipped")
    /\ onHold' = [onHold EXCEPT ![t] = "no"]
    /\ waits' = waits \cup {Await("skipped", t, stops)}
    /\ UNCHANGED <<queued, completing, planning, stops, ticks, stopped>>

\* The worktree has gone: a run that ended on a failure goes on. A Stop since
\* leaves it stopped, and only a skip ticks.
ControlGoesOn(w) ==
    /\ w \in waits /\ w.do \in {"retried", "skipped"}
    /\ run' = IF w.gen = stops THEN NextRunState(run, "continue") ELSE run
    /\ UNCHANGED <<resumes, armed, onHold, completing, planning, stops, live, attempt, inputs, stopped>>
    /\ IF w.gen = stops \/ w.do = "skipped"
       THEN Tick(status, queued, waits \ {w})
       ELSE waits' = waits \ {w} /\ UNCHANGED <<status, queued, ticks>>

\* A wait on a reset is called off, and the run it held goes on.
CancelScheduledResume(t) ==
    /\ Control("cancel resume")
    /\ t \in resumes
    /\ CancelResume(t)
    /\ UNCHANGED <<onHold, completing, planning, stops, live, attempt, stopped>>
    /\ Tick(status, queued, waits)

\* A force start: behind dependencies still under way it waits in the queue, off any hold.
Enqueued(t) ==
    /\ onHold' = [onHold EXCEPT ![t] = "no"]
    /\ queued' = IF LeftToScheduler(t) \/ Contains(queued, t) THEN queued ELSE Append(queued, t)

ForceStart(t) ==
    /\ Asks("force")
    /\ ~HasLive(t) /\ status[t] \notin {"completed", "in_progress"}
    /\ stopped' = FALSE
    /\ IF ForcedBehind(t) # {}
       THEN Enqueued(t) /\ UNCHANGED waits
       ELSE /\ queued' = Dropped(queued, {t})
            /\ waits' = waits \cup {Await(IF status[t] = "skipped" THEN "revive" ELSE "force", t, stops)}
            /\ UNCHANGED onHold
    /\ UNCHANGED <<runVars, status, completing, planning, stops, live, attempt, ticks>>

Requeued(t) == queued' = IF Contains(queued, t) THEN queued ELSE Append(queued, t)

\* startForced past its run's opening. A queued one held back again is queued
\* again; one made now waits for dependencies it has got since.
ForceGoesOn(w) ==
    LET t == w.task
        again == w.gen = stops /\ ~HasLive(t)
        behind == ForcedBehind(t) # {}
        requeued == again /\ w.do = "queuedforce" /\ (behind \/ planning \/ t \in completing \/ SlotsFull)
        queues == again /\ w.do # "queuedforce" /\ behind
        claims == again /\ ~requeued /\ ~queues /\ ~Refused(t, w.gen) /\ (status[t] = "skipped" => w.do = "revive")
    IN  /\ w \in waits /\ w.do \in {"force", "revive", "queuedforce"}
        /\ waits' = waits \ {w}
        /\ IF claims
           THEN /\ Free # {} /\ StartAttempt(t, w.gen, "fresh")
                /\ CancelResume(t)
                /\ status' = Moved(t, "in_progress")
                /\ onHold' = [onHold EXCEPT ![t] = "no"]
                /\ UNCHANGED queued
           ELSE /\ UNCHANGED <<runVars, live, attempt, status>>
                /\ IF requeued THEN Requeued(t) /\ UNCHANGED onHold
                   ELSE IF queues THEN Enqueued(t)
                   ELSE UNCHANGED <<onHold, queued>>
        /\ UNCHANGED <<completing, planning, stops, ticks, inputs, stopped>>

\* Nothing could move a task on unasked: what a manual override waits for.
StartsPending ==
    \/ \E w \in waits : w.do \in {"retried", "skipped", "force", "revive", "queuedforce", "resume"}
    \/ queued # <<>> \/ resumes # {}
AdvancesOnItsOwn == StartsPending \/ LiveTasks # {} \/ Scheduling \/ HeldRun

\* Mark complete: the task's work lands, whatever of the run begins meanwhile.
MarkTaskComplete(t) ==
    /\ Asks("complete")
    /\ ~AdvancesOnItsOwn
    /\ status[t] # "completed"
    /\ completing' = {t}
    /\ waits' = waits \cup {Await("completed", t, stops)}
    /\ UNCHANGED <<runVars, status, onHold, queued, planning, stops, live, attempt, ticks, stopped>>

CompletedGoesOn(w, landed) ==
    LET t == w.task
        s == Moved(t, IF landed THEN "completed" ELSE "conflict")
        left == resumes \ {t}
    IN  /\ w \in waits /\ w.do = "completed"
        /\ completing' = completing \ {t}
        /\ onHold' = IF landed THEN [onHold EXCEPT ![t] = "no"] ELSE onHold
        /\ resumes' = left
        /\ armed' = (armed /\ left # {})
        /\ run' = RunHolding(run, left)
        /\ UNCHANGED <<planning, stops, live, attempt, inputs, stopped>>
        /\ Tick(s, queued, waits \ {w})

MarkTaskIncomplete(t) ==
    /\ Asks("incomplete")
    /\ ~AdvancesOnItsOwn
    /\ status[t] = "completed"
    /\ onHold' = [onHold EXCEPT ![t] = "chosen"]
    /\ UNCHANGED <<runVars, completing, planning, stops, live, attempt, stopped>>
    /\ Tick(Moved(t, "pending"), queued, waits)

\* A planner's turn holds new starts while it decides what runs next.
HoldStarts ==
    /\ Control("turn")
    /\ ~planning
    /\ planning' = TRUE
    /\ UNCHANGED <<runVars, status, onHold, queued, completing, stops, live, attempt, ticks, waits, stopped>>

\* Mutant of ReleaseStarts: whoever lets the starts go does not tick.
ReleaseStartsQuietly ==
    /\ planning
    /\ planning' = FALSE
    /\ UNCHANGED <<runVars, status, onHold, queued, completing, stops, live, attempt, ticks, waits, inputs, stopped>>

\* The turn is over: its release ticks.
ReleaseStarts ==
    /\ planning
    /\ planning' = FALSE
    /\ UNCHANGED <<runVars, onHold, completing, stops, live, attempt, inputs, stopped>>
    /\ Tick(status, queued, waits)

-----------------------------------------------------------------------------
GoesOn(w) == StartGoesOn(w) \/ AfterVerdict(w) \/ LetGoOver(w) \/ ResumeGoesOn(w) \/ ControlGoesOn(w)
             \/ ForceGoesOn(w) \/ \E landed \in BOOLEAN : CompletedGoesOn(w, landed)

TickMoves(e) == QueueGoesOn(e) \/ TickGoesOn(e)

AttemptMoves(a) ==
    \/ WoundDown(a) \/ Opened(a) \/ Spawned(a) \/ RunnerGone(a)
    \/ \E how \in {"failed", "held", "limited", "limited, with a reset"} : SpawnFails(a, how)
    \/ Verdict(a)
    \/ \E how \in {"passed", "failed", "limited", "limited, with a reset"} : Decided(a, how)
    \/ \E how \in {"completed", "conflict", "failed"} : Landed(a, how)

UserMoves ==
    \/ BeginRun \/ JoinRun \/ Stop \/ HoldStarts
    \/ \E t \in Task : \/ CancelTask(t) \/ RetryTask(t) \/ SkipTask(t) \/ CancelScheduledResume(t)
                       \/ ForceStart(t) \/ MarkTaskComplete(t) \/ MarkTaskIncomplete(t) \/ Answer(t)

Next ==
    \/ \E e \in ticks : TickMoves(e)
    \/ \E w \in waits : GoesOn(w)
    \/ \E a \in Attempt : AttemptMoves(a) \/ Ask(a)
    \/ ResetComes \/ ReleaseStarts
    \/ UserMoves

Spec == Init /\ [][Next]_vars

\* What awaits is answered, runners end their turns, a reset comes, a planner's
\* turn ends. What the user asks for, or answers, is owed by nobody.
Fairness ==
    /\ WF_vars(\E e \in ticks : TickMoves(e))
    /\ WF_vars(\E w \in waits : GoesOn(w))
    /\ \A a \in Attempt : WF_vars(AttemptMoves(a))
    /\ WF_vars(ResetComes)
    /\ WF_vars(ReleaseStarts)

FairSpec == Spec /\ Fairness

-----------------------------------------------------------------------------
(* Properties. *)

\* A task reads as running exactly while an attempt of it is: no status is left
\* behind by whatever ended the attempt, and no attempt runs under another status.
StatusTellsTheTruth ==
    \A t \in Task :
        /\ status[t] \in {"in_progress", "asking"} => HasLive(t)
        /\ HasLive(t) => status[t] \in {"in_progress", "asking"}

\* A runner that nobody has let go is the runner of its task's attempt: a spawn
\* that came up after its attempt was ended, or replaced, is killed.
NoStrayRunner == \A a \in Attempt : attempt[a].runner = "up" => Current(a) /\ attempt[a].at = "up"

\* The attempts are never more than the slots.
SlotsHold == Cardinality(LiveTasks) <= MaxParallel

\* What is at work is what the plan says is, no more and no other: no runner, status or
\* slot is left behind by an attempt that a Stop, a retry or a late spawn took the task from.
WorkIsAccountedFor == StatusTellsTheTruth /\ NoStrayRunner /\ SlotsHold

\* A session resumed at a reset is never in two processes: the runner it was
\* let go in has gone before the one that resumes it is made.
SessionInOneProcess ==
    \A a, b \in Attempt :
        (Current(a) /\ attempt[a].kind = "continue" /\ attempt[a].at \in {"opening", "spawning", "up"}
            /\ a # b /\ attempt[a].task = attempt[b].task)
        => attempt[b].runner = "none"

\* After the user's Stop nothing is at work until they ask for a start.
StopHolds == stopped => LiveTasks = {}

\* A run is held only while something is on its way to let it go.
HoldIsOwed ==
    HeldRun => armed \/ \E w \in waits : w.do \in {"resume", "completed"} \/ (w.do = "verdict")

\* A task that says it resumes at a reset holds the run, and something is there to resume it.
ResetIsAwaited ==
    \A t \in resumes : HeldRun /\ status[t] = "limited" /\ (armed \/ \E w \in waits : w.do = "resume" /\ w.task = t)

\* What a usage limit holds, the run or a task, has something armed or under way
\* that will let it go, whatever was cancelled, stopped or retried meanwhile.
LimitIsOwed == HoldIsOwed /\ ResetIsAwaited

\* Nothing is under way that would tick.
AtRest == ticks = {} /\ waits = {} /\ LiveTasks = {}

\* A scheduler with nothing under way has nothing it could start: whatever made
\* a task ready ticked.
NoMissedStart == AtRest /\ Scheduling => Ready = {}

\* A scheduler with nothing under way waits on the user, or the run has ended.
RestsOnUser == AtRest /\ Scheduling /\ ~planning => Remaining # {} /\ ~AllDoneOrStuck

\* A scheduler is at rest only for want of something to start, and only for as
\* long as there is something left that the user may answer.
RestsRightly == NoMissedStart /\ RestsOnUser

\* The scheduler claims a task only once all it waits for is done, and a force
\* start only once what is left of that can no longer be done.
DependentsWait ==
    [][\A t \in Task : ~HasLive(t) /\ HasLive(t)' /\ attempt'[live'[t]].kind = "fresh" =>
         LET unmet == {u \in Deps[t] : status[u] \notin Done}
         IN  IF \E w \in waits : w.task = t /\ w.do # "start" /\ ForceGoesOn(w)
             THEN unmet \subseteq Of(status, {"failed"}) \cup Blocked(status)
             ELSE unmet = {}]_vars

\* Only the user takes back what completed: no attempt ended, no run begun and
\* no landing over does.
CompletionStands ==
    [][\A t \in Task : status[t] = "completed" /\ status'[t] # "completed" => MarkTaskIncomplete(t)]_vars

\* The plan's order holds across awaits: what a task was claimed on is done, and
\* no landing or run that comes over it late undoes that.
OrderHolds == DependentsWait /\ CompletionStands

\* A scheduled run comes to its end, or to something that only the user answers.
RunSettles == Scheduling ~> (~Scheduling \/ \E t \in Task : status[t] \in {"asking", "conflict", "limited"} \/ onHold[t] # "no")

\* What was claimed comes to something, or waits for the user's answer.
AttemptEnds == \A t \in Task : (status[t] = "in_progress") ~> (status[t] # "in_progress")

\* A held run is let go.
HoldEnds == HeldRun ~> ~HeldRun

\* What the scheduler began goes on to its end: the run, each attempt, each hold.
RunGoesOn == RunSettles /\ AttemptEnds /\ HoldEnds
=============================================================================
