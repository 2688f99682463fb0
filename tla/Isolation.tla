---- MODULE Isolation ----
(***************************************************************************)
(* Isolated execution: a run gives each task a worktree and a branch of    *)
(* its own in every repository of a group, lands what passed on the run's  *)
(* integration branches, all repositories or none, merges those into the   *)
(* user's branch, reverts landings, and clears up.  GitWorktreeIsolation   *)
(* serialises this on two chains (IsolationLocks): the turn, which every   *)
(* landing, merge, revert and clean-up takes, and admin, under which       *)
(* worktrees and branches come and go.  IsolationRunController keeps the   *)
(* run's record and saves it with the plan.  The process may die between   *)
(* any two steps and comes back with what was saved.                       *)
(*                                                                         *)
(* A task's work is what one attempt changed in one repository: whole      *)
(* files, messages and links are left out.  `day' is what may happen in a  *)
(* behaviour, once, besides tasks starting, working and landing.           *)
(***************************************************************************)
EXTENDS Naturals, Sequences, FiniteSets, Functions

CONSTANTS
    Task,     \* the plan's tasks, numbers in plan order
    Repo,     \* the group's repositories, numbers in the group's order
    MaxWork,  \* attempts in a behaviour
    Days,     \* the kinds of day
    None

ASSUME SomeTasks == Task \subseteq Nat \ {0} /\ IsFiniteSet(Task)
ASSUME SomeRepos == Repo \subseteq Nat /\ Repo # {} /\ IsFiniteSet(Repo)
ASSUME SomeWork == MaxWork \in Nat \ {0}
ASSUME NoneIsNone == None \notin Task \cup Repo

VARIABLES
    day, acts,
    line,     \* [Repo -> Seq(commit)]: the integration branch, from the run's base on
    head,     \* [Repo -> set of commits]: what the user's branch has of it
    iwt,      \* the repositories with an integration worktree of Ordewell's
    held,     \* the repositories where the user has the integration branch checked out
    tree,     \* [Task -> worktree and branch]: of which attempt, what it holds, where it was cut
    kept,     \* the work a branch of its own was made for
    run,      \* the run's record, as it is in memory
    done,     \* the tasks the plan shows completed
    saved,    \* the record and the plan as last saved
    open,     \* a run is open, decided to isolate
    phase,    \* [Task -> where its attempt stands]
    used,     \* [Task -> attempts made]
    turn,     \* the turn's chain, its first job under way
    admin,    \* the admin chain, its first holder in it: a task let go, or Turn
    waiting,  \* the tasks whose landing is asked for and not yet in the turn
    letting,  \* [Task -> how its worktree is being let go]
    wrote,    \* history: all work there was
    gaveUp,   \* history: what the user discarded
    exposed,  \* history: the work left on a branch alone, above the tip a recorded landing goes back to
    loose,    \* history: the tasks that stand on tips a landing on record may still take back
    doomed    \* history: the tasks begun while something under way may take their place from them

git == <<line, head, iwt, held, tree, kept>>
record == <<run, done, saved>>
locks == <<turn, admin, waiting, letting>>
attempts == <<phase, used, open>>
history == <<wrote, gaveUp, exposed, loose, doomed>>
today == <<day, acts>>
vars == <<git, record, locks, attempts, history, today>>

-----------------------------------------------------------------------------
(* Data.  A commit on an integration branch is a task's merge, the revert   *)
(* of one, or the user's own; the work of an attempt is <<task, n, repo>>.  *)

Merge(t, n) == [by |-> "merge", task |-> t, n |-> n]
RevertOf(c) == [c EXCEPT !.by = "revert"]
UserCommit == [by |-> "user", task |-> 0, n |-> 1]
WorkOf(c, r) == <<c.task, c.n, r>>

\* The turn, where it is in the admin chain: no task has its number.
Turn == 0

NoTree == [n |-> 0, there |-> FALSE, work |-> {}, base |-> [r \in Repo |-> 0]]
NoLanding == [task |-> None, tips |-> <<>>, reverts |-> FALSE, made |-> <<>>]
NoRun == [on |-> FALSE, status |-> [t \in Task |-> "none"], landing |-> NoLanding, landings |-> {}, reverted |-> FALSE]
FreshRun == [NoRun EXCEPT !.on = TRUE]

InSeq(s) == {s[i] : i \in 1..Len(s)}
Lowest(S) == CHOOSE x \in S : \A y \in S : x <= y

OnLine(r, t, n) == Merge(t, n) \in InSeq(line[r])
InUserBranch(w) == Merge(w[1], w[2]) \in head[w[3]]
\* The merges on a branch that no revert after them took out.
Standing(r) ==
    {line[r][i] : i \in {j \in 1..Len(line[r]) :
        line[r][j].by = "merge" /\ ~\E k \in j + 1..Len(line[r]) : line[r][k] = RevertOf(line[r][j])}}

\* holdsUnlandedWork: what a worktree or branch has that the integration branch has not.
Unlanded(t) == {r \in tree[t].work : tree[t].there /\ ~OnLine(r, t, tree[t].n)}
\* preserve: what is neither there nor in the user's branch gets a branch of its own.
Preserved(t) == {<<t, tree[t].n, r>> : r \in {x \in Unlanded(t) : ~InUserBranch(<<t, tree[t].n, x>>)}}
\* Mutant of PreservedOf: what was merged once and conflicted is taken for landed.
PreservedOfMerged(S) == UNION {Preserved(t) : t \in {u \in S : run.status[u] # "conflict"}}
PreservedOf(S) == UNION {Preserved(t) : t \in S}

\* The plan: on a "chain" day each task depends on the one before.
Dependencies(t) == {u \in Task : "chain" \in day /\ u < t}
Dependents(t) == {u \in Task : t \in Dependencies(u)}

InTree(w) == w[1] \in Task /\ tree[w[1]].there /\ tree[w[1]].n = w[2] /\ w[3] \in tree[w[1]].work

Live(t) == phase[t] # "rest"
LiveTasks == {t \in Task : Live(t)}
LandedWork(t) == \E w \in run.landings : w[1] = t
Statuses(S) == {t \in Task : run.status[t] \in S}
\* Every landing of the run is in the user's branch, and there was one.
AllMerged ==
    /\ Statuses({"merged"}) # {}
    /\ \A w \in run.landings : run.status[w[1]] = "merged" /\ w[2] = tree[w[1]].n => InUserBranch(w)
\* What keeps a settled run from being cleared up.
Holdouts == {t \in Task : run.status[t] # "none" /\ (Live(t) \/ run.status[t] # "merged")}
ContinuableRun == run.on /\ (run.reverted \/ \E t \in Task : run.status[t] \notin {"none", "active"})

-----------------------------------------------------------------------------
(* The turn's jobs.                                                         *)

Job(op, t) == [op |-> op, task |-> t, n |-> 0, at |-> "start", asked |-> {}, todo |-> {}, stuck |-> {}, out |-> "ok"]
Now == Head(turn)
Underway(op, at) == turn # <<>> /\ Now.op \in op /\ Now.at = at
Goes(job) == turn' = [turn EXCEPT ![1] = job]
Over == turn' = Tail(turn)
HoldsAdmin == admin # <<>> /\ Head(admin) = Turn
InTurn(op) == \E i \in 1..Len(turn) : turn[i].op \in op
Prepared(jobs) == {t \in Task : \E i \in 1..Len(jobs) : jobs[i].op = "prepare" /\ jobs[i].task = t}
Preparing(t) == t \in Prepared(turn)
LandingOf(t) == t \in waiting \/ \E i \in 1..Len(turn) : turn[i].op = "land" /\ turn[i].task = t

\* A release that awaits no landing has asked for admin before anything else gets a say.
Asked(t) == letting[t] \in {"keep", "drop"} => t \in InSeq(admin)

\* What a rollback of the landing on record would take, with nothing else that holds it.
Tips == DOMAIN run.landing.tips
AboveTip(r) == InSeq(SubSeq(line[r], run.landing.tips[r] + 1, Len(line[r])))
AtRisk ==
    {w \in wrote : /\ w[3] \in Tips /\ ~run.landing.reverts /\ Merge(w[1], w[2]) \in AboveTip(w[3])
                   /\ ~InTree(w) /\ ~InUserBranch(w)}
Exposes == UNCHANGED <<wrote, gaveUp, loose, doomed>> /\ exposed' = exposed \cup AtRisk'

\* onIsolationChanged: the record and the plan are saved as they now are.
Saves == saved' = [run |-> run', done |-> done']
May(what) == what \in day \ acts /\ acts' = acts \cup {what} /\ UNCHANGED day
Same == UNCHANGED today

Init ==
    /\ day \in Days /\ acts = {}
    /\ line = [r \in Repo |-> <<>>] /\ head = [r \in Repo |-> {}]
    /\ iwt = {} /\ held = {}
    /\ tree = [t \in Task |-> NoTree] /\ kept = {}
    /\ run = NoRun /\ done = {} /\ saved = [run |-> NoRun, done |-> {}]
    /\ open = FALSE
    /\ phase = [t \in Task |-> "rest"] /\ used = [t \in Task |-> 0]
    /\ turn = <<>> /\ admin = <<>> /\ waiting = {}
    /\ letting = [t \in Task |-> "no"]
    /\ wrote = {} /\ gaveUp = {} /\ exposed = {} /\ loose = {} /\ doomed = {}

-----------------------------------------------------------------------------
(* Attempts: a start claims its task, opens the run and asks for a worktree. *)

\* Mutant of InItsTurn: a worktree is made under admin alone, in the middle of a landing.
AtOnce(jobs) == jobs \o turn
\* prepare takes the turn: the tips are a set only between landings.
InItsTurn(jobs) == turn \o jobs

\* A start that opens the run supersedes one with nothing in its record: what is left goes first (mint).
Superseded == ~open /\ IF run.on THEN ~ContinuableRun ELSE InTurn({"mint"})
\* The run was cleared from under those at work in it: what starts in it shares the user's checkout.
SharesCheckout == open /\ ~run.on /\ ~InTurn({"mint"})

\* What depends on a revert under way may not start.
Reverting == {u \in Task : \E i \in 1..Len(turn) : turn[i].op = "revert" /\ (u = turn[i].task \/ u \in Dependents(turn[i].task))}
ClearsUp == {"clear", "discard", "cleanup", "mint"}

\* Nothing holds a start back from a clean-up of its run, a release still owed or a landing of its task; one that
\* supersedes a run takes it from a task of it marked complete that has yet to land.
Doomed(t) ==
    \/ InTurn({"clear", "discard"}) \/ SharesCheckout
    \/ letting[t] \in {"keepLanded", "dropLanded"} \/ LandingOf(t)
    \/ ~Superseded /\ \E i \in 1..Len(turn) : turn[i].op = "mint" /\ turn[i].out = "interrupted"
Dooms(t, now) == doomed' = (IF now THEN doomed \cup {t} ELSE doomed \ {t}) /\ UNCHANGED <<wrote, gaveUp, exposed, loose>>

Start(t) ==
    /\ phase[t] = "rest" /\ t \notin done /\ FoldFunction(+, 0, used) < MaxWork
    /\ Dependencies(t) \subseteq done
    /\ t \notin Reverting /\ Asked(t)
    /\ used' = [used EXCEPT ![t] = @ + 1]
    /\ open' = TRUE
    /\ LET prepare == [Job("prepare", t) EXCEPT !.n = used[t] + 1] IN
        IF SharesCheckout
        THEN phase' = [phase EXCEPT ![t] = "astray"] /\ UNCHANGED turn
        ELSE /\ phase' = [phase EXCEPT ![t] = "opening"]
             /\ turn' = InItsTurn(IF Superseded THEN <<Job("mint", t), prepare>> ELSE <<prepare>>)
    /\ UNCHANGED done
    /\ IF open \/ run.on \/ InTurn({"mint"}) THEN UNCHANGED <<run, saved>> ELSE run' = FreshRun /\ Saves
    /\ doomed' = (doomed \ {t}) \cup {u \in {t} : Doomed(u)} \cup {u \in LiveTasks : Superseded}
    /\ UNCHANGED <<git, admin, waiting, letting, wrote, gaveUp, exposed, loose>> /\ Same

\* An attempt in the user's checkout ends, passed or not, with nothing to land.
StrayEnds(t) ==
    /\ phase[t] = "astray"
    /\ phase' = [phase EXCEPT ![t] = "rest"]
    /\ done' \in {done, done \cup {t}}
    /\ UNCHANGED run /\ Saves
    /\ UNCHANGED <<git, locks, used, open, history>> /\ Same

\* The attempt's runner is up in its worktree: only now is its record saved.
Spawn(t) ==
    /\ phase[t] = "starting"
    /\ phase' = [phase EXCEPT ![t] = "working"]
    /\ UNCHANGED <<run, done>> /\ Saves
    /\ UNCHANGED <<git, locks, used, open, history>> /\ Same

\* A runner changes what it changes, in some of the repositories.
Works(t) ==
    /\ phase[t] = "working" /\ tree[t].there /\ tree[t].work = {}
    /\ \E R \in SUBSET Repo \ {{}} :
        /\ tree' = [tree EXCEPT ![t].work = R]
        /\ wrote' = wrote \cup {<<t, tree[t].n, r>> : r \in R}
    /\ UNCHANGED <<line, head, iwt, held, kept, record, locks, attempts, gaveUp, exposed, loose, doomed>> /\ Same

\* A passed verdict hands the attempt to the landing queue.
Passes(t) ==
    /\ phase[t] = "working"
    /\ phase' = [phase EXCEPT ![t] = "landing"]
    /\ waiting' = waiting \cup {t}
    /\ UNCHANGED <<git, record, turn, admin, letting, used, open, history>> /\ Same

\* What begins beside a clean-up, a release, a prepare or another landing of its task may lose its worktree.
BesideOthers(t) ==
    \/ InTurn(ClearsUp \cup {"prune"}) \/ letting[t] # "no" \/ Preparing(t)
    \/ LandingOf(t) /\ phase[t] # "landing"

\* Mark complete ends the attempt and lands what the task holds unlanded; a landing under way is left to it.
MarkComplete(t) ==
    /\ May("complete")
    /\ t \notin done /\ phase[t] # "vouched"
    /\ LET lands == phase[t] = "landing" \/ run.status[t] \notin {"none", "merged"} IN
        /\ phase' = [phase EXCEPT ![t] = IF lands THEN "vouched" ELSE "rest"]
        /\ waiting' = IF lands /\ phase[t] # "landing" THEN waiting \cup {t} ELSE waiting
        /\ IF lands THEN UNCHANGED record ELSE done' = done \cup {t} /\ UNCHANGED run /\ Saves
    /\ Dooms(t, BesideOthers(t) \/ ~tree[t].there \/ (Live(t) /\ t \in doomed))
    /\ UNCHANGED <<git, turn, admin, letting, used, open>>

\* Tips a landing on record, in memory or as last saved, may still take back.
OnRecordedTips == run.landing # NoLanding \/ saved.run.landing # NoLanding

\* A conflict's repair: the task works on in its own worktree, with the tip merged in. It takes admin, no turn.
Reopen(t) ==
    /\ May("repair")
    /\ open /\ phase[t] = "rest" /\ t \notin done /\ run.status[t] = "conflict" /\ tree[t].there
    /\ admin = <<>> /\ Asked(t)
    /\ tree' = [tree EXCEPT ![t].base = [r \in Repo |-> IF r \in tree[t].work THEN Len(line[r]) ELSE @[r]]]
    /\ run' = [run EXCEPT !.status[t] = "repairing"]
    /\ phase' = [phase EXCEPT ![t] = "working"]
    /\ loose' = IF OnRecordedTips THEN loose \cup {t} ELSE loose
    /\ doomed' = IF BesideOthers(t) THEN doomed \cup {t} ELSE doomed \ {t}
    /\ UNCHANGED done /\ Saves
    /\ UNCHANGED <<line, head, iwt, held, kept, locks, used, open, wrote, gaveUp, exposed>>

\* Drain: of the tasks waiting to land, the first in plan order takes the turn.
Drain ==
    /\ waiting # {} /\ ~InTurn({"land"})
    /\ turn' = Append(turn, Job("land", Lowest(waiting)))
    /\ waiting' = waiting \ {Lowest(waiting)}
    /\ UNCHANGED <<git, record, admin, letting, attempts, history>> /\ Same

-----------------------------------------------------------------------------
(* prepare: in the turn and under admin, so that no landing is half there.   *)

MakesOrRemoves == {"prepare", "clear", "discard", "cleanup", "mint", "handoff"}

AsksAdmin ==
    /\ Underway(MakesOrRemoves, "start")
    /\ admin' = Append(admin, Turn)
    /\ Goes([Now EXCEPT !.at = "admin"])
    /\ UNCHANGED <<git, record, waiting, letting, attempts, history>> /\ Same

\* What the last attempt left is kept and goes, with its record.
Replaces ==
    /\ Underway({"prepare"}, "admin") /\ HoldsAdmin
    /\ kept' = kept \cup PreservedOf({Now.task})
    /\ tree' = [tree EXCEPT ![Now.task].there = FALSE]
    /\ run' = [run EXCEPT !.status[Now.task] = "none"]
    /\ Goes([Now EXCEPT !.at = "cut"])
    /\ UNCHANGED <<line, head, iwt, held, done, saved, admin, waiting, letting, attempts>> /\ Same
    /\ Exposes

\* A landing or a revert is under way, which the turn keeps apart from a cut.
Midway == \E i \in 1..Len(turn) : turn[i].at \in {"merge", "record", "remove", "undo", "move", "settle"}

\* The new worktree starts at the tips. An attempt that ended meanwhile has it let go.
Cuts ==
    LET t == Now.task IN
    /\ Underway({"prepare"}, "cut")
    /\ tree' = [tree EXCEPT ![t] = [n |-> Now.n, there |-> TRUE, work |-> {}, base |-> [r \in Repo |-> Len(line[r])]]]
    /\ run' = [run EXCEPT !.status[t] = "active"]
    /\ phase' = IF phase[t] = "opening" /\ used[t] = Now.n THEN [phase EXCEPT ![t] = "starting"] ELSE phase
    /\ letting' = IF Live(t) THEN letting ELSE [letting EXCEPT ![t] = "drop"]
    /\ loose' = IF OnRecordedTips /\ ~Midway THEN loose \cup {t} ELSE loose \ {t}
    /\ Over /\ admin' = Tail(admin)
    /\ UNCHANGED <<line, head, iwt, held, kept, done, saved, waiting, used, open, wrote, gaveUp, exposed, doomed>> /\ Same

-----------------------------------------------------------------------------
(* settleLanding: what a landing or a revert left goes back, repository by   *)
(* repository, before anything else is built on it.                          *)

\* isOneMergeOn, isRevertsOn: what sits on the tip is the landing's own.
OwnOn(r) ==
    LET tip == run.landing.tips[r]
        top == SubSeq(line[r], tip + 1, Len(line[r]))
    IN  IF run.landing.reverts
        THEN Len(top) <= Len(run.landing.made[r]) /\ top = SubSeq(run.landing.made[r], 1, Len(top))
        ELSE Len(top) = 1 /\ top[1].by = "merge"

\* restoreTip moves the branch unless the user has it checked out.
Restorable(r) == Len(line[r]) = run.landing.tips[r] \/ (r \notin held /\ OwnOn(r))

Settles(job) == Goes([job EXCEPT !.at = "settle", !.todo = Tips, !.stuck = {}])

\* Mutant of PartLeft: a merge builds on whatever is there.
PartLeftIgnored == run.landing # NoLanding /\ Now.op # "merge"
PartLeft == run.landing # NoLanding

\* A landing, a merge or a revert first settles what an earlier landing left.
SettlesFirst ==
    /\ Underway({"land", "merge", "revert"}, "start") /\ PartLeft
    /\ Now.op = "land" => run.status[Now.task] \notin {"none", "merged"}
    /\ Settles(Now)
    /\ UNCHANGED <<git, record, admin, waiting, letting, attempts, history>> /\ Same

SettlesRepo ==
    /\ turn # <<>> /\ Now.at = "settle" /\ Now.todo # {}
    /\ LET r == Lowest(Now.todo)
           back == Restorable(r)
       IN  \/ /\ line' = IF back THEN [line EXCEPT ![r] = SubSeq(@, 1, run.landing.tips[r])] ELSE line
              /\ Goes([Now EXCEPT !.todo = @ \ {r}, !.stuck = IF back THEN @ ELSE @ \cup {r}])
              /\ Same
           \/ /\ May("git fails") /\ Len(line[r]) # run.landing.tips[r]
              /\ Goes([Now EXCEPT !.todo = @ \ {r}, !.stuck = @ \cup {r}])
              /\ UNCHANGED line
    /\ UNCHANGED <<head, iwt, held, tree, kept, record, admin, waiting, letting, attempts, history>>

\* A landing not wholly rolled back stays recorded, and stops what came to build on it.
StillStuck(stuck) == stuck # {}

-----------------------------------------------------------------------------
(* land: a task in every repository it changed, or in none.                  *)

\* A task whose record has gone, or that has landed already.
LandBegins ==
    LET status == run.status[Now.task] IN
    /\ Underway({"land"}, "start") /\ status \in {"none", "merged"}
    /\ Goes([Now EXCEPT !.at = "over", !.out = IF status = "merged" THEN "merged" ELSE "failed"])
    /\ UNCHANGED <<git, record, admin, waiting, letting, attempts, history>> /\ Same

\* Mutant of JournalSaves: the tips are kept in memory.
JournalUnsaved == UNCHANGED saved
\* The tips go on the record, which is saved, before the first merge.
JournalSaves == Saves

Journals ==
    LET t == Now.task
        changed == Unlanded(t)
    IN
    /\ Underway({"land"}, "start") /\ run.status[t] \notin {"none", "merged"} /\ ~PartLeft
    /\ IF ~tree[t].there THEN Goes([Now EXCEPT !.at = "over", !.out = "failed"]) /\ UNCHANGED record
       ELSE IF changed = {} THEN Goes([Now EXCEPT !.at = "record"]) /\ UNCHANGED record
       ELSE /\ run' = [run EXCEPT !.landing = [task |-> t, tips |-> [r \in changed |-> Len(line[r])],
                                               reverts |-> FALSE, made |-> [r \in changed |-> <<>>]]]
            /\ UNCHANGED done /\ JournalSaves
            /\ Goes([Now EXCEPT !.at = "merge", !.todo = changed])
    /\ UNCHANGED <<git, admin, waiting, letting, attempts, history>> /\ Same

\* Mutant of MayMerge: the branch is merged into wherever it is checked out.
MayMergeAnywhere(r) == TRUE
\* ensureIntegrationWorktree: not while the user has the branch checked out.
MayMerge(r) == r \notin held

\* mergeMade: the merge would not be on the tip the landing recorded, for somebody committed there.
Strayed(r) == Len(line[r]) # run.landing.tips[r]

\* mergeTask in the next repository. One that does not take it puts the others back.
MergesTask ==
    LET t == Now.task
        r == Lowest(Now.todo)
    IN
    /\ Underway({"land"}, "merge")
    /\ \/ /\ MayMerge(r) /\ tree[t].there
          /\ line' = [line EXCEPT ![r] = Append(@, Merge(t, tree[t].n))]
          /\ iwt' = iwt \cup {r}
          /\ IF Strayed(r) THEN Settles([Now EXCEPT !.out = "failed"])
             ELSE Goes([Now EXCEPT !.todo = @ \ {r}, !.at = IF Now.todo = {r} THEN "record" ELSE @])
       \/ /\ ~MayMerge(r) \/ ~tree[t].there
          /\ Settles([Now EXCEPT !.out = "failed"])
          /\ UNCHANGED <<line, iwt>>
       \/ /\ MayMerge(r) /\ tree[t].there /\ Len(line[r]) > tree[t].base[r]
          /\ iwt' = iwt \cup {r}
          /\ Settles([Now EXCEPT !.out = "conflict"])
          /\ UNCHANGED line
    /\ UNCHANGED <<head, held, tree, kept, record, admin, waiting, letting, attempts, history>> /\ Same

\* The merges are the task's, the tips go, the task, if its record is still there, is merged: at once, in memory.
Records ==
    LET t == Now.task IN
    /\ Underway({"land"}, "record")
    /\ run' = [run EXCEPT !.landing = NoLanding, !.status[t] = IF @ = "none" THEN @ ELSE "merged",
                          !.landings = @ \cup IF run.landing = NoLanding THEN {} ELSE {<<t, tree[t].n, r>> : r \in Tips}]
    /\ admin' = Append(admin, Turn)
    /\ Goes([Now EXCEPT !.at = "remove", !.out = "merged"])
    /\ UNCHANGED <<git, done, saved, waiting, letting, attempts, history>> /\ Same

RemovesLanded ==
    /\ Underway({"land"}, "remove") /\ HoldsAdmin
    /\ kept' = kept \cup PreservedOf({Now.task})
    /\ tree' = [tree EXCEPT ![Now.task].there = FALSE]
    /\ admin' = Tail(admin)
    /\ Goes([Now EXCEPT !.at = "over"])
    /\ UNCHANGED <<line, head, iwt, held, record, waiting, letting, attempts, history>> /\ Same

\* The landing has its answer: the record is saved, and the plan marks the task if it is still its attempt's.
LandOver ==
    LET t == Now.task
        out == Now.out
        stops == out # "merged" /\ run.status[t] # "none"
    IN
    /\ Underway({"land"}, "over")
    /\ run' = IF stops THEN [run EXCEPT !.status[t] = out] ELSE run
    /\ done' = IF out = "merged" /\ phase[t] \in {"landing", "vouched"} THEN done \cup {t} ELSE done
    /\ phase' = [phase EXCEPT ![t] = IF @ \in {"landing", "vouched"} THEN "rest" ELSE @]
    /\ Saves /\ Over
    /\ UNCHANGED <<git, admin, waiting, letting, used, open, history>> /\ Same

-----------------------------------------------------------------------------
(* release: a worktree is let go once a landing of it has settled.           *)

\* Two releases owed by one task are one, the stronger. One asked for with the attempt's landing under way awaits it.
Landed == {"keepLanded", "dropLanded"}

\* The user's Stop ends every attempt, keeps their worktrees and leaves the run; a mint under way then opens none.
Stop ==
    /\ open /\ (May("stop") \/ May("stop again"))
    /\ LET live == {t \in LiveTasks : phase[t] # "vouched"} IN
        /\ letting' = [t \in Task |->
                IF letting[t] \in {"drop", "dropLanded"} THEN letting[t]
                ELSE IF phase[t] \in {"starting", "working"} THEN "keep"
                ELSE IF phase[t] = "landing" THEN "keepLanded" ELSE letting[t]]
        /\ phase' = [t \in Task |-> IF t \in live THEN "rest" ELSE phase[t]]
    /\ turn' = [i \in 1..Len(turn) |-> IF turn[i].op = "mint" THEN [turn[i] EXCEPT !.out = "interrupted"] ELSE turn[i]]
    /\ open' = FALSE
    /\ UNCHANGED <<git, record, admin, waiting, used, history>>

\* A retry ends the attempt and lets its worktree go, after the attempt's own landing; the scheduler starts the task again.
Retry(t) ==
    /\ May("retry")
    /\ phase[t] # "vouched" /\ (run.status[t] # "none" \/ Live(t))
    /\ letting' = [letting EXCEPT ![t] = IF phase[t] = "landing" THEN "dropLanded" ELSE "drop"]
    /\ phase' = [phase EXCEPT ![t] = "rest"]
    /\ done' = done \ {t}
    /\ UNCHANGED run /\ Saves
    /\ Dooms(t, t \in doomed \/ (LandingOf(t) /\ phase[t] # "landing"))
    /\ UNCHANGED <<git, turn, admin, waiting, used, open>>

\* What a record reads once its attempt is gone and its worktree stays.
LeftBehind(status) == IF status = "active" THEN "kept" ELSE IF status = "repairing" THEN "conflict" ELSE status

\* Mutant of AwaitsLanding: the worktree goes while it is being merged.
LandedOrNot(t) == TRUE
AwaitsLanding(t) == ~LandingOf(t)

ReleaseAsks(t) ==
    /\ letting[t] # "no" /\ t \notin InSeq(admin)
    /\ letting[t] \in Landed => AwaitsLanding(t)
    /\ admin' = Append(admin, t)
    /\ UNCHANGED <<git, record, turn, waiting, letting, attempts, history>> /\ Same

\* Mutant of HasAdmin: what is let go waits on the turn with admin in hand.
HasAdminAndTurn(t) == admin # <<>> /\ Head(admin) = t /\ turn = <<>>
\* The admin chain has come to it: nothing that holds admin waits on a turn.
HasAdmin(t) == admin # <<>> /\ Head(admin) = t

Releases(t) ==
    /\ HasAdmin(t)
    /\ admin' = Tail(admin)
    /\ letting' = [letting EXCEPT ![t] = "no"]
    /\ IF run.status[t] = "none" THEN UNCHANGED <<run, kept, tree>>
       ELSE IF letting[t] \in {"keep", "keepLanded"}
       THEN /\ run' = [run EXCEPT !.status[t] = LeftBehind(@)]
            /\ UNCHANGED <<kept, tree>>
       ELSE /\ run' = [run EXCEPT !.status[t] = "none"]
            /\ kept' = kept \cup PreservedOf({t})
            /\ tree' = [tree EXCEPT ![t].there = FALSE]
    /\ UNCHANGED done /\ Saves
    /\ UNCHANGED <<line, head, iwt, held, turn, waiting, attempts>> /\ Same
    /\ Exposes

-----------------------------------------------------------------------------
(* Merge all: what has landed goes into the user's branch, in its turn.      *)

Asks(op, t) == turn' = Append(turn, Job(op, t))

MergeAll ==
    /\ May("merge") /\ run.on
    /\ Asks("merge", None)
    /\ UNCHANGED <<git, record, admin, waiting, letting, attempts, history>>

\* Blocked where the user is off the branch the run started on; else the repositories with work.
MergeJudged ==
    /\ Underway({"merge"}, "start") /\ ~PartLeft
    /\ IF held # {} THEN Over
       ELSE Goes([Now EXCEPT !.at = "merge", !.todo = {r \in Repo : ~InSeq(line[r]) \subseteq head[r]}])
    /\ UNCHANGED <<git, record, admin, waiting, letting, attempts, history>> /\ Same

\* One repository takes its merge, or does not, which ends it there.
MergesRepo ==
    /\ Underway({"merge"}, "merge") /\ Now.todo # {}
    /\ LET r == Lowest(Now.todo) IN
        \/ /\ head' = [head EXCEPT ![r] = @ \cup InSeq(line[r])]
           /\ Goes([Now EXCEPT !.todo = @ \ {r}])
           /\ Same
        \/ /\ May("merge stops") /\ Over
           /\ UNCHANGED head
    /\ UNCHANGED <<line, iwt, held, tree, kept, record, admin, waiting, letting, attempts, history>>

\* A settled run with nothing left in it is cleared up.
ClearsMerged == AllMerged /\ Holdouts = {}
\* A merge clears up only what no run is open on.
MayClear == ~open
MergeOver ==
    /\ Underway({"merge"}, "merge") /\ Now.todo = {}
    /\ turn' = Tail(turn) \o IF run.on /\ MayClear /\ Holdouts = {} THEN <<Job("clear", None)>> ELSE <<>>
    /\ UNCHANGED <<run, done>> /\ Saves
    /\ UNCHANGED <<git, admin, waiting, letting, attempts, history>> /\ Same

-----------------------------------------------------------------------------
(* The run closes: its branches are handed over, or all is merged and goes.  *)

Close ==
    /\ May("close") /\ open /\ LiveTasks = {} /\ ~InTurn({"mint"})
    /\ open' = FALSE
    /\ IF ~run.on THEN UNCHANGED turn
       ELSE IF ClearsMerged THEN Asks("clear", None)
       ELSE IF AllMerged THEN UNCHANGED turn
       ELSE Asks("handoff", None)
    /\ UNCHANGED <<git, record, admin, waiting, letting, phase, used, history>>

HandsOff ==
    /\ Underway({"handoff"}, "admin") /\ HoldsAdmin
    /\ iwt' = {}
    /\ IF run.landing # NoLanding THEN Settles(Now) ELSE Goes([Now EXCEPT !.at = "over"])
    /\ UNCHANGED <<line, head, held, tree, kept, record, admin, waiting, letting, attempts, history>> /\ Same

HandoffOver ==
    /\ Underway({"handoff"}, "over")
    /\ Over /\ admin' = Tail(admin)
    /\ UNCHANGED <<run, done>> /\ Saves
    /\ UNCHANGED <<git, waiting, letting, attempts, history>> /\ Same

\* The user looks at an integration branch that no worktree of Ordewell's holds, and may commit there.
UserReviews(r) ==
    /\ May("review") /\ run.on /\ held = {} /\ r \notin iwt
    /\ held' = held \cup {r}
    /\ UNCHANGED <<line, head, iwt, tree, kept, record, locks, attempts, history>>
UserCommits(r) ==
    /\ "review" \in day /\ r \in held /\ UserCommit \notin InSeq(line[r])
    /\ line' = [line EXCEPT ![r] = Append(@, UserCommit)]
    /\ wrote' = wrote \cup {WorkOf(UserCommit, r)}
    /\ UNCHANGED <<head, iwt, held, tree, kept, record, locks, attempts, gaveUp, exposed, loose, doomed>> /\ Same
UserLeaves(r) ==
    /\ r \in held
    /\ held' = held \ {r}
    /\ UNCHANGED <<line, head, iwt, tree, kept, record, locks, attempts, history>> /\ Same

-----------------------------------------------------------------------------
(* discard: what clears a run up, for the user, for a merge or for a new run.*)

\* Refused while a task of the run is live.
RefuseWhileLive == \A t \in LiveTasks : run.status[t] = "none"

UserDiscards(op) ==
    /\ May(op) /\ run.on /\ ~open
    /\ RefuseWhileLive
    /\ Asks(op, None)
    /\ UNCHANGED <<git, record, admin, waiting, letting, attempts, history>>

RemovesTrees ==
    /\ Underway({"clear", "discard", "cleanup", "mint"}, "admin") /\ HoldsAdmin
    /\ iwt' = {}
    /\ kept' = kept \cup PreservedOf(Task)
    /\ tree' = [t \in Task |-> [tree[t] EXCEPT !.there = FALSE]]
    /\ run' = [run EXCEPT !.status = [t \in Task |-> IF @[t] = "merged" THEN "merged" ELSE "none"]]
    /\ Goes([Now EXCEPT !.at = "branches"])
    /\ UNCHANGED <<line, head, held, done, saved, admin, waiting, letting, attempts>> /\ Same
    /\ Exposes

\* The branches deleted: all the user gives up, or only what the user's branch has.
Deleted(op) ==
    {r \in Repo \ held : op = "discard" \/ (op # "cleanup" /\ InSeq(line[r]) \subseteq head[r])}

WorkOn(r) == {WorkOf(c, r) : c \in {d \in InSeq(line[r]) : d.by # "revert"}}

\* From the next mint on: what else waited in the turn was for the run that goes, and fails.
FromMint(jobs) ==
    LET mints == {i \in 1..Len(jobs) : jobs[i].op = "mint"}
    IN  IF mints = {} THEN <<>> ELSE SubSeq(jobs, Lowest(mints), Len(jobs))

\* A branch left behind stays where it is: its work counts as kept.  The run goes; a mint opens the next, unless
\* a Stop interrupted it.  Who was still starting works in the user's checkout, and what waited to land fails.
Forgets ==
    LET goes == Now.op # "mint" \/ Now.out = "interrupted"
        later == IF goes THEN FromMint(Tail(turn)) ELSE Tail(turn)
    IN
    /\ Underway({"clear", "discard", "mint"}, "branches")
    /\ kept' = kept \cup UNION {WorkOn(r) : r \in Repo \ Deleted(Now.op)}
    /\ gaveUp' = gaveUp \cup IF Now.op = "discard" THEN UNION {WorkOn(r) : r \in Deleted(Now.op)} ELSE {}
    /\ line' = [r \in Repo |-> <<>>]
    /\ run' = IF goes THEN NoRun ELSE FreshRun
    /\ UNCHANGED done /\ Saves
    /\ turn' = later
    /\ IF goes
       THEN /\ admin' = <<>> /\ waiting' = {} /\ letting' = [t \in Task |-> "no"]
            /\ phase' = [t \in Task |-> IF phase[t] = "opening" /\ t \notin Prepared(later) THEN "astray"
                                        ELSE IF phase[t] \in {"landing", "vouched"} THEN "rest" ELSE phase[t]]
       ELSE admin' = Tail(admin) /\ UNCHANGED <<waiting, letting, phase>>
    /\ held' = {}
    /\ UNCHANGED <<head, iwt, tree, used, open, wrote, exposed, loose, doomed>> /\ Same

CleanupOver ==
    /\ Underway({"cleanup"}, "branches")
    /\ UNCHANGED <<run, done>> /\ Saves
    /\ Over /\ admin' = Tail(admin)
    /\ UNCHANGED <<git, waiting, letting, attempts, history>> /\ Same

-----------------------------------------------------------------------------
(* A crash, and the restart that adopts what was saved.                      *)

Crash ==
    /\ May("crash") \/ May("crash again")
    /\ run' = saved.run /\ done' = saved.done
    /\ turn' = IF saved.run.on THEN <<[Job("prune", None) EXCEPT !.at = "admin"]>> ELSE <<>>
    /\ admin' = IF saved.run.on THEN <<Turn>> ELSE <<>>
    /\ waiting' = {} /\ open' = FALSE
    /\ letting' = [t \in Task |-> "no"]
    /\ phase' = [t \in Task |-> "rest"]
    /\ UNCHANGED <<git, saved, used>>
    /\ Exposes

PruneBegins ==
    /\ Underway({"prune"}, "admin") /\ HoldsAdmin
    /\ iwt' = {}
    /\ IF run.landing # NoLanding THEN Settles(Now) ELSE Goes([Now EXCEPT !.at = "sweep"])
    /\ UNCHANGED <<line, head, held, tree, kept, record, admin, waiting, letting, attempts, history>> /\ Same

\* Every record is squared with its worktree, and worktrees no record owns go.
Orphans ==
    {t \in Task : \/ run.status[t] \in {"none", "merged"}
                  \/ run.status[t] = "active" /\ Unlanded(t) = {}}
Sweeps ==
    /\ Underway({"prune"}, "sweep")
    /\ kept' = kept \cup PreservedOf(Orphans)
    /\ tree' = [t \in Task |-> IF t \in Orphans THEN [tree[t] EXCEPT !.there = FALSE] ELSE tree[t]]
    /\ run' = [run EXCEPT !.status = [t \in Task |->
                IF t \in Orphans /\ @[t] = "active" THEN "none" ELSE LeftBehind(@[t])]]
    /\ Over /\ admin' = Tail(admin)
    /\ UNCHANGED <<line, head, iwt, held, done, saved, waiting, letting, attempts>> /\ Same
    /\ Exposes

-----------------------------------------------------------------------------
(* revert: a task's landings and its dependents' are taken back, all or none.*)

Reach(t) == {t} \cup Dependents(t)
Taken(t) == {w \in run.landings : w[1] \in Reach(t)}
Takes(t) == {w[1] : w \in Taken(t)}
\* What stands in the way: something at work on what would go, or other tasks to go than the user agreed to.
RevertRefused(t, asked) == Reach(t) \cap LiveTasks # {} \/ Takes(t) # asked
InBranch(t) == \E w \in Taken(t) : InUserBranch(w)

Revert(t) ==
    /\ May("revert") /\ run.on
    /\ LandedWork(t) /\ ~RevertRefused(t, Takes(t))
    /\ turn' = Append(turn, [Job("revert", t) EXCEPT !.asked = Takes(t)])
    /\ UNCHANGED <<git, record, admin, waiting, letting, attempts, history>>

RevertJudged ==
    LET t == Now.task
        R == {w[3] : w \in Taken(t)}
    IN
    /\ Underway({"revert"}, "start") /\ ~PartLeft
    /\ IF ~run.on \/ RevertRefused(t, Now.asked) \/ Taken(t) = {} \/ R \cap held # {} \/ InBranch(t)
       THEN Over /\ UNCHANGED record
       ELSE /\ run' = [run EXCEPT !.landing = [task |-> t, tips |-> [r \in R |-> Len(line[r])],
                                               reverts |-> TRUE, made |-> [r \in R |-> <<>>]]]
            /\ UNCHANGED done /\ JournalSaves
            /\ Goes([Now EXCEPT !.at = "undo", !.todo = Taken(t)])
    /\ UNCHANGED <<git, admin, waiting, letting, attempts, history>> /\ Same

\* The next merge to revert: in the first repository, the newest.
PlaceOn(r, w) == CHOOSE i \in 1..Len(line[r]) : line[r][i] = Merge(w[1], w[2])
After(r, w) == SubSeq(line[r], PlaceOn(r, w) + 1, Len(line[r]))
IsNextUndone(w) ==
    /\ w \in Now.todo /\ w[3] = Lowest({v[3] : v \in Now.todo})
    /\ \A v \in Now.todo : v[3] = w[3] => PlaceOn(w[3], v) <= PlaceOn(w[3], w)

\* The commit is made aside and saved, or conflicts with what landed after it.
RevertSaves ==
    /\ Underway({"revert"}, "undo") /\ Now.todo # {}
    /\ \E w \in Now.todo :
        /\ IsNextUndone(w)
        /\ \/ /\ run' = [run EXCEPT !.landing.made[w[3]] = Append(@, RevertOf(Merge(w[1], w[2])))]
              /\ UNCHANGED done /\ JournalSaves
              /\ Goes([Now EXCEPT !.at = "move"])
           \/ /\ Standing(w[3]) \cap InSeq(After(w[3], w)) # {}
              /\ Settles([Now EXCEPT !.out = "conflict"])
              /\ UNCHANGED record
    /\ UNCHANGED <<git, admin, waiting, letting, attempts, history>> /\ Same

\* Then the branch moves to it, from the tip it was made on, if nobody else has it.
RevertMoves ==
    /\ Underway({"revert"}, "move")
    /\ \E w \in Now.todo :
        LET r == w[3]
            made == run.landing.made[r]
            onto == run.landing.tips[r] + Len(made) - 1
        IN
        /\ IsNextUndone(w)
        /\ IF r \in held \/ Len(line[r]) # onto
           THEN Settles([Now EXCEPT !.out = "failed"]) /\ UNCHANGED line
           ELSE /\ line' = [line EXCEPT ![r] = Append(@, made[Len(made)])]
                /\ Goes([Now EXCEPT !.at = "undo", !.todo = @ \ {w}])
    /\ UNCHANGED <<head, iwt, held, tree, kept, record, admin, waiting, letting, attempts, history>> /\ Same

\* What a reverted task's record reads: its landing goes, what it has besides stays.
TakenBack(status) == IF status = "merged" THEN "none" ELSE IF status = "conflict" THEN "kept" ELSE status

\* Mutant of RefusedLate: judged once, before the commits.
RefusedEarlyOnly(t) == FALSE
\* Judged again with the commits made: a dependent may be landing by now.
RefusedLate(t) == RevertRefused(t, Now.asked)

RevertOver ==
    LET t == Now.task
        gone == {w[1] : w \in Taken(t)}
    IN
    /\ Underway({"revert"}, "undo") /\ Now.todo = {}
    /\ IF RefusedLate(t)
       THEN Settles([Now EXCEPT !.out = "refused"]) /\ UNCHANGED record
       ELSE /\ run' = [run EXCEPT !.landing = NoLanding, !.reverted = TRUE,
                                  !.landings = {w \in @ : w[1] \notin gone},
                                  !.status = [u \in Task |->
                                     IF u \notin gone THEN @[u]
                                     ELSE TakenBack(@[u])]]
            /\ done' = done \ gone
            /\ Saves /\ Over
    /\ UNCHANGED <<git, admin, waiting, letting, attempts, history>> /\ Same

\* The rollback is over: what began with it goes on, what ended in it ends.
SettleOver ==
    /\ turn # <<>> /\ Now.at = "settle" /\ Now.todo = {}
    /\ LET stuck == StillStuck(Now.stuck) IN
        /\ run' = IF stuck THEN run ELSE [run EXCEPT !.landing = NoLanding]
        /\ IF Now.op = "handoff" THEN Goes([Now EXCEPT !.at = "over"])
           ELSE IF Now.op = "prune" THEN Goes([Now EXCEPT !.at = "sweep"])
           ELSE IF ~stuck /\ Now.out = "ok" THEN Goes([Now EXCEPT !.at = "start"])
           ELSE IF Now.op = "land" THEN Goes([Now EXCEPT !.at = "over", !.out = IF stuck THEN "failed" ELSE @])
           ELSE Over
    /\ UNCHANGED <<git, done, saved, admin, waiting, letting, attempts, history>> /\ Same

-----------------------------------------------------------------------------
TurnStep ==
    \/ AsksAdmin \/ Replaces \/ Cuts \/ SettlesFirst \/ SettlesRepo \/ SettleOver
    \/ LandBegins \/ Journals \/ MergesTask \/ Records \/ RemovesLanded \/ LandOver
    \/ MergeJudged \/ MergesRepo \/ MergeOver
    \/ HandsOff \/ HandoffOver \/ RemovesTrees \/ Forgets \/ CleanupOver
    \/ PruneBegins \/ Sweeps
    \/ RevertJudged \/ RevertSaves \/ RevertMoves \/ RevertOver

AdminStep == \E t \in Task : ReleaseAsks(t) \/ Releases(t)

Next ==
    \/ TurnStep \/ AdminStep \/ Drain
    \/ \E t \in Task : Start(t) \/ StrayEnds(t) \/ Spawn(t) \/ Works(t) \/ Passes(t) \/ MarkComplete(t) \/ Reopen(t) \/ Retry(t) \/ Revert(t)
    \/ Stop \/ MergeAll \/ Close \/ Crash
    \/ \E op \in {"discard", "cleanup"} : UserDiscards(op)
    \/ \E r \in Repo : UserReviews(r) \/ UserCommits(r) \/ UserLeaves(r)

Spec == Init /\ [][Next]_vars

\* git and the two chains go on by themselves; tasks, the user and crashes owe nothing.
FairSpec == Spec /\ WF_vars(TurnStep) /\ WF_vars(AdminStep)

-----------------------------------------------------------------------------
Commit == [by : {"merge", "revert"}, task : Task, n : Nat \ {0}] \cup {UserCommit}
Status == {"none", "active", "kept", "conflict", "failed", "repairing", "merged"}
Phase == {"rest", "opening", "astray", "starting", "working", "landing", "vouched"}
\* What attempts wrote, and what the user did on an integration branch.
Work == Task \X (Nat \ {0}) \X Repo \cup {WorkOf(UserCommit, r) : r \in Repo}

\* The types of the record, the worktrees and the chains, and that admin is held by one of the turn
\* and by each task let go at most once: the bookkeeping IsolationLocks does.
TypeOK ==
    /\ \A r \in Repo : InSeq(line[r]) \subseteq Commit /\ head[r] \subseteq Commit
    /\ iwt \cap held = {} /\ iwt \cup held \subseteq Repo
    /\ \A t \in Task : tree[t].n \in Nat /\ tree[t].work \subseteq Repo
    /\ kept \cup gaveUp \subseteq wrote /\ wrote \subseteq Work
    /\ \A t \in Task : run.status[t] \in Status /\ saved.run.status[t] \in Status
    /\ done \subseteq Task /\ waiting \subseteq Task
    /\ \A t \in Task : phase[t] \in Phase
    /\ \A i, j \in 1..Len(admin) : admin[i] = admin[j] => i = j
    /\ Turn \in InSeq(admin) => turn # <<>>
    /\ \A t \in Task : t \in InSeq(admin) => letting[t] # "no"

\* A landing is whole: with no turn under way and no landing left recorded, what an attempt wrote stands
\* on the integration branches of all the repositories it changed or of none, and the record names exactly
\* those merges (land, revertInTurn and what a crash leaves of either).
LandedWhole ==
    turn = <<>> /\ run.on /\ run.landing = NoLanding =>
        \A t \in Task, n \in 1..MaxWork :
            LET standing == {r \in Repo : Merge(t, n) \in Standing(r)}
                changed == {r \in Repo : <<t, n, r>> \in wrote}
                recorded == {r \in Repo : <<t, n, r>> \in run.landings}
            IN  standing \in {{}, changed} /\ recorded = standing

Survives(w) ==
    \/ InTree(w)
    \/ (IF w[1] = 0 THEN UserCommit ELSE Merge(w[1], w[2])) \in InSeq(line[w[3]]) \cup head[w[3]]

\* Ordewell never deletes work: whatever an attempt wrote, or the user committed on an integration branch,
\* is in its worktree, on an integration branch, in the user's branch, on a branch made to keep it,
\* or was the user's to discard (preserve, deleteIfMerged, settleLanding).  Where a worktree went, or the process
\* died, with a landing on record that was to take back its merge, the work is exposed: the rollback may take it.
WorkSurvives == \A w \in wrote \ (kept \cup gaveUp \cup exposed) : Survives(w)

\* Ordewell never deletes landed work the user has not merged (ADR-0013), a crash at any moment included.
LandedWorkStays == \A w \in wrote \ (kept \cup gaveUp) : Survives(w)

\* A task's worktree stands on work that landed: no merge it was cut from, or repaired against, is rolled
\* back beneath it (prepare takes the turn), but where a landing on record was still to go back: what a failed
\* rollback left is not looked at before a cut, and a repair takes no turn.
StandsOnLanded ==
    \A t \in Task \ loose : tree[t].there => \A r \in Repo : tree[t].base[r] <= Len(line[r])

\* A live attempt keeps its worktree, and so does work that waits to land or is being merged
\* (refuseWhileLive, release after the landing, and prepare in its turn).
LiveKeepsTree ==
    \A t \in Task \ doomed :
        (\/ phase[t] \in {"starting", "working"}
         \/ t \in waiting /\ Live(t)
         \/ turn # <<>> /\ Now.op = "land" /\ Now.task = t /\ Now.at \in {"merge", "settle"})
        => tree[t].there

\* No attempt of a run that isolates is left without one, to work in the user's checkout (attemptCwd):
\* no clean-up takes the run from under it.
SeatedApart == \A t \in LiveTasks \ doomed : run.on \/ InTurn({"mint"})

\* A live attempt has its place to work in, with the run open and the worktree there, through the clean-ups,
\* landings, releases and retries that come while it is up: only one begun with such a thing already
\* under way or owed to its task, which nothing in the code holds back, may lose it.
AttemptKeepsPlace == LiveKeepsTree /\ SeatedApart

\* What the user's branch has is never reverted on the integration branch under it, so that a later merge
\* would take the user's own back (revert refuses with in-branch).
MergedIsNotReverted ==
    \A r \in Repo : \A c \in head[r] : c.by = "merge" /\ RevertOf(c) \in InSeq(line[r]) => RevertOf(c) \in head[r]

\* The user's branch never gets part of a landing: what it has of an attempt in one repository is on the
\* integration branch of every other the attempt changed (mergeAll takes the turn and settles first).
UserGetsWhole ==
    \A r \in Repo : \A c \in {d \in head[r] : d.by = "merge"} :
        \A w \in {v \in wrote : v[1] = c.task /\ v[2] = c.n} :
            c \in InSeq(line[w[3]]) \cup head[w[3]] \/ w \in kept \cup gaveUp

\* Merges into the user's branch, landings and reverts leave the user's branch
\* whole: no part of a landing, and nothing a later merge would take back.
UserBranchHolds == MergedIsNotReverted /\ UserGetsWhole

\* A revert takes nothing from under a task at work, one admitted or marked complete while it waited
\* included (revertRefusalNow, judged again with the commits made).
RevertsUnderNobody ==
    [][run'.reverted => \A w \in run.landings \ run'.landings :
            \A t \in Reach(w[1]) : phase'[t] = "rest"]_record

\* Every turn ends: the queue is not stopped for good by a landing that waits on a release or a release
\* that waits on a landing (the lock order of IsolationLocks).
TurnsEnd == []<>(turn = <<>>)

=============================================================================
