--------------------------- MODULE IsolationProofs ---------------------------
(***************************************************************************)
(* Proofs about isolated execution (Isolation), for every number of tasks, *)
(* repositories and attempts.                                              *)
(***************************************************************************)
EXTENDS Isolation, SequenceTheorems, WellFoundedInduction, TLAPS

TaskWork == Task \X (Nat \ {0}) \X Repo

-----------------------------------------------------------------------------
(* Types.                                                                   *)

JobType == [
    op : {"land", "merge", "prepare", "clear", "discard", "cleanup", "mint", "handoff", "prune", "revert"},
    task : Task \cup {None}, n : Nat,
    at : {"start", "admin", "cut", "settle", "merge", "record", "remove", "over", "branches", "sweep", "undo", "move"},
    asked : SUBSET Task, todo : SUBSET (Repo \cup TaskWork), stuck : SUBSET Repo,
    out : {"ok", "merged", "failed", "conflict", "refused", "interrupted"}]
TreeType == [n : Nat, there : BOOLEAN, work : SUBSET Repo, base : [Repo -> Nat]]
RevertCommit == [by : {"revert"}, task : Task, n : Nat \ {0}]
Landing == UNION {[task : Task, tips : [R -> Nat], reverts : BOOLEAN, made : [R -> Seq(RevertCommit)]] : R \in SUBSET Repo}
RunType == [
    on : BOOLEAN, status : [Task -> Status], landing : Landing \cup {NoLanding},
    landings : SUBSET TaskWork, reverted : BOOLEAN]

GitTypes ==
    /\ line \in [Repo -> Seq(Commit)] /\ head \in [Repo -> SUBSET Commit]
    /\ iwt \subseteq Repo /\ held \subseteq Repo /\ iwt \cap held = {}
    /\ tree \in [Task -> TreeType] /\ \A t \in Task : tree[t].there => tree[t].n # 0
    /\ kept \subseteq wrote /\ gaveUp \subseteq wrote /\ wrote \subseteq Work
RecordTypes ==
    /\ run \in RunType /\ done \in SUBSET Task
    /\ saved \in [run : RunType, done : SUBSET Task]
    /\ turn \in Seq(JobType)
AttemptTypes ==
    /\ open \in BOOLEAN /\ phase \in [Task -> Phase] /\ used \in [Task -> Nat]
    /\ waiting \subseteq Task /\ letting \in [Task -> {"no", "keep", "drop", "keepLanded", "dropLanded"}]
    /\ day \in Days

\* How far a job of each kind may be.
Stage(j) ==
    \/ j.op = "land" /\ j.at \in {"start", "settle", "merge", "record", "remove", "over"}
    \/ j.op = "merge" /\ j.at \in {"start", "settle", "merge"}
    \/ j.op = "revert" /\ j.at \in {"start", "settle", "undo", "move"}
    \/ j.op = "prepare" /\ j.at \in {"start", "admin", "cut"}
    \/ j.op \in {"clear", "discard", "cleanup", "mint"} /\ j.at \in {"start", "admin", "branches"}
    \/ j.op = "handoff" /\ j.at \in {"start", "admin", "settle", "over"}
    \/ j.op = "prune" /\ j.at \in {"admin", "settle", "sweep"}
JobFits(j) ==
    /\ Stage(j)
    /\ j.op \in {"land", "revert", "prepare"} => j.task \in Task
    /\ j.op = "prepare" => j.n # 0
    /\ j.op = "land" => j.out \notin {"refused", "interrupted"} /\ (j.at \in {"remove", "over"} => j.out # "ok")

\* One job is under way, and those behind it have not begun.
Jobs == \A i \in 1..Len(turn) : JobFits(turn[i]) /\ (i # 1 => turn[i].at = "start")

\* What a job under way does under admin.
UnderAdmin(j) ==
    \/ j.op \in MakesOrRemoves \cup {"prune"} /\ j.at # "start"
    \/ j.op = "land" /\ j.at = "remove"
Admins ==
    /\ admin \in Seq(Task \cup {Turn})
    /\ \A i, j \in 1..Len(admin) : admin[i] = admin[j] => i = j
    /\ \A t \in Task : t \in InSeq(admin) => letting[t] # "no"
    /\ Turn \in InSeq(admin) <=> turn # <<>> /\ UnderAdmin(Now)
    /\ turn # <<>> /\ UnderAdmin(Now) /\ Now.at \notin {"admin", "remove"} => HoldsAdmin

\* What is in a worktree, on an integration branch or in the user's branch was written.
Written ==
    /\ \A t \in Task : \A r \in tree[t].work : <<t, tree[t].n, r>> \in wrote
    /\ \A r \in Repo : \A i \in 1..Len(line[r]) : line[r][i].by # "revert" => WorkOf(line[r][i], r) \in wrote

\* The landing in memory is the one saved, and its tips are on the branches still.
Tipped ==
    /\ run.landing # NoLanding => saved.run.landing = run.landing
    /\ \A r \in DOMAIN saved.run.landing.tips : saved.run.landing.tips[r] <= Len(line[r])

\* What a job under way has before it.
Before ==
    turn # <<>> =>
        /\ Now.at = "settle" => run.landing # NoLanding /\ Now.todo \subseteq Tips
        /\ Now.op = "merge" /\ Now.at = "merge" => Now.todo \subseteq Repo
        /\ Now.op = "land" /\ Now.at = "merge" =>
            /\ run.landing # NoLanding
            /\ Now.todo # {} /\ Now.todo \subseteq Tips
        /\ Now.op = "land" /\ Now.at \in {"merge", "record"} => Tips \subseteq tree[Now.task].work
        /\ Now.op = "revert" /\ Now.at \in {"undo", "move"} =>
            /\ run.landing # NoLanding /\ run.landing.reverts
            /\ Now.todo \subseteq TaskWork /\ \A w \in Now.todo : w[3] \in Tips
        /\ Now.op = "revert" /\ Now.at = "move" =>
            \A r \in Tips : r = Lowest({w[3] : w \in Now.todo}) => run.landing.made[r] # <<>>

\* A record with no run in it is empty. A worktree is made in a run that is on, or that a mint before it opens.
OffIsEmpty(R) == ~R.on => R.landing = NoLanding /\ R.landings = {} /\ \A t \in Task : R.status[t] = "none"
MintedBefore(i) == \E j \in 1..i - 1 : turn[j].op = "mint"
PreparesOn == \A i \in 1..Len(turn) : turn[i].op = "prepare" => run.on \/ MintedBefore(i)
RunIsOn ==
    /\ OffIsEmpty(run) /\ OffIsEmpty(saved.run)
    /\ PreparesOn
    /\ turn # <<>> /\ Now.op = "land" /\ Now.at \in {"merge", "record", "remove"} => run.on
    /\ turn # <<>> /\ Now.op = "prune" => run.on

TypeInv == GitTypes /\ RecordTypes /\ AttemptTypes /\ Jobs /\ Admins /\ Written /\ Tipped /\ Before /\ RunIsOn

-----------------------------------------------------------------------------
(* Sequences: the turn's jobs and the admin chain.                          *)

\* The lowest of a set of numbers is in it, and none is lower.
LEMMA LowestIsIn ==
    ASSUME NEW S, S \subseteq Nat, S # {}
    PROVE  Lowest(S) \in S /\ \A y \in S : Lowest(S) <= y
<1>1. PICK x \in S : \A y \in S : <<y, x>> \notin OpToRel(<, Nat)
    BY NatLessThanWellFounded, WFMin
<1>2. \A y \in S : x <= y
    <2> SUFFICES ASSUME NEW y \in S, y < x PROVE FALSE
        OBVIOUS
    <2>1. <<y, x>> \in OpToRel(<, Nat)
        BY DEF OpToRel
    <2> QED BY <2>1, <1>1
<1> QED BY <1>1, <1>2 DEF Lowest

\* The next repository of a job is one of those it has left.
LEMMA LowestRepo ==
    ASSUME NEW S, S \subseteq Repo, S # {}
    PROVE  Lowest(S) \in S /\ Lowest(S) \in Repo
BY LowestIsIn, SomeRepos

\* The first of a sequence.
LEMMA HeadIsFirst ==
    ASSUME NEW S, NEW s \in Seq(S), s # <<>>
    PROVE  Head(s) = s[1] /\ Head(s) \in S /\ 1 \in 1..Len(s)
BY EmptySeq

\* A function on the numbers up to one is a sequence.
LEMMA SeqOf ==
    ASSUME NEW S, NEW n \in Nat, NEW f \in [1..n -> S]
    PROVE  f \in Seq(S) /\ Len(f) = n
OBVIOUS

\* What a job that goes on makes of the turn's chain.
LEMMA GoesOn ==
    ASSUME turn \in Seq(JobType), turn # <<>>, NEW job \in JobType, Goes(job)
    PROVE  /\ turn' \in Seq(JobType) /\ turn' # <<>> /\ Len(turn') = Len(turn)
           /\ Now' = job /\ turn'[1] = job
           /\ \A i \in 2..Len(turn) : turn'[i] = turn[i]
<1>1. 1 \in 1..Len(turn) /\ Len(turn) \in Nat
    BY HeadIsFirst, LenProperties
<1>2. /\ turn' \in Seq(JobType) /\ Len(turn') = Len(turn)
      /\ \A j \in 1..Len(turn) : turn'[j] = IF j = 1 THEN job ELSE turn[j]
    BY <1>1, ExceptSeq DEF Goes
<1>3. turn' # <<>>
    BY <1>1, <1>2, EmptySeq
<1> QED BY <1>1, <1>2, <1>3, HeadIsFirst DEF Now

\* What the end of a job makes of it.
LEMMA GoesOver ==
    ASSUME turn \in Seq(JobType), turn # <<>>, turn' = Tail(turn)
    PROVE  /\ turn' \in Seq(JobType) /\ Len(turn') = Len(turn) - 1
           /\ \A i \in 1..Len(turn') : turn'[i] = turn[i + 1]
           /\ turn' # <<>> => Now' = turn'[1]
<1>1. /\ turn' \in Seq(JobType) /\ Len(turn') = Len(turn) - 1
      /\ \A i \in 1..Len(turn') : turn'[i] = turn[i + 1]
    BY HeadTailProperties
<1> QED BY <1>1, HeadIsFirst DEF Now

\* What a job asked for makes of it.
LEMMA GoesBehind ==
    ASSUME turn \in Seq(JobType), NEW job \in JobType, turn' = Append(turn, job)
    PROVE  /\ turn' \in Seq(JobType) /\ turn' # <<>> /\ Len(turn') = Len(turn) + 1
           /\ \A i \in 1..Len(turn) : turn'[i] = turn[i]
           /\ turn'[Len(turn) + 1] = job
           /\ turn # <<>> => Now' = Now
           /\ turn = <<>> => Now' = job
<1>1. /\ turn' \in Seq(JobType) /\ Len(turn') = Len(turn) + 1
      /\ \A i \in 1..Len(turn) : turn'[i] = turn[i]
      /\ turn'[Len(turn) + 1] = job
    BY AppendProperties
<1>2. Len(turn) \in Nat
    BY LenProperties
<1>3. turn' # <<>>
    BY <1>1, <1>2, EmptySeq
<1>4. turn = <<>> => Len(turn) = 0
    BY EmptySeq
<1> QED BY <1>1, <1>2, <1>3, <1>4, HeadIsFirst DEF Now

\* The same of the admin chain: one that leaves it, and one that joins it.
LEMMA LeavesAdmin ==
    ASSUME NEW S, admin \in Seq(S), admin # <<>>, admin' = Tail(admin),
           \A i, j \in 1..Len(admin) : admin[i] = admin[j] => i = j
    PROVE  /\ admin' \in Seq(S) /\ Len(admin') = Len(admin) - 1
           /\ \A i \in 1..Len(admin') : admin'[i] = admin[i + 1]
           /\ InSeq(admin') = InSeq(admin) \ {Head(admin)}
           /\ \A i, j \in 1..Len(admin') : admin'[i] = admin'[j] => i = j
<1>1. /\ admin' \in Seq(S) /\ Len(admin') = Len(admin) - 1 /\ Len(admin) \in Nat
      /\ \A i \in 1..Len(admin') : admin'[i] = admin[i + 1]
    BY HeadTailProperties, LenProperties
<1>2. Head(admin) = admin[1] /\ 1 \in 1..Len(admin)
    BY HeadIsFirst
<1>3. InSeq(admin') = InSeq(admin) \ {Head(admin)}
    <2>1. ASSUME NEW i \in 1..Len(admin') PROVE admin'[i] \in InSeq(admin) /\ admin'[i] # Head(admin)
        BY <1>1, <1>2, i + 1 \in 1..Len(admin), i + 1 # 1 DEF InSeq
    <2>2. ASSUME NEW i \in 1..Len(admin), admin[i] # Head(admin) PROVE admin[i] \in InSeq(admin')
        <3>1. i # 1 /\ i - 1 \in 1..Len(admin')
            BY <1>1, <1>2, <2>2
        <3>2. admin'[i - 1] = admin[i]
            BY <1>1, <3>1
        <3> QED BY <3>1, <3>2 DEF InSeq
    <2> QED BY <2>1, <2>2 DEF InSeq
<1>4. \A i, j \in 1..Len(admin') : admin'[i] = admin'[j] => i = j
    <2> SUFFICES ASSUME NEW i \in 1..Len(admin'), NEW j \in 1..Len(admin'), admin'[i] = admin'[j] PROVE i = j
        OBVIOUS
    <2>1. i + 1 \in 1..Len(admin) /\ j + 1 \in 1..Len(admin)
        BY <1>1
    <2> QED BY <1>1, <2>1
<1> QED BY <1>1, <1>3, <1>4

\* One that joins it comes last, and once.
LEMMA JoinsAdmin ==
    ASSUME NEW S, admin \in Seq(S), NEW x \in S, x \notin InSeq(admin), admin' = Append(admin, x),
           \A i, j \in 1..Len(admin) : admin[i] = admin[j] => i = j
    PROVE  /\ admin' \in Seq(S) /\ Len(admin') = Len(admin) + 1 /\ admin' # <<>>
           /\ \A i \in 1..Len(admin) : admin'[i] = admin[i]
           /\ admin'[Len(admin) + 1] = x
           /\ InSeq(admin') = InSeq(admin) \cup {x}
           /\ \A i, j \in 1..Len(admin') : admin'[i] = admin'[j] => i = j
           /\ admin # <<>> => Head(admin') = Head(admin)
<1>1. /\ admin' \in Seq(S) /\ Len(admin') = Len(admin) + 1 /\ Len(admin) \in Nat
      /\ \A i \in 1..Len(admin) : admin'[i] = admin[i]
      /\ admin'[Len(admin) + 1] = x
    BY AppendProperties, LenProperties
<1>2. admin' # <<>>
    BY <1>1, EmptySeq
<1>3. InSeq(admin') = InSeq(admin) \cup {x}
    BY <1>1 DEF InSeq
<1>4. \A i, j \in 1..Len(admin') : admin'[i] = admin'[j] => i = j
    BY <1>1 DEF InSeq
<1>5. admin # <<>> => Head(admin') = Head(admin)
    BY <1>1, <1>2, HeadIsFirst
<1> QED BY <1>1, <1>2, <1>3, <1>4, <1>5
\* What is known of the job under way.
LEMMA NowFits ==
    ASSUME Jobs, turn \in Seq(JobType), turn # <<>>
    PROVE  Now \in JobType /\ JobFits(Now) /\ Now = turn[1] /\ Len(turn) \in Nat \ {0}
BY HeadIsFirst, EmptySeq DEF Jobs, Now

\* A job that goes on, of the same kind, leaves the turn's chain as it should be.
LEMMA JobGoesOn ==
    ASSUME Jobs, turn \in Seq(JobType), turn # <<>>, NEW job \in JobType, JobFits(job), job.op = Now.op, Goes(job)
    PROVE  Jobs' /\ turn' \in Seq(JobType) /\ turn' # <<>> /\ Now' = job
<1>1. /\ turn' \in Seq(JobType) /\ turn' # <<>> /\ Len(turn') = Len(turn)
      /\ Now' = job /\ turn'[1] = job
      /\ \A i \in 2..Len(turn) : turn'[i] = turn[i]
    BY GoesOn
<1>2. Now = turn[1] /\ Len(turn) \in Nat \ {0}
    BY NowFits
<1>3. ASSUME NEW i \in 1..Len(turn')
      PROVE  JobFits(turn'[i]) /\ (i # 1 => turn'[i].at = "start")
    BY <1>1, <1>2 DEF Jobs
<1> QED BY <1>1, <1>3 DEF Jobs, JobFits, Stage

\* So does the end of a job; the next one has not begun.
LEMMA JobIsOver ==
    ASSUME Jobs, turn \in Seq(JobType), turn # <<>>, turn' = Tail(turn)
    PROVE  /\ Jobs' /\ turn' \in Seq(JobType)
           /\ turn' # <<>> => Now' \in JobType /\ Now'.at = "start" /\ Now' = turn[2] /\ 2 \in 1..Len(turn)
<1>1. /\ turn' \in Seq(JobType) /\ Len(turn') = Len(turn) - 1
      /\ \A i \in 1..Len(turn') : turn'[i] = turn[i + 1]
      /\ turn' # <<>> => Now' = turn'[1]
    BY GoesOver
<1>2. Len(turn) \in Nat \ {0}
    BY NowFits
<1>3. ASSUME NEW i \in 1..Len(turn')
      PROVE  JobFits(turn'[i]) /\ turn'[i].at = "start"
    <2>1. i + 1 \in 1..Len(turn) /\ i + 1 # 1 /\ turn'[i] = turn[i + 1]
        BY <1>1, <1>2
    <2> QED BY <2>1 DEF Jobs
<1>4. Jobs'
    BY <1>3 DEF Jobs, JobFits, Stage
<1>5. ASSUME turn' # <<>> PROVE 1 \in 1..Len(turn') /\ turn'[1] \in JobType /\ turn'[1] = turn[2] /\ 2 \in 1..Len(turn)
    <2>1. 1 \in 1..Len(turn') /\ turn'[1] \in JobType
        BY <1>1, <1>5, HeadIsFirst
    <2> QED BY <1>1, <1>2, <2>1
<1>6. turn' # <<>> => Now'.at = "start"
    BY <1>1, <1>3, <1>5
<1> QED BY <1>1, <1>4, <1>5, <1>6

\* So does a job asked for, which stands behind the others.
LEMMA JobIsAsked ==
    ASSUME Jobs, turn \in Seq(JobType), NEW job \in JobType, JobFits(job), job.at = "start", turn' = Append(turn, job)
    PROVE  /\ Jobs' /\ turn' \in Seq(JobType) /\ turn' # <<>>
           /\ turn # <<>> => Now' = Now
           /\ turn = <<>> => Now' = job
<1>1. /\ turn' \in Seq(JobType) /\ turn' # <<>> /\ Len(turn') = Len(turn) + 1
      /\ \A i \in 1..Len(turn) : turn'[i] = turn[i]
      /\ turn'[Len(turn) + 1] = job
      /\ turn # <<>> => Now' = Now
      /\ turn = <<>> => Now' = job
    BY GoesBehind
<1>2. Len(turn) \in Nat
    BY LenProperties
<1>3. ASSUME NEW i \in 1..Len(turn')
      PROVE  JobFits(turn'[i]) /\ (i # 1 => turn'[i].at = "start")
    <2>1. CASE i = Len(turn) + 1
        BY <1>1, <2>1
    <2>2. CASE i \in 1..Len(turn)
        BY <1>1, <2>2 DEF Jobs
    <2>3. i = Len(turn) + 1 \/ i \in 1..Len(turn)
        BY <1>1, <1>2
    <2> QED BY <2>1, <2>2, <2>3
<1> QED BY <1>1, <1>3 DEF Jobs, JobFits, Stage

-----------------------------------------------------------------------------
(* The landing on the record, and the two chains.                           *)

\* What a recorded landing is made of.
LEMMA LandingParts ==
    ASSUME NEW L \in Landing
    PROVE  /\ L.task \in Task /\ L.reverts \in BOOLEAN /\ L # NoLanding
           /\ DOMAIN L.tips \subseteq Repo /\ DOMAIN L.made = DOMAIN L.tips
           /\ \A r \in DOMAIN L.tips : L.tips[r] \in Nat /\ L.made[r] \in Seq(RevertCommit)
           /\ L.tips \in [DOMAIN L.tips -> Nat] /\ L.made \in [DOMAIN L.tips -> Seq(RevertCommit)]
           /\ L = [task |-> L.task, tips |-> L.tips, reverts |-> L.reverts, made |-> L.made]
<1>1. PICK R \in SUBSET Repo : L \in [task : Task, tips : [R -> Nat], reverts : BOOLEAN, made : [R -> Seq(RevertCommit)]]
    BY DEF Landing
<1>2. L.task # NoLanding.task
    BY <1>1, NoneIsNone DEF NoLanding
<1>3. L.tips \in [R -> Nat] /\ L.made \in [R -> Seq(RevertCommit)] /\ DOMAIN L.tips = R /\ DOMAIN L.made = R
    BY <1>1
<1> QED BY <1>1, <1>2, <1>3

\* What makes one.
LEMMA LandingOfParts ==
    ASSUME NEW R \in SUBSET Repo, NEW t \in Task, NEW tips \in [R -> Nat], NEW b \in BOOLEAN,
           NEW made \in [R -> Seq(RevertCommit)]
    PROVE  /\ [task |-> t, tips |-> tips, reverts |-> b, made |-> made] \in Landing
           /\ [task |-> t, tips |-> tips, reverts |-> b, made |-> made] # NoLanding
<1>1. [task |-> t, tips |-> tips, reverts |-> b, made |-> made] \in Landing
    BY DEF Landing
<1> QED BY <1>1, LandingParts

\* No landing has no tips.
LEMMA NoTips == DOMAIN NoLanding.tips = {} /\ NoLanding.reverts = FALSE
BY DEF NoLanding

\* The admin chain while nobody joins or leaves it.
LEMMA AdminsStay ==
    ASSUME Admins, turn # <<>>, turn' # <<>>, UNCHANGED <<admin, letting>>,
           UnderAdmin(Now') <=> UnderAdmin(Now),
           UnderAdmin(Now') /\ Now'.at \notin {"admin", "remove"} => HoldsAdmin
    PROVE  Admins'
<1>1. HoldsAdmin' <=> HoldsAdmin
    BY DEF HoldsAdmin
<1>2. UnderAdmin(Now)' <=> UnderAdmin(Now')
    BY DEF UnderAdmin, MakesOrRemoves
<1> QED BY <1>1, <1>2 DEF Admins, InSeq

\* While one waits for its turn, or none is under way, it is held by none of the turn.
LEMMA AdminsRest ==
    ASSUME Admins, UNCHANGED <<admin, letting>>, Turn \notin InSeq(admin),
           turn' # <<>> => ~UnderAdmin(Now')
    PROVE  Admins'
<1>1. UnderAdmin(Now)' <=> UnderAdmin(Now')
    BY DEF UnderAdmin, MakesOrRemoves
<1> QED BY <1>1 DEF Admins, InSeq

\* The turn joins it.
LEMMA AdminsAsked ==
    ASSUME Admins, AttemptTypes, admin' = Append(admin, Turn), UNCHANGED letting, Turn \notin InSeq(admin),
           turn' # <<>>, UnderAdmin(Now'), Now'.at \in {"admin", "remove"}
    PROVE  Admins'
<1>1. /\ admin' \in Seq(Task \cup {Turn})
      /\ InSeq(admin') = InSeq(admin) \cup {Turn}
      /\ \A i, j \in 1..Len(admin') : admin'[i] = admin'[j] => i = j
    BY JoinsAdmin DEF Admins
<1>2. UnderAdmin(Now)' <=> UnderAdmin(Now')
    BY DEF UnderAdmin, MakesOrRemoves
<1>3. Turn \notin Task
    BY SomeTasks DEF Turn
<1> QED BY <1>1, <1>2, <1>3 DEF Admins

\* The turn leaves it, having been let in.
LEMMA AdminsLeft ==
    ASSUME Admins, HoldsAdmin, admin' = Tail(admin),
           \A t \in Task : letting[t] # "no" => letting'[t] # "no",
           turn' # <<>> => ~UnderAdmin(Now')
    PROVE  Admins'
<1>1. /\ admin' \in Seq(Task \cup {Turn})
      /\ InSeq(admin') = InSeq(admin) \ {Turn}
      /\ \A i, j \in 1..Len(admin') : admin'[i] = admin'[j] => i = j
    BY LeavesAdmin DEF Admins, HoldsAdmin
<1>2. UnderAdmin(Now)' <=> UnderAdmin(Now')
    BY DEF UnderAdmin, MakesOrRemoves
<1> QED BY <1>1, <1>2 DEF Admins

\* A job under admin has no task before it that it did not let in.
LEMMA TurnInAdmin ==
    ASSUME Admins, turn # <<>>
    PROVE  UnderAdmin(Now) <=> Turn \in InSeq(admin)
BY DEF Admins

\* A job that has not begun asks nothing of what is before it.
LEMMA NothingBefore ==
    ASSUME turn' # <<>> => Now'.at = "start"
    PROVE  Before' /\ (turn' # <<>> => ~UnderAdmin(Now'))
<1>1. turn' # <<>> => (Now.at)' = "start"
    OBVIOUS
<1> QED BY <1>1 DEF Before, UnderAdmin

-----------------------------------------------------------------------------
(* What an action leaves alone.                                             *)

\* What git holds, where no step touches it.
LEMMA GitStays ==
    ASSUME GitTypes, Written, UNCHANGED <<git, wrote, gaveUp>>
    PROVE  GitTypes' /\ Written'
BY DEF GitTypes, Written, git, history

\* The attempts, likewise.
LEMMA AttemptsStay ==
    ASSUME AttemptTypes, UNCHANGED <<attempts, waiting, letting, day>>
    PROVE  AttemptTypes'
BY DEF AttemptTypes, attempts

\* The record in memory and the one saved, likewise.
LEMMA RecordStays ==
    ASSUME RecordTypes, UNCHANGED record, turn' \in Seq(JobType)
    PROVE  RecordTypes'
BY DEF RecordTypes, record

\* The tips of a landing, while neither the branches nor the records change.
LEMMA TippedStays ==
    ASSUME Tipped, UNCHANGED <<line, record>>
    PROVE  Tipped'
BY DEF Tipped, record

\* While the job under way and the landing on the record are the same, so is what it has before it.
LEMMA BeforeStays ==
    ASSUME Before, Jobs, turn \in Seq(JobType), turn' # <<>> => turn # <<>> /\ Now' = Now, run'.landing = run.landing,
           \A t \in Task : tree[t].work \subseteq tree'[t].work
    PROVE  Before'
<1>1. Tips' = Tips
    BY DEF Tips
<1>2. turn' # <<>> /\ Now.op = "land" => Now.task \in Task
    BY NowFits DEF JobFits
<1> QED BY <1>1, <1>2 DEF Before

\* A record whose landing and whatever else changes is one still.
LEMMA RunParts ==
    ASSUME NEW R \in RunType
    PROVE  /\ R.on \in BOOLEAN /\ R.status \in [Task -> Status] /\ R.landing \in Landing \cup {NoLanding}
           /\ R.landings \subseteq TaskWork /\ R.reverted \in BOOLEAN
BY DEF RunType

\* Statuses may be set, all or one; the landing stays.
LEMMA StatusSet ==
    ASSUME run \in RunType, NEW f \in [Task -> Status], run' = [run EXCEPT !.status = f]
    PROVE  run' \in RunType /\ run'.landing = run.landing
BY DEF RunType

\* One status.
LEMMA OneStatusSet ==
    ASSUME run \in RunType, NEW t \in Task, NEW s \in Status, run' = [run EXCEPT !.status[t] = s]
    PROVE  run' \in RunType /\ run'.landing = run.landing
BY DEF RunType

\* A landing put on the record or taken off it.
LEMMA LandingSet ==
    ASSUME run \in RunType, NEW L \in Landing \cup {NoLanding}, run' = [run EXCEPT !.landing = L]
    PROVE  run' \in RunType /\ run'.landing = L
BY DEF RunType

-----------------------------------------------------------------------------
(* Steps of attempts and of the user, which leave the turn's chain alone.   *)

\* Saving a record whose landing is as it was.
LEMMA SavesTipped ==
    ASSUME Tipped, run' \in RunType, done' \in SUBSET Task, Saves, run'.landing = run.landing, UNCHANGED line
    PROVE  Tipped' /\ saved' \in [run : RunType, done : SUBSET Task]
<1>1. saved'.run = run' /\ saved' \in [run : RunType, done : SUBSET Task]
    BY DEF Saves
<1>2. run.landing = NoLanding \/ saved.run.landing = run.landing
    BY DEF Tipped
<1> QED BY <1>1, <1>2, NoTips DEF Tipped

\* The types and the chains where the turn's is left alone.
LEMMA OutOfTurn ==
    ASSUME TypeInv, UNCHANGED turn, run'.landing = run.landing, GitTypes', Written',
           \A t \in Task : tree[t].work \subseteq tree'[t].work,
           run' \in RunType, done' \in SUBSET Task, saved' \in [run : RunType, done : SUBSET Task],
           Tipped', AttemptTypes', Admins', RunIsOn'
    PROVE  TypeInv'
<1> USE DEF TypeInv
<1>0. turn \in Seq(JobType) /\ turn' \in Seq(JobType)
    BY DEF RecordTypes
<1>1. RecordTypes'
    BY <1>0 DEF RecordTypes
<1>3. Now' = Now
    BY DEF Now
<1>4. Before'
    BY <1>0, <1>3, BeforeStays
<1>5. Jobs'
    BY DEF Jobs, JobFits, Stage
<1> QED BY <1>1, <1>4, <1>5

\* The admin chain where both are, and more may wait for it.
LEMMA AdminsEven ==
    ASSUME Admins, UNCHANGED <<turn, admin>>, \A t \in Task : letting[t] # "no" => letting'[t] # "no"
    PROVE  Admins'
<1>1. Now' = Now
    BY DEF Now
<1>2. (UnderAdmin(Now))' = UnderAdmin(Now) /\ HoldsAdmin' = HoldsAdmin
    BY <1>1 DEF UnderAdmin, HoldsAdmin, MakesOrRemoves
<1> QED BY <1>1, <1>2 DEF Admins, InSeq

\* The record where it is left alone.
LEMMA RecordKept ==
    ASSUME TypeInv, UNCHANGED record
    PROVE  /\ run' \in RunType /\ done' \in SUBSET Task /\ saved' \in [run : RunType, done : SUBSET Task]
           /\ run'.landing = run.landing /\ run' = run /\ saved' = saved
BY DEF TypeInv, RecordTypes, record

\* The run, where nothing of it comes or goes.
LEMMA OnStays ==
    ASSUME RunIsOn, UNCHANGED turn,
           run'.on = run.on, run'.landing = run.landing, run'.landings = run.landings,
           \A t \in Task : run'.status[t] = run.status[t] \/ run'.status[t] = "none" \/ run.on,
           UNCHANGED saved \/ saved'.run = run'
    PROVE  RunIsOn'
<1>1. Now' = Now
    BY DEF Now
<1>2. OffIsEmpty(run') /\ OffIsEmpty(saved'.run)
    BY DEF RunIsOn, OffIsEmpty
<1>3. OffIsEmpty(run)' /\ OffIsEmpty(saved.run)'
    BY <1>2 DEF OffIsEmpty
<1>4. PreparesOn'
    BY DEF RunIsOn, PreparesOn, MintedBefore
<1> QED BY <1>1, <1>3, <1>4 DEF RunIsOn

\* A run that is on goes on, with the same chain and the same records.
LEMMA OnSame ==
    ASSUME TypeInv, UNCHANGED turn, UNCHANGED record
    PROVE  RunIsOn'
BY RecordKept, OnStays DEF TypeInv, RecordTypes

\* An attempt writes in its worktree, and what it wrote is known (the runner).
LEMMA WorksTyped ==
    ASSUME TypeInv, NEW t \in Task, Works(t)
    PROVE  TypeInv'
<1>1. PICK R \in SUBSET Repo \ {{}} :
        /\ tree' = [tree EXCEPT ![t].work = R]
        /\ wrote' = wrote \cup {<<t, tree[t].n, r>> : r \in R}
    BY DEF Works
<1>2. tree[t].work = {} /\ tree[t].there /\ UNCHANGED <<line, head, iwt, held, kept, record, locks, attempts, gaveUp, day>>
    BY DEF Works, Same, today, history
<1>3. tree \in [Task -> TreeType] /\ tree[t].n \in Nat \ {0}
    BY <1>2 DEF TypeInv, GitTypes, TreeType
<1>4. /\ tree' \in [Task -> TreeType]
      /\ \A u \in Task : tree'[u].n = tree[u].n /\ tree'[u].there = tree[u].there
      /\ \A u \in Task : tree'[u].work = IF u = t THEN R ELSE tree[u].work
    BY <1>1, <1>3 DEF TreeType
<1>5. GitTypes'
    <2>1. {<<t, tree[t].n, r>> : r \in R} \subseteq Work
        BY <1>1, <1>3 DEF Work
    <2> QED BY <1>1, <1>2, <1>4, <2>1 DEF TypeInv, GitTypes
<1>6. Written'
    BY <1>1, <1>2, <1>4 DEF TypeInv, Written
<1>7. AttemptTypes'
    BY <1>2, AttemptsStay DEF TypeInv, locks
<1>8. Admins' /\ Tipped'
    BY <1>2, AdminsEven, TippedStays DEF TypeInv, locks
<1>9. RunIsOn'
    BY <1>2, OnSame DEF attempts, locks
<1> QED BY <1>9, <1>2, <1>4, <1>5, <1>6, <1>7, <1>8, RecordKept, OutOfTurn DEF locks

\* The user has a branch checked out, commits there, and leaves.
LEMMA UserTyped ==
    ASSUME TypeInv, NEW r \in Repo, UserReviews(r) \/ UserLeaves(r)
    PROVE  TypeInv'
<1>1. UNCHANGED <<line, head, iwt, tree, kept, record, locks, attempts, wrote, gaveUp, day>>
    BY DEF UserReviews, UserLeaves, Same, May, today, history
<1>2. held' \subseteq Repo /\ iwt \cap held' = {}
    BY DEF TypeInv, GitTypes, UserReviews, UserLeaves
<1>3. GitTypes' /\ Written'
    BY <1>1, <1>2 DEF TypeInv, GitTypes, Written, history
<1>4. AttemptTypes'
    BY <1>1, AttemptsStay DEF TypeInv, locks
<1>5. Admins' /\ Tipped'
    BY <1>1, AdminsEven, TippedStays DEF TypeInv, locks
<1>6. RunIsOn'
    BY <1>1, OnSame DEF attempts, locks
<1> QED BY <1>6, <1>1, <1>3, <1>4, <1>5, RecordKept, OutOfTurn DEF locks

\* A line one longer.
LEMMA LineGrows ==
    ASSUME GitTypes, NEW r \in Repo, NEW c \in Commit, line' = [line EXCEPT ![r] = Append(@, c)]
    PROVE  /\ line' \in [Repo -> Seq(Commit)]
           /\ \A x \in Repo : Len(line[x]) <= Len(line'[x])
           /\ \A x \in Repo : x # r => line'[x] = line[x]
           /\ Len(line'[r]) = Len(line[r]) + 1 /\ line'[r][Len(line[r]) + 1] = c
           /\ \A i \in 1..Len(line[r]) : line'[r][i] = line[r][i]
<1>1. line \in [Repo -> Seq(Commit)] /\ line[r] \in Seq(Commit) /\ Len(line[r]) \in Nat
    BY LenProperties DEF GitTypes
<1>2. line'[r] = Append(line[r], c) /\ \A x \in Repo : x # r => line'[x] = line[x]
    BY <1>1
<1>3. /\ Append(line[r], c) \in Seq(Commit) /\ Len(line'[r]) = Len(line[r]) + 1
      /\ line'[r][Len(line[r]) + 1] = c /\ \A i \in 1..Len(line[r]) : line'[r][i] = line[r][i]
    BY <1>1, <1>2, AppendProperties
<1>4. \A x \in Repo : Len(line[x]) \in Nat
    BY <1>1, LenProperties
<1>5. \A x \in Repo : Len(line[x]) <= Len(line'[x])
    BY <1>1, <1>2, <1>3, <1>4
<1> QED BY <1>1, <1>2, <1>3, <1>5

\* The user's own commit grows a branch and no tip.
LEMMA UserCommitsTyped ==
    ASSUME TypeInv, NEW r \in Repo, UserCommits(r)
    PROVE  TypeInv'
<1>1. /\ line' = [line EXCEPT ![r] = Append(@, UserCommit)] /\ wrote' = wrote \cup {WorkOf(UserCommit, r)}
      /\ UNCHANGED <<head, iwt, held, tree, kept, record, locks, attempts, gaveUp, day>>
    BY DEF UserCommits, Same, today, history
<1> DEFINE L == line'
<1>2. /\ L \in [Repo -> Seq(Commit)]
      /\ \A x \in Repo : Len(line[x]) <= Len(L[x])
      /\ \A x \in Repo : x # r => L[x] = line[x]
      /\ Len(L[r]) = Len(line[r]) + 1 /\ L[r][Len(line[r]) + 1] = UserCommit
      /\ \A i \in 1..Len(line[r]) : L[r][i] = line[r][i]
    <2>1. UserCommit \in Commit
        BY DEF Commit
    <2> QED BY <1>1, <2>1, LineGrows DEF TypeInv
<1>3. GitTypes'
    BY <1>1, <1>2 DEF TypeInv, GitTypes, Work
<1>4. Written'
    <2> SUFFICES ASSUME NEW x \in Repo, NEW i \in 1..Len(L[x]), L[x][i].by # "revert"
                 PROVE  WorkOf(L[x][i], x) \in wrote'
        BY <1>1 DEF TypeInv, Written
    <2>1. CASE x = r /\ i = Len(line[r]) + 1
        BY <1>1, <1>2, <2>1
    <2>2. CASE x # r \/ i \in 1..Len(line[r])
        BY <1>1, <1>2, <2>2 DEF TypeInv, Written
    <2>3. Len(line[r]) \in Nat
        BY LenProperties DEF TypeInv, GitTypes
    <2> QED BY <1>2, <2>1, <2>2, <2>3
<1>5. AttemptTypes'
    BY <1>1, AttemptsStay DEF TypeInv, locks
<1>6. Tipped'
    <2>0. run' = run /\ saved' = saved
        BY <1>1 DEF record
    <2>1. \A R \in DOMAIN saved.run.landing.tips : R \in Repo /\ saved.run.landing.tips[R] \in Nat
        BY LandingParts, NoTips DEF TypeInv, RecordTypes, RunType
    <2>2. \A x \in Repo : Len(line[x]) \in Nat /\ Len(L[x]) \in Nat
        BY <1>2, LenProperties DEF TypeInv, GitTypes
    <2> QED BY <1>2, <2>0, <2>1, <2>2 DEF TypeInv, Tipped
<1>7. Admins'
    BY <1>1, AdminsEven DEF TypeInv, locks
<1>8. RunIsOn'
    BY <1>1, OnSame DEF attempts, locks
<1> QED BY <1>8, <1>1, <1>3, <1>4, <1>5, <1>6, <1>7, RecordKept, OutOfTurn DEF locks

\* An attempt's worktree is ready and its runner starts (spawn).
LEMMA SpawnTyped ==
    ASSUME TypeInv, NEW t \in Task, Spawn(t)
    PROVE  TypeInv'
<1>1. /\ phase' = [phase EXCEPT ![t] = "working"] /\ UNCHANGED <<run, done>> /\ Saves
      /\ UNCHANGED <<git, locks, used, open, wrote, gaveUp, day>>
    BY DEF Spawn, Same, today, history
<1>2. AttemptTypes'
    BY <1>1 DEF TypeInv, AttemptTypes, Phase, locks
<1>3. run' \in RunType /\ done' \in SUBSET Task
    BY <1>1 DEF TypeInv, RecordTypes
<1>4. Tipped' /\ saved' \in [run : RunType, done : SUBSET Task]
    BY <1>1, <1>3, SavesTipped DEF TypeInv, git
<1>5. Admins' /\ GitTypes' /\ Written'
    BY <1>1, AdminsEven, GitStays DEF TypeInv, locks
<1>6. RunIsOn'
    BY <1>1, OnStays DEF TypeInv, RecordTypes, Saves, locks
<1> QED BY <1>6, <1>1, <1>2, <1>3, <1>4, <1>5, OutOfTurn DEF locks, git

\* A landing is asked for and waits to be drained into the turn (landPassed).
LEMMA PassesTyped ==
    ASSUME TypeInv, NEW t \in Task, Passes(t)
    PROVE  TypeInv'
<1>1. /\ phase' = [phase EXCEPT ![t] = "landing"] /\ waiting' = waiting \cup {t}
      /\ UNCHANGED <<git, record, turn, admin, letting, used, open, wrote, gaveUp, day>>
    BY DEF Passes, Same, today, history
<1>2. AttemptTypes'
    BY <1>1 DEF TypeInv, AttemptTypes, Phase
<1>3. Admins' /\ GitTypes' /\ Written' /\ Tipped' /\ RunIsOn'
    BY <1>1, AdminsEven, GitStays, TippedStays, OnSame DEF TypeInv, git
<1> QED BY <1>1, <1>2, <1>3, RecordKept, OutOfTurn DEF git

\* What saves the plan, and neither the run nor git (markTaskComplete, a start's attempt that ends).
LEMMA PlanSaved ==
    ASSUME TypeInv, UNCHANGED <<git, run, turn, admin, letting, wrote, gaveUp>>, AttemptTypes',
           done' \in SUBSET Task, Saves
    PROVE  TypeInv'
<1>1. run' \in RunType /\ run'.landing = run.landing
    BY DEF TypeInv, RecordTypes
<1>2. Tipped' /\ saved' \in [run : RunType, done : SUBSET Task]
    BY <1>1, SavesTipped DEF TypeInv, git
<1>3. Admins' /\ GitTypes' /\ Written'
    BY AdminsEven, GitStays DEF TypeInv
<1>4. RunIsOn'
    BY OnStays DEF TypeInv, Saves
<1> QED BY <1>1, <1>2, <1>3, <1>4, OutOfTurn DEF git

\* A task marked complete waits to land, or shows completed at once (markTaskComplete).
LEMMA MarkCompleteTyped ==
    ASSUME TypeInv, NEW t \in Task, MarkComplete(t)
    PROVE  TypeInv'
<1>1. /\ \E p \in {"vouched", "rest"} : phase' = [phase EXCEPT ![t] = p]
      /\ waiting' = waiting \cup {t} \/ waiting' = waiting
      /\ UNCHANGED <<git, turn, admin, letting, used, open, wrote, gaveUp, day>>
      /\ UNCHANGED record \/ (done' = done \cup {t} /\ UNCHANGED run /\ Saves)
    BY DEF MarkComplete, May, Dooms
<1>2. AttemptTypes'
    BY <1>1 DEF TypeInv, AttemptTypes, Phase
<1>3. CASE UNCHANGED record
    <2>1. Admins' /\ GitTypes' /\ Written' /\ Tipped' /\ RunIsOn'
        BY <1>1, <1>3, AdminsEven, GitStays, TippedStays, OnSame DEF TypeInv, git
    <2> QED BY <1>1, <1>2, <1>3, <2>1, RecordKept, OutOfTurn DEF git
<1>4. CASE done' = done \cup {t} /\ UNCHANGED run /\ Saves
    <2>1. done' \in SUBSET Task
        BY <1>4 DEF TypeInv, RecordTypes
    <2> QED BY <1>1, <1>2, <1>4, <2>1, PlanSaved
<1> QED BY <1>1, <1>3, <1>4

\* So does an attempt in the user's checkout.
LEMMA StrayEndsTyped ==
    ASSUME TypeInv, NEW t \in Task, StrayEnds(t)
    PROVE  TypeInv'
<1>1. /\ phase' = [phase EXCEPT ![t] = "rest"]
      /\ done' = done \/ done' = done \cup {t}
      /\ UNCHANGED run /\ Saves
      /\ UNCHANGED <<git, locks, used, open, wrote, gaveUp, day>>
    BY DEF StrayEnds, Same, today, history
<1>2. AttemptTypes'
    BY <1>1 DEF TypeInv, AttemptTypes, Phase, locks
<1>3. done' \in SUBSET Task
    BY <1>1 DEF TypeInv, RecordTypes
<1> QED BY <1>1, <1>2, <1>3, PlanSaved DEF locks

\* A repair works in the worktree that is there (reopen).
LEMMA ReopenTyped ==
    ASSUME TypeInv, NEW t \in Task, Reopen(t)
    PROVE  TypeInv'
<1> DEFINE b == [r \in Repo |-> IF r \in tree[t].work THEN Len(line[r]) ELSE tree[t].base[r]]
<1>1. /\ tree' = [tree EXCEPT ![t].base = b]
      /\ run' = [run EXCEPT !.status[t] = "repairing"]
      /\ phase' = [phase EXCEPT ![t] = "working"]
      /\ UNCHANGED done /\ Saves
      /\ UNCHANGED <<line, head, iwt, held, kept, locks, used, open, wrote, gaveUp, day>>
    BY DEF Reopen, May, history
<1>2. AttemptTypes'
    BY <1>1 DEF TypeInv, AttemptTypes, Phase, locks
<1>3. run' \in RunType /\ run'.landing = run.landing /\ done' \in SUBSET Task
    BY <1>1, OneStatusSet DEF TypeInv, RecordTypes, Status
<1>4. Tipped' /\ saved' \in [run : RunType, done : SUBSET Task]
    BY <1>1, <1>3, SavesTipped DEF TypeInv
<1>5. b \in [Repo -> Nat]
    BY LenProperties DEF TypeInv, GitTypes, TreeType
<1> HIDE DEF b
<1>6. tree' \in [Task -> TreeType] /\ \A u \in Task : tree'[u].n = tree[u].n /\ tree'[u].work = tree[u].work /\ tree'[u].there = tree[u].there
    BY <1>1, <1>5 DEF TypeInv, GitTypes, TreeType
<1>7. GitTypes' /\ Written'
    BY <1>1, <1>6 DEF TypeInv, GitTypes, Written, history
<1>8. Admins'
    BY <1>1, AdminsEven DEF TypeInv, locks
<1>9. RunIsOn'
    <2>1. run.on
        BY DEF TypeInv, RunIsOn, OffIsEmpty, Reopen
    <2>2. run'.on = run.on /\ run'.landings = run.landings
        BY <1>1 DEF TypeInv, RecordTypes, RunType
    <2> QED BY <1>1, <1>3, <2>1, <2>2, OnStays DEF TypeInv, RecordTypes, Saves, locks
<1> QED BY <1>1, <1>9, <1>2, <1>3, <1>4, <1>6, <1>7, <1>8, OutOfTurn DEF locks

\* Jobs behind which only how they come out has changed, and of mints alone.
Interrupted(job) == IF job.op = "mint" THEN [job EXCEPT !.out = "interrupted"] ELSE job

LEMMA InterruptedTyped ==
    ASSUME NEW job \in JobType
    PROVE  /\ Interrupted(job) \in JobType
           /\ Interrupted(job).op = job.op /\ Interrupted(job).at = job.at
           /\ job.op # "mint" => Interrupted(job) = job
BY DEF Interrupted, JobType

LEMMA ChainInterrupted ==
    ASSUME NEW s \in Seq(JobType), NEW f, f = [i \in 1..Len(s) |-> Interrupted(s[i])]
    PROVE  /\ f \in Seq(JobType) /\ Len(f) = Len(s)
           /\ \A i \in 1..Len(s) : f[i].op = s[i].op /\ f[i].at = s[i].at /\ (s[i].op # "mint" => f[i] = s[i])
<1>1. Len(s) \in Nat /\ \A i \in 1..Len(s) : s[i] \in JobType
    BY LenProperties
<1>2. \A i \in 1..Len(s) : f[i] = Interrupted(s[i])
    OBVIOUS
<1>3. \A i \in 1..Len(s) : f[i] \in JobType
    BY <1>1, <1>2, InterruptedTyped
<1>4. f \in [1..Len(s) -> JobType]
    BY <1>3
<1>5. f \in Seq(JobType) /\ Len(f) = Len(s)
    BY <1>1, <1>4, SeqOf
<1> QED BY <1>1, <1>2, <1>5, InterruptedTyped

\* A Stop lets go of all at work and interrupts a mint (stop).
LEMMA StopTyped ==
    ASSUME TypeInv, Stop
    PROVE  TypeInv'
<1>1. /\ letting' = [t \in Task |->
            IF letting[t] \in {"drop", "dropLanded"} THEN letting[t]
            ELSE IF phase[t] \in {"starting", "working"} THEN "keep"
            ELSE IF phase[t] = "landing" THEN "keepLanded" ELSE letting[t]]
      /\ \E live : phase' = [t \in Task |-> IF t \in live THEN "rest" ELSE phase[t]]
      /\ UNCHANGED <<git, record, admin, waiting, used, wrote, gaveUp, day>>
    BY DEF Stop, May, history
<1>2. AttemptTypes' /\ \A t \in Task : letting[t] # "no" => letting'[t] # "no"
    <2>1. open' = FALSE
        BY DEF Stop
    <2> QED BY <1>1, <2>1 DEF TypeInv, AttemptTypes, Phase
<1>3. turn \in Seq(JobType) /\ Len(turn) \in Nat /\ Jobs
    BY LenProperties DEF TypeInv, RecordTypes
<1>4. turn' = [i \in 1..Len(turn) |-> Interrupted(turn[i])]
    BY DEF Stop, Interrupted
<1>5. /\ turn' \in Seq(JobType) /\ Len(turn') = Len(turn)
      /\ \A i \in 1..Len(turn) : turn'[i].op = turn[i].op /\ turn'[i].at = turn[i].at /\ (turn[i].op # "mint" => turn'[i] = turn[i])
    <2>1. \A f : f = [i \in 1..Len(turn) |-> Interrupted(turn[i])] =>
              /\ f \in Seq(JobType) /\ Len(f) = Len(turn)
              /\ \A i \in 1..Len(turn) : f[i].op = turn[i].op /\ f[i].at = turn[i].at /\ (turn[i].op # "mint" => f[i] = turn[i])
        BY <1>3, ChainInterrupted
    <2> HIDE DEF Interrupted
    <2> QED BY <1>4, <2>1
<1>6. Jobs'
    BY <1>3, <1>5 DEF Jobs, JobFits, Stage
<1>7. /\ turn' = <<>> <=> turn = <<>>
      /\ turn # <<>> => Now' = turn'[1] /\ Now = turn[1] /\ 1 \in 1..Len(turn)
    <2>1. turn' = <<>> <=> turn = <<>>
        BY <1>3, <1>5, EmptySeq
    <2>2. turn # <<>> => Head(turn) = turn[1] /\ 1 \in 1..Len(turn)
        BY <1>3, HeadIsFirst
    <2>3. turn' # <<>> => Head(turn') = turn'[1]
        BY <1>5, HeadIsFirst
    <2> QED BY <2>1, <2>2, <2>3 DEF Now
<1>8. turn # <<>> => Now'.op = Now.op /\ Now'.at = Now.at /\ (Now.op # "mint" => Now' = Now)
    BY <1>5, <1>7
<1>9. GitTypes' /\ Written' /\ Tipped' /\ RecordTypes' /\ run' = run /\ saved' = saved /\ done' = done
    <2>1. run' = run /\ saved' = saved /\ done' = done
        BY <1>1 DEF record
    <2>2. GitTypes' /\ Written'
        BY <1>1, GitStays DEF TypeInv, git
    <2>3. Tipped'
        BY <1>1, <2>1, TippedStays DEF TypeInv, git
    <2>4. RecordTypes'
        BY <1>1, <1>5, <2>1 DEF TypeInv, RecordTypes
    <2> QED BY <2>1, <2>2, <2>3, <2>4
<1>10. Before'
    <2>1. Tips' = Tips /\ tree' = tree
        BY <1>1, <1>9 DEF Tips, git
    <2>2. CASE turn # <<>> /\ Now.op # "mint"
        BY <1>7, <1>8, <1>9, <2>1, <2>2 DEF TypeInv, Before
    <2>3. CASE turn # <<>> /\ Now.op = "mint"
        <3>1. Now'.op = "mint" /\ Now'.at \in {"start", "admin", "branches"}
            BY <1>3, <1>8, <2>3, NowFits DEF JobFits, Stage
        <3> QED BY <3>1 DEF Before
    <2>4. CASE turn = <<>>
        BY <1>7, <2>4 DEF Before
    <2> QED BY <2>2, <2>3, <2>4
<1>11. Admins'
    <2>1. turn # <<>> => (UnderAdmin(Now') <=> UnderAdmin(Now))
        BY <1>8 DEF UnderAdmin, MakesOrRemoves
    <2>2. (UnderAdmin(Now))' <=> UnderAdmin(Now')
        BY DEF UnderAdmin, MakesOrRemoves
    <2>3. HoldsAdmin' <=> HoldsAdmin
        BY <1>1 DEF HoldsAdmin
    <2> QED BY <1>1, <1>2, <1>7, <1>8, <2>1, <2>2, <2>3 DEF TypeInv, Admins, InSeq
<1>12. RunIsOn'
    <2>1. PreparesOn'
        <3> SUFFICES ASSUME NEW i \in 1..Len(turn'), turn'[i].op = "prepare", ~run.on
                     PROVE  \E j \in 1..i - 1 : turn'[j].op = "mint"
            BY <1>9 DEF PreparesOn, MintedBefore
        <3>1. i \in 1..Len(turn) /\ turn[i].op = "prepare"
            BY <1>5
        <3>2. PICK j \in 1..i - 1 : turn[j].op = "mint"
            BY <3>1 DEF TypeInv, RunIsOn, PreparesOn, MintedBefore
        <3>3. j \in 1..Len(turn)
            BY <1>3, <3>1, <3>2
        <3> QED BY <1>5, <3>2, <3>3
    <2>2. OffIsEmpty(run)' /\ OffIsEmpty(saved.run)'
        BY <1>9 DEF TypeInv, RunIsOn, OffIsEmpty
    <2> QED BY <1>7, <1>8, <1>9, <2>1, <2>2 DEF TypeInv, RunIsOn
<1> QED BY <1>2, <1>6, <1>9, <1>10, <1>11, <1>12 DEF TypeInv

\* A retry lets go of the attempt before (retryTask).
LEMMA RetryTyped ==
    ASSUME TypeInv, NEW t \in Task, Retry(t)
    PROVE  TypeInv'
<1>1. /\ letting' = [letting EXCEPT ![t] = IF phase[t] = "landing" THEN "dropLanded" ELSE "drop"]
      /\ phase' = [phase EXCEPT ![t] = "rest"]
      /\ done' = done \ {t} /\ UNCHANGED run /\ Saves
      /\ UNCHANGED <<git, turn, admin, waiting, used, open, wrote, gaveUp, day>>
    BY DEF Retry, May, Dooms
<1>2. AttemptTypes' /\ \A u \in Task : letting[u] # "no" => letting'[u] # "no"
    BY <1>1 DEF TypeInv, AttemptTypes, Phase
<1>4. run' \in RunType /\ done' \in SUBSET Task
    BY <1>1 DEF TypeInv, RecordTypes
<1>5. Tipped' /\ saved' \in [run : RunType, done : SUBSET Task]
    BY <1>1, <1>4, SavesTipped DEF TypeInv, git
<1>6. Admins' /\ GitTypes' /\ Written'
    BY <1>1, <1>2, AdminsEven, GitStays DEF TypeInv, git
<1>7. RunIsOn'
    BY <1>1, OnStays DEF TypeInv, RecordTypes, Saves
<1> QED BY <1>7, <1>1, <1>2, <1>4, <1>5, <1>6, OutOfTurn DEF git

\* What is kept was written.
LEMMA PreservedWritten ==
    ASSUME Written, NEW S \in SUBSET Task
    PROVE  PreservedOf(S) \subseteq wrote
<1> SUFFICES ASSUME NEW t \in S, NEW w \in Preserved(t) PROVE w \in wrote
    BY DEF PreservedOf
<1>1. \E r \in Unlanded(t) : w = <<t, tree[t].n, r>>
    BY DEF Preserved
<1> QED BY <1>1 DEF Unlanded, Written

\* The worktrees of some tasks go, with what they hold kept or not.
LEMMA TreesGo ==
    ASSUME GitTypes, Written, NEW S \in SUBSET Task, UNCHANGED <<line, head, held, wrote, gaveUp>>, iwt' \subseteq iwt,
           kept' \subseteq wrote,
           tree' = [t \in Task |-> IF t \in S THEN [tree[t] EXCEPT !.there = FALSE] ELSE tree[t]]
    PROVE  /\ GitTypes' /\ Written'
           /\ \A t \in Task : /\ tree'[t].n = tree[t].n /\ tree'[t].work = tree[t].work /\ tree'[t].base = tree[t].base
                              /\ tree'[t].there <=> tree[t].there /\ t \notin S
<1>1. /\ tree' \in [Task -> TreeType]
      /\ \A t \in Task : /\ tree'[t].n = tree[t].n /\ tree'[t].work = tree[t].work /\ tree'[t].base = tree[t].base
                         /\ tree'[t].there <=> tree[t].there /\ t \notin S
    BY DEF GitTypes, TreeType
<1> QED BY <1>1 DEF GitTypes, Written, history

\* So does the worktree of one.
LEMMA TreeGoes ==
    ASSUME GitTypes, NEW t \in Task, tree' = [tree EXCEPT ![t].there = FALSE]
    PROVE  tree' = [u \in Task |-> IF u \in {t} THEN [tree[u] EXCEPT !.there = FALSE] ELSE tree[u]]
BY DEF GitTypes

\* A release joins admin once, behind those there (release).
LEMMA ReleaseAsksTyped ==
    ASSUME TypeInv, NEW t \in Task, ReleaseAsks(t)
    PROVE  TypeInv'
<1>1. /\ letting[t] # "no" /\ t \notin InSeq(admin) /\ admin' = Append(admin, t)
      /\ UNCHANGED <<git, record, turn, waiting, letting, attempts, wrote, gaveUp, day>>
    BY DEF ReleaseAsks, Same, today, history
<1>2. AttemptTypes' /\ GitTypes' /\ Written' /\ Tipped'
    BY <1>1, AttemptsStay, GitStays, TippedStays DEF TypeInv, git
<1>3. Turn # t
    BY SomeTasks DEF Turn
<1>4. Admins'
    <2>1. /\ admin' \in Seq(Task \cup {Turn})
          /\ InSeq(admin') = InSeq(admin) \cup {t}
          /\ \A i, j \in 1..Len(admin') : admin'[i] = admin'[j] => i = j
          /\ admin' # <<>>
          /\ admin # <<>> => Head(admin') = Head(admin)
        BY <1>1, JoinsAdmin DEF TypeInv, Admins
    <2>2. Now' = Now
        BY <1>1 DEF Now
    <2>3. (UnderAdmin(Now))' = UnderAdmin(Now) /\ (HoldsAdmin => HoldsAdmin')
        BY <2>1, <2>2 DEF UnderAdmin, HoldsAdmin, MakesOrRemoves
    <2> QED BY <1>1, <1>3, <2>1, <2>2, <2>3 DEF TypeInv, Admins
<1>5. RunIsOn'
    BY <1>1, OnSame DEF attempts, locks
<1> QED BY <1>5, <1>1, <1>2, <1>4, RecordKept, OutOfTurn DEF git

\* What becomes of a status once its attempt or its landing is gone is a status.
LEMMA StatusLeft == \A s \in Status : LeftBehind(s) \in Status /\ TakenBack(s) \in Status
BY DEF LeftBehind, TakenBack, Status

\* A release at the head of admin keeps or removes its worktree, and leaves (release).
LEMMA ReleasesTyped ==
    ASSUME TypeInv, NEW t \in Task, Releases(t)
    PROVE  TypeInv'
<1>1. /\ HasAdmin(t) /\ admin' = Tail(admin) /\ letting' = [letting EXCEPT ![t] = "no"]
      /\ UNCHANGED done /\ Saves
      /\ UNCHANGED <<line, head, iwt, held, turn, waiting, attempts, wrote, gaveUp, day>>
    BY DEF Releases, Same, today, history, Exposes
<1>2. \/ UNCHANGED <<run, kept, tree>>
      \/ run' = [run EXCEPT !.status[t] = LeftBehind(run.status[t])] /\ UNCHANGED <<kept, tree>>
      \/ /\ run' = [run EXCEPT !.status[t] = "none"] /\ kept' = kept \cup PreservedOf({t})
         /\ tree' = [tree EXCEPT ![t].there = FALSE]
    BY DEF Releases
<1>3. run' \in RunType /\ run'.landing = run.landing /\ done' \in SUBSET Task
    <2>1. run \in RunType /\ run.status[t] \in Status
        BY RunParts DEF TypeInv, RecordTypes
    <2>2. LeftBehind(run.status[t]) \in Status /\ "none" \in Status
        BY <2>1, StatusLeft DEF Status
    <2>3. done' \in SUBSET Task
        BY <1>1 DEF TypeInv, RecordTypes
    <2> QED BY <1>2, <2>1, <2>2, <2>3, OneStatusSet
<1>4. Tipped' /\ saved' \in [run : RunType, done : SUBSET Task]
    BY <1>1, <1>3, SavesTipped DEF TypeInv
<1>5. GitTypes' /\ Written' /\ \A u \in Task : tree'[u].work = tree[u].work
    <2>1. CASE UNCHANGED <<kept, tree>>
        BY <1>1, <2>1, GitStays DEF TypeInv, git
    <2>2. CASE kept' = kept \cup PreservedOf({t}) /\ tree' = [tree EXCEPT ![t].there = FALSE]
        <3>1. kept' \subseteq wrote
            BY <2>2, PreservedWritten DEF TypeInv, GitTypes
        <3>2. tree' = [u \in Task |-> IF u \in {t} THEN [tree[u] EXCEPT !.there = FALSE] ELSE tree[u]]
            BY <2>2, TreeGoes DEF TypeInv
        <3> QED BY <1>1, <3>1, <3>2, TreesGo DEF TypeInv
    <2> QED BY <1>2, <2>1, <2>2
<1>6. AttemptTypes'
    BY <1>1 DEF TypeInv, AttemptTypes, attempts
<1>7. Admins'
    <2>1. admin # <<>> /\ Head(admin) = t /\ t # Turn
        BY <1>1, SomeTasks DEF HasAdmin, Turn
    <2>2. /\ admin' \in Seq(Task \cup {Turn})
          /\ InSeq(admin') = InSeq(admin) \ {t}
          /\ \A i, j \in 1..Len(admin') : admin'[i] = admin'[j] => i = j
        BY <1>1, <2>1, LeavesAdmin DEF TypeInv, Admins
    <2>3. Now' = Now /\ ~HoldsAdmin
        BY <1>1, <2>1 DEF Now, HoldsAdmin
    <2>4. (UnderAdmin(Now))' = UnderAdmin(Now)
        BY <2>3 DEF UnderAdmin, MakesOrRemoves
    <2>5. \A u \in Task : u # t => letting'[u] = letting[u]
        BY <1>1 DEF TypeInv, AttemptTypes
    <2> QED BY <1>1, <2>1, <2>2, <2>3, <2>4, <2>5 DEF TypeInv, Admins
<1>8. RunIsOn'
    <2>1. run \in RunType /\ turn \in Seq(JobType)
        BY DEF TypeInv, RecordTypes
    <2>2. \A u \in Task : run'.status[u] = run.status[u] \/ run'.status[u] = "none" \/ run.on
        <3>1. run.on \/ run.status[t] = "none"
            BY DEF TypeInv, RunIsOn, OffIsEmpty
        <3>2. LeftBehind("none") = "none"
            BY DEF LeftBehind
        <3> QED BY <1>2, <2>1, <3>1, <3>2 DEF RunType
    <2>3. run'.on = run.on /\ run'.landings = run.landings
        BY <1>2, <2>1 DEF RunType
    <2> QED BY <1>1, <1>3, <2>1, <2>2, <2>3, OnStays DEF TypeInv, Saves, attempts
<1> QED BY <1>1, <1>8, <1>3, <1>4, <1>5, <1>6, <1>7, OutOfTurn

-----------------------------------------------------------------------------
(* Steps that ask for a job of the turn's.                                  *)

\* A job as it is asked for is one that has not begun.
LEMMA JobTyped ==
    ASSUME NEW op \in {"land", "merge", "clear", "discard", "cleanup", "mint", "handoff", "revert", "prepare", "prune"},
           NEW t \in Task \cup {None}
    PROVE  /\ Job(op, t) \in JobType /\ Job(op, t).op = op /\ Job(op, t).at = "start" /\ Job(op, t).task = t
           /\ op \in {"merge", "clear", "discard", "cleanup", "mint", "handoff"} => JobFits(Job(op, t))
           /\ op \in {"land", "revert"} /\ t \in Task => JobFits(Job(op, t))
BY DEF Job, JobType, JobFits, Stage

\* A job behind the others, where the run is as it was.
LEMMA OnAsked ==
    ASSUME RunIsOn, Jobs, turn \in Seq(JobType), NEW job \in JobType, JobFits(job), job.at = "start",
           job.op \notin {"prepare", "prune"}, turn' = Append(turn, job), UNCHANGED <<run, saved>>
    PROVE  RunIsOn'
<1>1. /\ turn' \in Seq(JobType) /\ Len(turn') = Len(turn) + 1 /\ Len(turn) \in Nat
      /\ \A i \in 1..Len(turn) : turn'[i] = turn[i]
      /\ turn'[Len(turn) + 1] = job
      /\ turn # <<>> => Now' = Now
      /\ turn = <<>> => Now' = job
    BY GoesBehind, LenProperties
<1>2. \A i \in 1..Len(turn') : i \in 1..Len(turn) \/ i = Len(turn) + 1
    BY <1>1
<1>3. PreparesOn'
    <2> SUFFICES ASSUME NEW i \in 1..Len(turn'), turn'[i].op = "prepare", ~run.on
                 PROVE  \E j \in 1..i - 1 : turn'[j].op = "mint"
        BY DEF PreparesOn, MintedBefore
    <2>1. i \in 1..Len(turn) /\ turn[i].op = "prepare"
        BY <1>1, <1>2
    <2>2. PICK j \in 1..i - 1 : turn[j].op = "mint"
        BY <2>1 DEF RunIsOn, PreparesOn, MintedBefore
    <2>3. j \in 1..Len(turn)
        BY <1>1, <2>1, <2>2
    <2> QED BY <1>1, <2>2, <2>3
<1>5. OffIsEmpty(run)' /\ OffIsEmpty(saved.run)'
    BY DEF RunIsOn, OffIsEmpty
<1> QED BY <1>1, <1>3, <1>5 DEF RunIsOn

\* A job asked for stands behind the others and changes nothing else of the turn.
LEMMA AskedTyped ==
    ASSUME TypeInv, NEW job \in JobType, JobFits(job), job.at = "start", turn' = Append(turn, job),
           UNCHANGED <<git, admin, letting, wrote, gaveUp>>, run'.landing = run.landing,
           run' \in RunType, done' \in SUBSET Task, saved' \in [run : RunType, done : SUBSET Task],
           Tipped', AttemptTypes', RunIsOn'
    PROVE  TypeInv'
<1> USE DEF TypeInv
<1>0. turn \in Seq(JobType)
    BY DEF RecordTypes
<1>1. /\ Jobs' /\ turn' \in Seq(JobType) /\ turn' # <<>>
      /\ turn # <<>> => Now' = Now
      /\ turn = <<>> => Now' = job
    BY <1>0, JobIsAsked
<1>2. RecordTypes'
    BY <1>1 DEF RecordTypes
<1>3. GitTypes' /\ Written'
    BY GitStays
<1>4. CASE turn # <<>>
    <2>1. Before'
        BY <1>0, <1>1, <1>4, BeforeStays DEF git
    <2>2. Admins'
        <3>1. turn # <<>> /\ UnderAdmin(Now) /\ Now.at \notin {"admin", "remove"} => HoldsAdmin
            BY DEF Admins
        <3> QED BY <1>1, <1>4, <3>1, AdminsStay
    <2> QED BY <1>1, <1>2, <1>3, <2>1, <2>2
<1>5. CASE turn = <<>>
    <2>1. Before' /\ ~UnderAdmin(Now')
        BY <1>1, <1>5, NothingBefore
    <2>2. Admins'
        BY <1>5, <2>1, AdminsRest DEF Admins
    <2> QED BY <1>1, <1>2, <1>3, <2>1, <2>2
<1> QED BY <1>4, <1>5

\* A landing, a merge, a revert, or a clean-up is asked for.
LEMMA DrainTyped ==
    ASSUME TypeInv, Drain
    PROVE  TypeInv'
<1>1. /\ waiting # {} /\ turn' = Append(turn, Job("land", Lowest(waiting))) /\ waiting' = waiting \ {Lowest(waiting)}
      /\ UNCHANGED <<git, record, admin, letting, attempts, wrote, gaveUp, day>>
    BY DEF Drain, Same, today, history
<1>2. Lowest(waiting) \in Task
    BY <1>1, LowestIsIn, SomeTasks DEF TypeInv, AttemptTypes
<1>3. AttemptTypes'
    BY <1>1 DEF TypeInv, AttemptTypes, attempts
<1>4. Tipped'
    BY <1>1, TippedStays DEF TypeInv, git
<1>5. Job("land", Lowest(waiting)) \in JobType /\ JobFits(Job("land", Lowest(waiting)))
      /\ Job("land", Lowest(waiting)).at = "start" /\ Job("land", Lowest(waiting)).op = "land"
    BY <1>2, JobTyped
<1>6. RunIsOn'
    BY <1>1, <1>5, RecordKept, OnAsked DEF TypeInv, RecordTypes, attempts
<1> QED BY <1>1, <1>3, <1>4, <1>5, <1>6, RecordKept, AskedTyped

\* A merge or a clearing-up is asked for (mergeAll, discard, cleanup).
LEMMA AsksTyped ==
    ASSUME TypeInv, MergeAll \/ \E op \in {"discard", "cleanup"} : UserDiscards(op)
    PROVE  TypeInv'
<1>1. /\ \E op \in {"merge", "discard", "cleanup"} : turn' = Append(turn, Job(op, None))
      /\ UNCHANGED <<git, record, admin, waiting, letting, attempts, wrote, gaveUp, day>>
    BY DEF MergeAll, UserDiscards, Asks, May, history
<1>2. AttemptTypes' /\ Tipped'
    BY <1>1, AttemptsStay, TippedStays DEF TypeInv, git
<1>3. PICK op \in {"merge", "discard", "cleanup"} : turn' = Append(turn, Job(op, None))
    BY <1>1
<1>4. Job(op, None) \in JobType /\ JobFits(Job(op, None)) /\ Job(op, None).at = "start" /\ Job(op, None).op = op
    BY JobTyped
<1>5. RunIsOn'
    BY <1>1, <1>3, <1>4, RecordKept, OnAsked DEF TypeInv, RecordTypes, attempts
<1> QED BY <1>1, <1>2, <1>3, <1>4, <1>5, RecordKept, AskedTyped

\* A revert is asked for (revertTask).
LEMMA RevertTyped ==
    ASSUME TypeInv, NEW t \in Task, Revert(t)
    PROVE  TypeInv'
<1> DEFINE job == [Job("revert", t) EXCEPT !.asked = Takes(t)]
<1>1. /\ turn' = Append(turn, job)
      /\ UNCHANGED <<git, record, admin, waiting, letting, attempts, wrote, gaveUp, day>>
    BY DEF Revert, May, history
<1>2. AttemptTypes' /\ Tipped'
    BY <1>1, AttemptsStay, TippedStays DEF TypeInv, git
<1>3. Takes(t) \subseteq Task
    BY RunParts DEF TypeInv, RecordTypes, Takes, Taken, TaskWork
<1>4. job \in JobType /\ JobFits(job) /\ job.at = "start" /\ job.op = "revert"
    BY <1>3, JobTyped DEF Job, JobType, JobFits, Stage
<1> HIDE DEF job
<1>5. RunIsOn'
    BY <1>1, <1>4, RecordKept, OnAsked DEF TypeInv, RecordTypes, attempts
<1> QED BY <1>1, <1>5, <1>2, <1>4, RecordKept, AskedTyped

\* A run is closed and its handing over asked for (close).
LEMMA CloseTyped ==
    ASSUME TypeInv, Close
    PROVE  TypeInv'
<1>1. /\ open' = FALSE
      /\ UNCHANGED turn \/ \E op \in {"clear", "handoff"} : turn' = Append(turn, Job(op, None))
      /\ UNCHANGED <<git, record, admin, waiting, letting, phase, used, wrote, gaveUp, day>>
    BY DEF Close, Asks, May, history
<1>2. AttemptTypes' /\ Tipped'
    BY <1>1, TippedStays DEF TypeInv, AttemptTypes, git
<1>3. CASE UNCHANGED turn
    <2>1. Admins' /\ GitTypes' /\ Written'
        BY <1>1, <1>3, AdminsEven, GitStays DEF TypeInv
    <2>2. RunIsOn'
        BY <1>1, <1>3, OnSame
    <2> QED BY <1>1, <1>2, <1>3, <2>1, <2>2, RecordKept, OutOfTurn DEF git
<1>4. CASE \E op \in {"clear", "handoff"} : turn' = Append(turn, Job(op, None))
    <2>1. PICK op \in {"clear", "handoff"} : turn' = Append(turn, Job(op, None))
        BY <1>4
    <2>2. Job(op, None) \in JobType /\ JobFits(Job(op, None)) /\ Job(op, None).at = "start" /\ Job(op, None).op = op
        BY JobTyped
    <2>3. RunIsOn'
        BY <1>1, <2>1, <2>2, RecordKept, OnAsked DEF TypeInv, RecordTypes
    <2> QED BY <1>1, <1>2, <2>1, <2>2, <2>3, RecordKept, AskedTyped
<1> QED BY <1>1, <1>3, <1>4

\* A start that clears up before it has its own prepare right behind the mint.
LEMMA MintIsAsked ==
    ASSUME Jobs, turn \in Seq(JobType), NEW m \in JobType, NEW p \in JobType, JobFits(m), JobFits(p),
           m.op = "mint", p.op = "prepare", m.at = "start", p.at = "start", turn' = turn \o <<m, p>>
    PROVE  /\ Jobs' /\ turn' \in Seq(JobType) /\ turn' # <<>> /\ Len(turn') = Len(turn) + 2
           /\ \A i \in 1..Len(turn) : turn'[i] = turn[i]
           /\ turn'[Len(turn) + 1] = m /\ turn'[Len(turn) + 2] = p
           /\ turn # <<>> => Now' = Now
           /\ turn = <<>> => Now' = m
<1>0. Len(turn) \in Nat /\ <<m, p>> \in Seq(JobType) /\ Len(<<m, p>>) = 2
    BY LenProperties
<1>1. /\ turn' \in Seq(JobType) /\ Len(turn') = Len(turn) + 2
      /\ \A i \in 1..Len(turn) : turn'[i] = turn[i]
      /\ turn'[Len(turn) + 1] = m /\ turn'[Len(turn) + 2] = p
    BY <1>0
<1>2. turn' # <<>>
    BY <1>0, <1>1, EmptySeq
<1>3. ASSUME NEW i \in 1..Len(turn')
      PROVE  JobFits(turn'[i]) /\ (i # 1 => turn'[i].at = "start")
    <2>1. CASE i = Len(turn) + 1
        BY <1>0, <1>1, <2>1
    <2>2. CASE i = Len(turn) + 2
        BY <1>0, <1>1, <2>2
    <2>3. CASE i \in 1..Len(turn)
        BY <1>1, <2>3 DEF Jobs
    <2>4. i = Len(turn) + 1 \/ i = Len(turn) + 2 \/ i \in 1..Len(turn)
        BY <1>0, <1>1
    <2> QED BY <2>1, <2>2, <2>3, <2>4
<1>4. turn # <<>> => Now' = Now
    BY <1>0, <1>1, <1>2, HeadIsFirst DEF Now
<1>5. turn = <<>> => Now' = m
    BY <1>0, <1>1, <1>2, HeadIsFirst, EmptySeq DEF Now
<1> QED BY <1>1, <1>2, <1>3, <1>4, <1>5 DEF Jobs, JobFits, Stage

\* The run a start opens has nothing in it.
LEMMA FreshTyped ==
    /\ NoRun \in RunType /\ FreshRun \in RunType /\ NoRun.landing = NoLanding /\ FreshRun.landing = NoLanding
    /\ ~NoRun.on /\ FreshRun.on /\ NoRun.landings = {} /\ FreshRun.landings = {}
    /\ \A t \in Task : NoRun.status[t] = "none" /\ FreshRun.status[t] = "none"
BY DEF NoRun, FreshRun, RunType, Status

\* A start asks for its prepare, behind a mint where there is a run to clear up.
LEMMA StartTyped ==
    ASSUME TypeInv, NEW t \in Task, Start(t), ~SharesCheckout
    PROVE  TypeInv'
<1> USE DEF TypeInv
<1> DEFINE p == [Job("prepare", t) EXCEPT !.n = used[t] + 1]
           m == Job("mint", t)
<1>1. /\ phase' = [phase EXCEPT ![t] = "opening"] /\ used' = [used EXCEPT ![t] = @ + 1] /\ open' = TRUE
      /\ turn' = turn \o (IF Superseded THEN <<m, p>> ELSE <<p>>)
      /\ UNCHANGED done
      /\ IF open \/ run.on \/ InTurn({"mint"}) THEN UNCHANGED <<run, saved>> ELSE run' = FreshRun /\ Saves
      /\ UNCHANGED <<git, admin, waiting, letting, wrote, gaveUp, day>>
    BY DEF Start, InItsTurn, Same, today
<1>2. p \in JobType /\ JobFits(p) /\ p.op = "prepare" /\ p.at = "start"
    <2>1. used[t] + 1 \in Nat \ {0}
        BY DEF AttemptTypes
    <2> QED BY <2>1, JobTyped DEF Job, JobType, JobFits, Stage
<1>3. m \in JobType /\ JobFits(m) /\ m.op = "mint" /\ m.at = "start"
    BY JobTyped
<1> HIDE DEF p, m
<1>4. turn \in Seq(JobType) /\ Len(turn) \in Nat
    BY LenProperties DEF RecordTypes
<1>5. AttemptTypes'
    BY <1>1 DEF AttemptTypes, Phase
<1>6. GitTypes' /\ Written'
    BY <1>1, GitStays
<1>7. /\ run' \in RunType /\ done' \in SUBSET Task /\ run'.landing = run.landing
      /\ run.on => run'.on
      /\ run'.on \/ InTurn({"mint"})
    <2>1. CASE open \/ run.on \/ InTurn({"mint"})
        BY <1>1, <2>1 DEF RecordTypes, SharesCheckout
    <2>2. CASE ~(open \/ run.on \/ InTurn({"mint"}))
        BY <1>1, <2>2, FreshTyped DEF RecordTypes, RunIsOn, OffIsEmpty
    <2> QED BY <2>1, <2>2
<1>8. Tipped' /\ saved' \in [run : RunType, done : SUBSET Task]
    <2>1. CASE UNCHANGED <<run, saved>>
        BY <1>1, <2>1 DEF git, Tipped, RecordTypes
    <2>2. CASE Saves
        BY <1>1, <1>7, <2>2, SavesTipped DEF git
    <2> QED BY <1>1, <2>1, <2>2
<1>9. /\ turn' \in Seq(JobType) /\ turn' # <<>> /\ Jobs'
      /\ \E k \in {1, 2} :
            /\ Len(turn') = Len(turn) + k
            /\ turn'[Len(turn) + k] = p /\ (k = 2 => turn'[Len(turn) + 1] = m)
      /\ \A i \in 1..Len(turn) : turn'[i] = turn[i]
      /\ turn # <<>> => Now' = Now
      /\ turn = <<>> => Now'.at = "start" /\ Now'.op \in {"mint", "prepare"}
    <2>1. CASE Superseded
        BY <1>1, <1>2, <1>3, <1>4, <2>1, MintIsAsked
    <2>2. CASE ~Superseded
        <3>1. turn' = Append(turn, p)
            BY <1>1, <1>2, <1>4, <2>2
        <3> QED BY <1>2, <1>4, <3>1, JobIsAsked, GoesBehind
    <2> QED BY <2>1, <2>2
<1>10. PICK k \in {1, 2} : Len(turn') = Len(turn) + k /\ turn'[Len(turn) + k] = p /\ (k = 2 => turn'[Len(turn) + 1] = m)
    BY <1>9
<1>11. \A i \in 1..Len(turn') : i \in 1..Len(turn) \/ i = Len(turn) + k \/ (k = 2 /\ i = Len(turn) + 1)
    BY <1>4, <1>10
<1>12. ASSUME NEW i \in 1..Len(turn'), turn'[i].op = "prepare", ~run'.on
       PROVE  \E j \in 1..i - 1 : turn'[j].op = "mint"
    <2>1. CASE i \in 1..Len(turn)
        <3>1. turn[i].op = "prepare" /\ ~run.on
            BY <1>7, <1>9, <1>12, <2>1
        <3>2. PICK j \in 1..i - 1 : turn[j].op = "mint"
            BY <2>1, <3>1 DEF RunIsOn, PreparesOn, MintedBefore
        <3>3. j \in 1..Len(turn)
            BY <1>4, <2>1, <3>2
        <3> QED BY <1>9, <3>2, <3>3
    <2>2. CASE i = Len(turn) + k
        <3>1. PICK j \in 1..Len(turn) : turn[j].op = "mint"
            BY <1>7, <1>12 DEF InTurn
        <3>2. j \in 1..i - 1
            BY <1>4, <1>10, <2>2, <3>1
        <3> QED BY <1>9, <3>1, <3>2
    <2>3. CASE k = 2 /\ i = Len(turn) + 1
        BY <1>3, <1>10, <1>12, <2>3
    <2> QED BY <1>11, <2>1, <2>2, <2>3
<1>13. RunIsOn'
    <2>1. PreparesOn'
        BY <1>12 DEF PreparesOn, MintedBefore
    <2>2. OffIsEmpty(run)' /\ OffIsEmpty(saved.run)'
        BY <1>1, <1>7, FreshTyped DEF RunIsOn, OffIsEmpty, Saves
    <2> QED BY <1>7, <1>9, <2>1, <2>2 DEF RunIsOn
<1>14. RecordTypes'
    BY <1>7, <1>8, <1>9 DEF RecordTypes
<1>15. Before' /\ Admins'
    <2>1. CASE turn # <<>>
        <3>1. Before'
            BY <1>1, <1>4, <1>7, <1>9, <2>1, BeforeStays DEF git
        <3>2. Admins'
            <4>1. turn # <<>> /\ UnderAdmin(Now) /\ Now.at \notin {"admin", "remove"} => HoldsAdmin
                BY DEF Admins
            <4> QED BY <1>1, <1>9, <2>1, <4>1, AdminsStay
        <3> QED BY <3>1, <3>2
    <2>2. CASE turn = <<>>
        <3>1. Before' /\ ~UnderAdmin(Now')
            BY <1>9, <2>2, NothingBefore
        <3> QED BY <1>1, <2>2, <3>1, AdminsRest DEF Admins
    <2> QED BY <2>1, <2>2
<1> QED BY <1>5, <1>6, <1>8, <1>9, <1>13, <1>14, <1>15

\* One whose run was cleared from under those at work asks for nothing and changes nothing of the run.
LEMMA StartsAstrayTyped ==
    ASSUME TypeInv, NEW t \in Task, Start(t), SharesCheckout
    PROVE  TypeInv'
<1>1. /\ phase' = [phase EXCEPT ![t] = "astray"] /\ used' = [used EXCEPT ![t] = @ + 1] /\ open' = TRUE
      /\ UNCHANGED <<git, run, done, saved, turn, admin, waiting, letting, wrote, gaveUp, day>>
    BY DEF Start, Same, today, SharesCheckout
<1>2. AttemptTypes'
    BY <1>1 DEF TypeInv, AttemptTypes, Phase
<1>3. UNCHANGED record
    BY <1>1 DEF record
<1>4. Admins' /\ GitTypes' /\ Written' /\ Tipped' /\ RunIsOn'
    BY <1>1, <1>3, AdminsEven, GitStays, TippedStays, OnSame DEF TypeInv, git
<1> QED BY <1>1, <1>2, <1>3, <1>4, RecordKept, OutOfTurn DEF git

-----------------------------------------------------------------------------
(* Steps of the job under way: it goes on, or is over.                      *)

\* The run while a job goes on.
LEMMA OnGoesOn ==
    ASSUME RunIsOn, Jobs, turn \in Seq(JobType), turn # <<>>, NEW job \in JobType, Goes(job), job.op = Now.op,
           run'.on = run.on, OffIsEmpty(run'), UNCHANGED saved \/ saved'.run = run',
           job.op = "land" /\ job.at \in {"merge", "record", "remove"} => run.on
    PROVE  RunIsOn'
<1>1. /\ turn' \in Seq(JobType) /\ Len(turn') = Len(turn) /\ Now' = job /\ turn'[1] = job
      /\ \A i \in 2..Len(turn) : turn'[i] = turn[i]
    BY GoesOn
<1>2. Now = turn[1] /\ Len(turn) \in Nat \ {0}
    BY NowFits
<1>3. ASSUME NEW i \in 1..Len(turn') PROVE turn'[i].op = turn[i].op
    BY <1>1, <1>2
<1>4. PreparesOn'
    <2> SUFFICES ASSUME NEW i \in 1..Len(turn'), turn'[i].op = "prepare", ~run'.on
                 PROVE  \E j \in 1..i - 1 : turn'[j].op = "mint"
        BY DEF PreparesOn, MintedBefore
    <2>1. PICK j \in 1..i - 1 : turn[j].op = "mint"
        BY <1>1, <1>3 DEF RunIsOn, PreparesOn, MintedBefore
    <2>2. j \in 1..Len(turn')
        BY <1>1, <1>2, <2>1
    <2> QED BY <1>3, <2>1, <2>2
<1>5. OffIsEmpty(run)' /\ OffIsEmpty(saved.run)'
    BY DEF RunIsOn, OffIsEmpty
<1> QED BY <1>1, <1>4, <1>5 DEF RunIsOn

\* The run when a job is over, which a mint is only with the run it opens.
LEMMA OnIsOver ==
    ASSUME RunIsOn, Jobs, turn \in Seq(JobType), turn # <<>>, turn' = Tail(turn), Now.op # "mint",
           run'.on = run.on, OffIsEmpty(run'), UNCHANGED saved \/ saved'.run = run'
    PROVE  RunIsOn'
<1>1. /\ turn' \in Seq(JobType) /\ Len(turn') = Len(turn) - 1 /\ Len(turn) \in Nat \ {0}
      /\ \A i \in 1..Len(turn') : turn'[i] = turn[i + 1] /\ i + 1 \in 1..Len(turn)
    BY GoesOver, NowFits
<1>3. PreparesOn'
    <2> SUFFICES ASSUME NEW i \in 1..Len(turn'), turn'[i].op = "prepare", ~run'.on
                 PROVE  \E j \in 1..i - 1 : turn'[j].op = "mint"
        BY DEF PreparesOn, MintedBefore
    <2>1. PICK j \in 1..(i + 1) - 1 : turn[j].op = "mint"
        BY <1>1 DEF RunIsOn, PreparesOn, MintedBefore
    <2>2. j # 1
        BY <2>1, NowFits
    <2>3. j - 1 \in 1..i - 1 /\ j - 1 \in 1..Len(turn') /\ (j - 1) + 1 = j
        BY <1>1, <2>1, <2>2
    <2> QED BY <1>1, <2>1, <2>3
<1>4. turn' # <<>> => Now'.at = "start" /\ Now'.op # "prune"
    <2>1. Jobs' /\ (turn' # <<>> => Now'.at = "start")
        BY JobIsOver
    <2>2. turn' # <<>> => JobFits(turn'[1]) /\ Now' = turn'[1]
        BY <1>1, <2>1, HeadIsFirst, GoesOver DEF Jobs, JobFits, Stage
    <2> QED BY <2>1, <2>2 DEF JobFits, Stage
<1>5. OffIsEmpty(run)' /\ OffIsEmpty(saved.run)'
    BY DEF RunIsOn, OffIsEmpty
<1> QED BY <1>3, <1>4, <1>5 DEF RunIsOn

\* A job goes on.
LEMMA GoesOnTyped ==
    ASSUME TypeInv, turn # <<>>, NEW job \in JobType, Goes(job), JobFits(job),
           job.op = Now.op, UNCHANGED <<attempts, waiting, letting, day>>,
           run' \in RunType, done' \in SUBSET Task, saved' \in [run : RunType, done : SUBSET Task],
           GitTypes', Written', Tipped', Now' = job => Before' /\ Admins',
           run'.on = run.on, OffIsEmpty(run'), UNCHANGED saved \/ saved'.run = run',
           job.op = "land" /\ job.at \in {"merge", "record", "remove"} => run.on
    PROVE  TypeInv'
<1>1. turn \in Seq(JobType)
    BY DEF TypeInv, RecordTypes
<1>2. Jobs' /\ turn' \in Seq(JobType) /\ Now' = job
    BY <1>1, JobGoesOn DEF TypeInv
<1>3. RunIsOn'
    BY <1>1, OnGoesOn DEF TypeInv, attempts
<1>4. AttemptTypes'
    BY AttemptsStay DEF TypeInv
<1>5. RecordTypes'
    BY <1>2 DEF RecordTypes
<1> QED BY <1>2, <1>3, <1>4, <1>5 DEF TypeInv

\* A job is over.
LEMMA IsOverTyped ==
    ASSUME TypeInv, turn # <<>>, Now.op # "mint", Over, AttemptTypes',
           run' \in RunType, done' \in SUBSET Task, saved' \in [run : RunType, done : SUBSET Task],
           GitTypes', Written', Tipped',
           \/ UNCHANGED <<admin, letting>> /\ ~UnderAdmin(Now)
           \/ admin' = Tail(admin) /\ HoldsAdmin /\ \A t \in Task : letting[t] # "no" => letting'[t] # "no",
           run'.on = run.on, OffIsEmpty(run'), UNCHANGED saved \/ saved'.run = run'
    PROVE  TypeInv'
<1>1. turn \in Seq(JobType) /\ turn' = Tail(turn)
    BY DEF TypeInv, RecordTypes, Over
<1>2. Jobs' /\ turn' \in Seq(JobType) /\ (turn' # <<>> => Now'.at = "start")
    BY <1>1, JobIsOver DEF TypeInv
<1>3. RunIsOn'
    BY <1>1, OnIsOver DEF TypeInv
<1>4. Before' /\ (turn' # <<>> => ~UnderAdmin(Now'))
    BY <1>2, NothingBefore
<1>5. RecordTypes'
    BY <1>2 DEF RecordTypes
<1>6. Admins'
    <2>1. Turn \in InSeq(admin) <=> UnderAdmin(Now)
        BY TurnInAdmin DEF TypeInv
    <2> QED BY <1>4, <2>1, AdminsRest, AdminsLeft DEF TypeInv
<1> QED BY <1>2, <1>3, <1>4, <1>5, <1>6 DEF TypeInv

\* The job under way and the record where it leaves that alone.
LEMMA UnderwayTyped ==
    ASSUME TypeInv, NEW ops, NEW at, Underway(ops, at)
    PROVE  /\ turn # <<>> /\ turn \in Seq(JobType) /\ Now \in JobType /\ JobFits(Now)
           /\ Now.op \in ops /\ Now.at = at
           /\ Turn \in InSeq(admin) <=> UnderAdmin(Now)
           /\ OffIsEmpty(run) /\ OffIsEmpty(saved.run)
BY NowFits, TurnInAdmin DEF TypeInv, RecordTypes, Underway, RunIsOn

\* A job is let in to admin, or asks.
LEMMA AsksAdminTyped ==
    ASSUME TypeInv, AsksAdmin
    PROVE  TypeInv'
<1> DEFINE job == [Now EXCEPT !.at = "admin"]
<1>1. /\ admin' = Append(admin, Turn) /\ Goes(job)
      /\ UNCHANGED <<git, record, waiting, letting, attempts, wrote, gaveUp, day>>
    BY DEF AsksAdmin, Same, today, history
<1>2. /\ turn # <<>> /\ Now \in JobType /\ JobFits(Now) /\ Now.op \in MakesOrRemoves /\ Now.at = "start"
      /\ OffIsEmpty(run)
      /\ Turn \in InSeq(admin) <=> UnderAdmin(Now)
    BY UnderwayTyped DEF AsksAdmin
<1>3. /\ job \in JobType /\ job.op = Now.op /\ job.task = Now.task /\ job.n = Now.n /\ job.at = "admin"
    BY <1>2 DEF JobType
<1>4. JobFits(job)
    BY <1>2, <1>3 DEF JobFits, Stage, MakesOrRemoves
<1> HIDE DEF job
<1>5. GitTypes' /\ Written' /\ Tipped'
    BY <1>1, GitStays, TippedStays DEF TypeInv, git
<1>6. turn' # <<>>
    BY <1>1, <1>2, <1>3, GoesOn DEF TypeInv, RecordTypes
<1>7. ASSUME Now' = job PROVE Before' /\ Admins'
    <2>1. Before'
        BY <1>2, <1>3, <1>7 DEF Before, MakesOrRemoves
    <2>2. UnderAdmin(Now') /\ Turn \notin InSeq(admin)
        BY <1>2, <1>3, <1>7 DEF UnderAdmin, MakesOrRemoves
    <2> QED BY <1>1, <1>3, <1>6, <1>7, <2>1, <2>2, AdminsAsked DEF TypeInv
<1> QED BY <1>1, <1>2, <1>3, <1>4, <1>5, <1>7, RecordKept, GoesOnTyped

\* A prepare removes what an attempt before left (clearLeftovers).
LEMMA ReplacesTyped ==
    ASSUME TypeInv, Replaces
    PROVE  TypeInv'
<1> DEFINE job == [Now EXCEPT !.at = "cut"]
<1>1. /\ HoldsAdmin
      /\ kept' = kept \cup PreservedOf({Now.task})
      /\ tree' = [tree EXCEPT ![Now.task].there = FALSE]
      /\ run' = [run EXCEPT !.status[Now.task] = "none"]
      /\ Goes(job)
      /\ UNCHANGED <<line, head, iwt, held, done, saved, admin, waiting, letting, attempts, wrote, gaveUp, day>>
    BY DEF Replaces, Same, today, history, Exposes
<1>2. /\ turn # <<>> /\ Now \in JobType /\ JobFits(Now) /\ Now.op = "prepare" /\ Now.at = "admin"
      /\ OffIsEmpty(run)
    BY UnderwayTyped DEF Replaces
<1>3. /\ job \in JobType /\ job.op = Now.op /\ job.task = Now.task /\ job.n = Now.n /\ job.at = "cut"
    BY <1>2 DEF JobType
<1>4. JobFits(job) /\ Now.task \in Task
    BY <1>2, <1>3 DEF JobFits, Stage
<1> HIDE DEF job
<1>5. run' \in RunType /\ run'.landing = run.landing /\ run'.on = run.on /\ OffIsEmpty(run')
    <2>1. run \in RunType
        BY DEF TypeInv, RecordTypes
    <2>2. run' \in RunType /\ run'.landing = run.landing
        BY <1>1, <1>4, <2>1, OneStatusSet DEF Status
    <2>3. OffIsEmpty(run')
        BY <1>1, <1>2, <1>4, <2>1 DEF OffIsEmpty, RunType
    <2> QED BY <1>1, <2>1, <2>2, <2>3 DEF RunType
<1>6. GitTypes' /\ Written'
    <2>1. kept' \subseteq wrote
        BY <1>1, <1>4, PreservedWritten DEF TypeInv, GitTypes
    <2>2. tree' = [u \in Task |-> IF u \in {Now.task} THEN [tree[u] EXCEPT !.there = FALSE] ELSE tree[u]]
        BY <1>1, <1>4, TreeGoes DEF TypeInv
    <2> QED BY <1>1, <1>4, <2>1, <2>2, TreesGo DEF TypeInv
<1>7. Tipped' /\ done' \in SUBSET Task /\ saved' \in [run : RunType, done : SUBSET Task]
    BY <1>1, <1>5 DEF TypeInv, Tipped, RecordTypes
<1>8. turn' # <<>>
    BY <1>1, <1>2, <1>3, GoesOn DEF TypeInv, RecordTypes
<1>9. ASSUME Now' = job PROVE Before' /\ Admins'
    <2>1. Before'
        BY <1>2, <1>3, <1>9 DEF Before
    <2>2. UnderAdmin(Now') /\ UnderAdmin(Now)
        BY <1>2, <1>3, <1>9 DEF UnderAdmin, MakesOrRemoves
    <2> QED BY <1>1, <1>2, <1>8, <2>1, <2>2, AdminsStay DEF TypeInv
<1> QED BY <1>1, <1>2, <1>3, <1>4, <1>5, <1>6, <1>7, <1>9, GoesOnTyped

\* A prepare cuts a worktree from the tip of the branch (prepare).
LEMMA CutsTyped ==
    ASSUME TypeInv, Cuts
    PROVE  TypeInv'
<1> DEFINE t == Now.task
           new == [n |-> Now.n, there |-> TRUE, work |-> {}, base |-> [r \in Repo |-> Len(line[r])]]
<1>1. /\ tree' = [tree EXCEPT ![t] = new]
      /\ run' = [run EXCEPT !.status[t] = "active"]
      /\ phase' = [phase EXCEPT ![t] = "starting"] \/ phase' = phase
      /\ letting' = letting \/ letting' = [letting EXCEPT ![t] = "drop"]
      /\ Over /\ admin' = Tail(admin)
      /\ UNCHANGED <<line, head, iwt, held, kept, done, saved, waiting, used, open, wrote, gaveUp, day>>
    BY DEF Cuts, Same, today, history
<1>2. /\ turn # <<>> /\ Now \in JobType /\ JobFits(Now) /\ Now.op = "prepare" /\ Now.at = "cut"
      /\ OffIsEmpty(run) /\ turn \in Seq(JobType)
    BY UnderwayTyped DEF Cuts
<1>3. t \in Task /\ Now.n \in Nat \ {0}
    BY <1>2 DEF JobFits, JobType
<1>4. HoldsAdmin
    BY <1>2 DEF TypeInv, Admins, UnderAdmin, MakesOrRemoves
<1>5. run.on
    <2>1. Now = turn[1] /\ 1 \in 1..Len(turn)
        BY <1>2, HeadIsFirst DEF Now
    <2> QED BY <1>2, <2>1 DEF TypeInv, RunIsOn, PreparesOn, MintedBefore
<1>6. run' \in RunType /\ run'.landing = run.landing /\ run'.on = run.on /\ OffIsEmpty(run')
    <2>1. run \in RunType
        BY DEF TypeInv, RecordTypes
    <2>2. run' \in RunType /\ run'.landing = run.landing
        BY <1>1, <1>3, <2>1, OneStatusSet DEF Status
    <2> QED BY <1>1, <1>5, <2>1, <2>2 DEF RunType, OffIsEmpty
<1>7. new \in TreeType /\ new.n # 0 /\ new.work = {}
    BY <1>3, LenProperties DEF TypeInv, GitTypes, TreeType
<1> HIDE DEF new, t
<1>8. GitTypes' /\ Written'
    <2>1. tree' \in [Task -> TreeType] /\ \A u \in Task : tree'[u] = IF u = t THEN new ELSE tree[u]
        BY <1>1, <1>3, <1>7 DEF TypeInv, GitTypes
    <2> QED BY <1>1, <1>7, <2>1 DEF TypeInv, GitTypes, Written, history
<1>9. Tipped' /\ done' \in SUBSET Task /\ saved' \in [run : RunType, done : SUBSET Task]
    BY <1>1, <1>6 DEF TypeInv, Tipped, RecordTypes
<1>10. AttemptTypes' /\ \A u \in Task : letting[u] # "no" => letting'[u] # "no"
    BY <1>1, <1>3 DEF TypeInv, AttemptTypes, Phase
<1> QED BY <1>1, <1>2, <1>4, <1>6, <1>8, <1>9, <1>10, IsOverTyped

\* What a job leaves that changes neither git nor the record.
LEMMA RestStays ==
    ASSUME TypeInv, UNCHANGED <<git, record, wrote, gaveUp>>
    PROVE  /\ GitTypes' /\ Written' /\ Tipped'
           /\ run' \in RunType /\ done' \in SUBSET Task /\ saved' \in [run : RunType, done : SUBSET Task]
           /\ run' = run /\ UNCHANGED saved /\ OffIsEmpty(run')
<1>1. GitTypes' /\ Written' /\ Tipped'
    BY GitStays, TippedStays DEF TypeInv, git
<1> QED BY <1>1, RecordKept DEF TypeInv, RunIsOn, OffIsEmpty

\* The tips of the landing on the record are of repositories.
LEMMA TipsTyped ==
    ASSUME TypeInv
    PROVE  Tips \subseteq Repo /\ \A r \in Tips : run.landing.tips[r] \in Nat /\ run.landing.tips[r] <= Len(line[r])
<1>1. run.landing \in Landing \cup {NoLanding}
    BY RunParts DEF TypeInv, RecordTypes
<1>2. CASE run.landing = NoLanding
    BY <1>2, NoTips DEF Tips
<1>3. CASE run.landing \in Landing
    BY <1>3, LandingParts DEF Tips, TypeInv, Tipped
<1> QED BY <1>1, <1>2, <1>3

\* A merge, a landing or a revert finds a landing on the record and takes it back first.
LEMMA SettlesFirstTyped ==
    ASSUME TypeInv, SettlesFirst
    PROVE  TypeInv'
<1> DEFINE job == [Now EXCEPT !.at = "settle", !.todo = Tips, !.stuck = {}]
<1>1. /\ run.landing # NoLanding /\ Goes(job)
      /\ UNCHANGED <<git, record, admin, waiting, letting, attempts, wrote, gaveUp, day>>
    BY DEF SettlesFirst, Settles, PartLeft, Same, today, history
<1>2. /\ turn # <<>> /\ Now \in JobType /\ JobFits(Now) /\ Now.op \in {"land", "merge", "revert"} /\ Now.at = "start"
    BY UnderwayTyped DEF SettlesFirst
<1>3. /\ job \in JobType /\ job.op = Now.op /\ job.task = Now.task /\ job.n = Now.n /\ job.at = "settle" /\ job.todo = Tips
    BY <1>2, TipsTyped DEF JobType
<1>4. JobFits(job)
    BY <1>2, <1>3 DEF JobFits, Stage
<1> HIDE DEF job
<1>5. turn' # <<>>
    BY <1>1, <1>2, <1>3, GoesOn DEF TypeInv, RecordTypes
<1>6. ASSUME Now' = job PROVE Before' /\ Admins'
    <2>1. Before'
        BY <1>1, <1>2, <1>3, <1>6, RecordKept DEF Before, Tips
    <2>2. ~UnderAdmin(Now') /\ ~UnderAdmin(Now)
        BY <1>2, <1>3, <1>6 DEF UnderAdmin, MakesOrRemoves
    <2> QED BY <1>1, <1>2, <1>5, <2>1, <2>2, AdminsStay DEF TypeInv
<1> QED BY <1>1, <1>2, <1>3, <1>4, <1>6, RestStays, GoesOnTyped

\* A landing begins with what the attempt changed (land).
LEMMA LandBeginsTyped ==
    ASSUME TypeInv, LandBegins
    PROVE  TypeInv'
<1>1. PICK o \in {"merged", "failed"} : Goes([Now EXCEPT !.at = "over", !.out = o])
    BY DEF LandBegins
<1> DEFINE job == [Now EXCEPT !.at = "over", !.out = o]
<1>2. UNCHANGED <<git, record, admin, waiting, letting, attempts, wrote, gaveUp, day>>
    BY DEF LandBegins, Same, today, history
<1>3. turn # <<>> /\ Now \in JobType /\ JobFits(Now) /\ Now.op = "land" /\ Now.at = "start"
    BY UnderwayTyped DEF LandBegins
<1>4. /\ job \in JobType /\ job.op = Now.op /\ job.task = Now.task /\ job.n = Now.n /\ job.at = "over"
    BY <1>3 DEF JobType
<1>5. JobFits(job)
    BY <1>3, <1>4 DEF JobFits, Stage
<1>6. Goes(job)
    BY <1>1
<1> HIDE DEF job
<1>7. turn' # <<>>
    BY <1>6, <1>3, <1>4, GoesOn DEF TypeInv, RecordTypes
<1>8. ASSUME Now' = job PROVE Before' /\ Admins'
    <2>1. Before'
        BY <1>3, <1>4, <1>8 DEF Before
    <2>2. ~UnderAdmin(Now') /\ ~UnderAdmin(Now)
        BY <1>3, <1>4, <1>8 DEF UnderAdmin, MakesOrRemoves
    <2> QED BY <1>2, <1>3, <1>7, <2>1, <2>2, AdminsStay DEF TypeInv
<1> QED BY <1>2, <1>3, <1>4, <1>5, <1>6, <1>8, RestStays, GoesOnTyped

\* A landing writes the tips of what it is to move on the record, and saves it, before it moves any (land).
LEMMA JournalsTyped ==
    ASSUME TypeInv, Journals
    PROVE  TypeInv'
<1> DEFINE t == Now.task
           L == [task |-> t, tips |-> [r \in Unlanded(t) |-> Len(line[r])], reverts |-> FALSE, made |-> [r \in Unlanded(t) |-> <<>>]]
<1>1. /\ UNCHANGED <<git, admin, waiting, letting, attempts, wrote, gaveUp, day>>
      /\ run.landing = NoLanding /\ run.status[t] # "none"
    BY DEF Journals, PartLeft, Same, today, history
<1>2. turn # <<>> /\ Now \in JobType /\ JobFits(Now) /\ Now.op = "land" /\ Now.at = "start" /\ t \in Task
    BY UnderwayTyped DEF Journals, JobFits
<1>3. \A job \in JobType : Goes(job) => turn' # <<>>
    BY <1>2, GoesOn DEF TypeInv, RecordTypes
<1>4. ASSUME NEW job \in JobType, Now' = job, job.op = "land", job.at \in {"over", "record", "merge"}, Goes(job) PROVE Admins'
    <2>1. ~UnderAdmin(Now') /\ ~UnderAdmin(Now)
        BY <1>2, <1>4 DEF UnderAdmin, MakesOrRemoves
    <2> QED BY <1>1, <1>2, <1>3, <1>4, <2>1, AdminsStay DEF TypeInv
<1>5. CASE UNCHANGED record /\ Goes([Now EXCEPT !.at = "over", !.out = "failed"])
    <2> DEFINE job == [Now EXCEPT !.at = "over", !.out = "failed"]
    <2>1. job \in JobType /\ job.op = "land" /\ job.task = Now.task /\ job.n = Now.n /\ job.at = "over"
        BY <1>2 DEF JobType
    <2>2. JobFits(job) /\ Goes(job)
        BY <1>2, <1>5, <2>1 DEF JobFits, Stage
    <2> HIDE DEF job
    <2>3. Now' = job => Before'
        BY <2>1 DEF Before
    <2> QED BY <1>1, <1>2, <1>4, <1>5, <2>1, <2>2, <2>3, RestStays, GoesOnTyped
<1>6. CASE UNCHANGED record /\ Goes([Now EXCEPT !.at = "record"])
    <2> DEFINE job == [Now EXCEPT !.at = "record"]
    <2>1. job \in JobType /\ job.op = "land" /\ job.task = Now.task /\ job.n = Now.n /\ job.at = "record"
        BY <1>2 DEF JobType
    <2>2. JobFits(job) /\ Goes(job)
        BY <1>2, <1>6, <2>1 DEF JobFits, Stage
    <2> HIDE DEF job
    <2>3. Tips' = {} /\ run' = run
        BY <1>1, <1>6, NoTips, RecordKept DEF Tips
    <2>4. Now' = job => Before'
        BY <2>1, <2>3 DEF Before
    <2>5. run.on
        BY <1>1, <1>2 DEF TypeInv, RunIsOn, OffIsEmpty
    <2> QED BY <1>1, <1>2, <1>4, <1>6, <2>1, <2>2, <2>4, <2>5, RestStays, GoesOnTyped
<1>7. CASE /\ Unlanded(t) # {} /\ run' = [run EXCEPT !.landing = L] /\ UNCHANGED done /\ Saves
           /\ Goes([Now EXCEPT !.at = "merge", !.todo = Unlanded(t)])
    <2> DEFINE job == [Now EXCEPT !.at = "merge", !.todo = Unlanded(t)]
    <2>0. Unlanded(t) \subseteq Repo /\ Unlanded(t) \subseteq tree[t].work
        BY <1>2 DEF TypeInv, GitTypes, TreeType, Unlanded
    <2>1. job \in JobType /\ job.op = "land" /\ job.task = Now.task /\ job.n = Now.n /\ job.at = "merge" /\ job.todo = Unlanded(t)
        BY <1>2, <2>0 DEF JobType
    <2>2. JobFits(job) /\ Goes(job)
        BY <1>2, <1>7, <2>1 DEF JobFits, Stage
    <2> HIDE DEF job
    <2>3. L \in Landing /\ L # NoLanding /\ DOMAIN L.tips = Unlanded(t) /\ \A r \in Unlanded(t) : L.tips[r] = Len(line[r])
        <3>1. /\ [r \in Unlanded(t) |-> Len(line[r])] \in [Unlanded(t) -> Nat]
              /\ [r \in Unlanded(t) |-> <<>>] \in [Unlanded(t) -> Seq(RevertCommit)]
            BY <2>0, LenProperties DEF TypeInv, GitTypes
        <3> QED BY <1>2, <2>0, <3>1, LandingOfParts
    <2> HIDE DEF L
    <2>4. run' \in RunType /\ run'.landing = L /\ run'.on = run.on /\ run'.status = run.status
        BY <1>7, <2>3, LandingSet DEF TypeInv, RecordTypes, RunType
    <2>5. run.on /\ OffIsEmpty(run')
        BY <1>1, <1>2, <2>4 DEF TypeInv, RunIsOn, OffIsEmpty
    <2>6. done' \in SUBSET Task /\ saved' \in [run : RunType, done : SUBSET Task] /\ saved'.run = run'
        BY <1>7, <2>4 DEF Saves, TypeInv, RecordTypes
    <2>7. UNCHANGED <<line, tree>>
        BY <1>1 DEF git
    <2>8. Tipped'
        <3>1. \A r \in Repo : Len(line[r]) \in Nat
            BY LenProperties DEF TypeInv, GitTypes
        <3> QED BY <2>0, <2>3, <2>4, <2>6, <2>7, <3>1 DEF Tipped
    <2>9. Now' = job => Before'
        <3>1. Tips' = Unlanded(t)
            BY <2>3, <2>4 DEF Tips
        <3> QED BY <1>7, <2>0, <2>1, <2>3, <2>4, <2>7, <3>1 DEF Before
    <2>10. GitTypes' /\ Written'
        BY <1>1, GitStays DEF TypeInv
    <2> QED BY <1>1, <1>2, <1>4, <2>1, <2>2, <2>4, <2>5, <2>6, <2>8, <2>9, <2>10, GoesOnTyped
<1> QED BY <1>5, <1>6, <1>7 DEF Journals, JournalSaves

\* A line back at where it was.
LEMMA LineBack ==
    ASSUME GitTypes, NEW r \in Repo, NEW k \in Nat, k <= Len(line[r]), line' = [line EXCEPT ![r] = SubSeq(@, 1, k)]
    PROVE  /\ line' \in [Repo -> Seq(Commit)]
           /\ \A x \in Repo : x # r => line'[x] = line[x]
           /\ Len(line'[r]) = k /\ \A i \in 1..k : line'[r][i] = line[r][i]
<1>1. line \in [Repo -> Seq(Commit)] /\ line[r] \in Seq(Commit) /\ Len(line[r]) \in Nat
    BY LenProperties DEF GitTypes
<1>2. line'[r] = SubSeq(line[r], 1, k) /\ \A x \in Repo : x # r => line'[x] = line[x]
    BY <1>1
<1>3. /\ SubSeq(line[r], 1, k) \in Seq(Commit) /\ Len(SubSeq(line[r], 1, k)) = k
      /\ \A i \in 1..k : SubSeq(line[r], 1, k)[i] = line[r][i]
    BY <1>1, SubSeqProperties
<1> QED BY <1>1, <1>2, <1>3

\* One repository is put back to its tip, or is found stuck (settleLanding).
LEMMA SettlesRepoTyped ==
    ASSUME TypeInv, SettlesRepo
    PROVE  TypeInv'
<1> DEFINE r == Lowest(Now.todo)
<1>1. /\ turn # <<>> /\ Now.at = "settle" /\ Now.todo # {}
      /\ line' = line \/ line' = [line EXCEPT ![r] = SubSeq(@, 1, run.landing.tips[r])]
      /\ \E S \in {Now.stuck, Now.stuck \cup {r}} : Goes([Now EXCEPT !.todo = @ \ {r}, !.stuck = S])
      /\ UNCHANGED <<head, iwt, held, tree, kept, record, admin, waiting, letting, attempts, wrote, gaveUp, day>>
    BY DEF SettlesRepo, May, Same, today, history
<1>2. turn \in Seq(JobType) /\ Now \in JobType /\ JobFits(Now)
    BY <1>1, NowFits DEF TypeInv, RecordTypes
<1>3. run.landing # NoLanding /\ Now.todo \subseteq Tips /\ Tips \subseteq Repo
    BY <1>1, TipsTyped DEF TypeInv, Before
<1>4. r \in Tips /\ r \in Repo /\ run.landing.tips[r] \in Nat /\ run.landing.tips[r] <= Len(line[r])
    BY <1>1, <1>3, LowestRepo, TipsTyped
<1>5. PICK S \in {Now.stuck, Now.stuck \cup {r}} : Goes([Now EXCEPT !.todo = Now.todo \ {r}, !.stuck = S])
    BY <1>1
<1> DEFINE job == [Now EXCEPT !.todo = Now.todo \ {r}, !.stuck = S]
<1>6. /\ job \in JobType /\ job.op = Now.op /\ job.task = Now.task /\ job.n = Now.n /\ job.at = "settle"
      /\ job.todo = Now.todo \ {r}
    BY <1>1, <1>2, <1>4 DEF JobType
<1>7. JobFits(job) /\ Goes(job)
    BY <1>1, <1>2, <1>5, <1>6 DEF JobFits, Stage
<1> HIDE DEF job, r
<1>8. turn' # <<>>
    BY <1>1, <1>2, <1>6, <1>7, GoesOn
<1>9. /\ line' \in [Repo -> Seq(Commit)]
      /\ \A x \in Repo : Len(line'[x]) <= Len(line[x]) /\ \A i \in 1..Len(line'[x]) : line'[x][i] = line[x][i]
      /\ \A x \in Tips : run.landing.tips[x] <= Len(line'[x])
    <2>1. \A x \in Repo : Len(line[x]) \in Nat
        BY LenProperties DEF TypeInv, GitTypes
    <2>2. \A x \in Tips : run.landing.tips[x] <= Len(line[x])
        BY TipsTyped
    <2>3. CASE line' = line
        BY <2>1, <2>2, <2>3 DEF TypeInv, GitTypes
    <2>4. CASE line' = [line EXCEPT ![r] = SubSeq(@, 1, run.landing.tips[r])]
        <3>1. /\ line' \in [Repo -> Seq(Commit)]
              /\ \A x \in Repo : x # r => line'[x] = line[x]
              /\ Len(line'[r]) = run.landing.tips[r] /\ \A i \in 1..run.landing.tips[r] : line'[r][i] = line[r][i]
            BY <1>4, <2>4, LineBack DEF TypeInv
        <3>2. ASSUME NEW x \in Repo, x # r
              PROVE  Len(line'[x]) <= Len(line[x]) /\ \A i \in 1..Len(line'[x]) : line'[x][i] = line[x][i]
            BY <2>1, <3>1, <3>2
        <3>3. Len(line'[r]) <= Len(line[r]) /\ \A i \in 1..Len(line'[r]) : line'[r][i] = line[r][i]
            BY <1>4, <3>1
        <3>4. ASSUME NEW x \in Tips PROVE run.landing.tips[x] <= Len(line'[x])
            <4>1. CASE x = r
                BY <1>4, <3>1, <4>1
            <4>2. CASE x # r
                BY <1>3, <2>2, <3>1, <4>2
            <4> QED BY <4>1, <4>2
        <3> QED BY <3>1, <3>2, <3>3, <3>4
    <2> QED BY <1>1, <2>3, <2>4
<1>10. GitTypes'
    BY <1>1, <1>9 DEF TypeInv, GitTypes, history
<1>11. Written'
    <2> SUFFICES ASSUME NEW x \in Repo, NEW i \in 1..Len(line'[x]), line'[x][i].by # "revert"
                 PROVE  WorkOf(line'[x][i], x) \in wrote
        BY <1>1 DEF TypeInv, Written, history
    <2>1. Len(line[x]) \in Nat /\ Len(line'[x]) \in Nat
        BY <1>9, LenProperties DEF TypeInv, GitTypes
    <2>2. i \in 1..Len(line[x]) /\ line'[x][i] = line[x][i]
        BY <1>9, <2>1
    <2> QED BY <2>2 DEF TypeInv, Written
<1>12. run' = run /\ saved' = saved
    BY <1>1, RecordKept
<1>13. Tipped'
    BY <1>3, <1>9, <1>12 DEF TypeInv, Tipped, Tips
<1>14. ASSUME Now' = job PROVE Before' /\ Admins'
    <2>0. Tips' = Tips
        BY <1>12 DEF Tips
    <2>1. Before'
        BY <1>3, <1>6, <1>12, <1>14, <2>0 DEF Before
    <2>2. UnderAdmin(Now') <=> UnderAdmin(Now)
        BY <1>1, <1>6, <1>14 DEF UnderAdmin, MakesOrRemoves
    <2>3. UnderAdmin(Now) => HoldsAdmin
        BY <1>1 DEF TypeInv, Admins
    <2> QED BY <1>1, <1>8, <2>1, <2>2, <2>3, AdminsStay DEF TypeInv
<1>15. OffIsEmpty(run')
    BY <1>12 DEF TypeInv, RunIsOn
<1> QED BY <1>1, <1>6, <1>7, <1>10, <1>11, <1>12, <1>13, <1>14, <1>15, RecordKept, GoesOnTyped

\* The taking back ends; the landing leaves the record if none is stuck (stopLanding).
LEMMA SettleOverTyped ==
    ASSUME TypeInv, SettleOver
    PROVE  TypeInv'
<1>1. /\ turn # <<>> /\ Now.at = "settle"
      /\ run' = run \/ run' = [run EXCEPT !.landing = NoLanding]
      /\ UNCHANGED <<git, done, saved, admin, waiting, letting, attempts, wrote, gaveUp, day>>
    BY DEF SettleOver, Same, today, history
<1>2. turn \in Seq(JobType) /\ Now \in JobType /\ JobFits(Now)
    BY <1>1, NowFits DEF TypeInv, RecordTypes
<1>3. /\ run' \in RunType /\ run'.on = run.on /\ OffIsEmpty(run') /\ done' \in SUBSET Task
      /\ saved' \in [run : RunType, done : SUBSET Task] /\ UNCHANGED saved
    BY <1>1 DEF TypeInv, RecordTypes, RunType, RunIsOn, OffIsEmpty
<1>4. GitTypes' /\ Written' /\ Tipped'
    <2>1. run'.landing = run.landing \/ run'.landing = NoLanding
        BY <1>1 DEF TypeInv, RecordTypes, RunType
    <2>2. Tipped'
        BY <1>1, <2>1 DEF TypeInv, Tipped, git
    <2> QED BY <1>1, <2>2, GitStays DEF TypeInv
<1>5. /\ Now.op \in {"handoff", "prune", "land", "merge", "revert"}
      /\ UnderAdmin(Now) <=> Now.op \in {"handoff", "prune"}
    BY <1>1, <1>2 DEF JobFits, Stage, UnderAdmin, MakesOrRemoves
<1>6. CASE /\ Over /\ Now.op \in {"land", "merge", "revert"}
    <2>1. AttemptTypes'
        BY <1>1, AttemptsStay DEF TypeInv
    <2> QED BY <1>1, <1>3, <1>4, <1>5, <1>6, <2>1, IsOverTyped DEF attempts
<1>7. ASSUME NEW at \in {"over", "sweep", "start"}, NEW o \in {Now.out, "failed"}, Goes([Now EXCEPT !.at = at, !.out = o]),
             at = "over" => Now.op = "handoff" \/ (Now.op = "land" /\ o # "ok"), at = "sweep" => Now.op = "prune",
             at = "start" => Now.op \in {"land", "merge", "revert"}
      PROVE  TypeInv'
    <2> DEFINE job == [Now EXCEPT !.at = at, !.out = o]
    <2>1. job \in JobType /\ job.op = Now.op /\ job.task = Now.task /\ job.n = Now.n /\ job.at = at /\ job.out = o
        BY <1>2, <1>7 DEF JobType
    <2>2. JobFits(job) /\ Goes(job)
        BY <1>2, <1>7, <2>1 DEF JobFits, Stage
    <2> HIDE DEF job
    <2>3. turn' # <<>>
        BY <1>1, <1>2, <2>1, <2>2, GoesOn
    <2>4. ASSUME Now' = job PROVE Before' /\ Admins'
        <3>1. Before'
            BY <2>1, <2>4 DEF Before
        <3>2. UnderAdmin(Now') <=> UnderAdmin(Now)
            BY <1>5, <1>7, <2>1, <2>4 DEF UnderAdmin, MakesOrRemoves
        <3>3. UnderAdmin(Now) => HoldsAdmin
            BY <1>1 DEF TypeInv, Admins
        <3> QED BY <1>1, <2>3, <3>1, <3>2, <3>3, AdminsStay DEF TypeInv
    <2>5. job.op = "land" => job.at \notin {"merge", "record", "remove"}
        BY <2>1
    <2> QED BY <1>1, <1>3, <1>4, <2>1, <2>2, <2>4, <2>5, GoesOnTyped
<1>8. \/ Now.op = "handoff" /\ Goes([Now EXCEPT !.at = "over"])
      \/ Now.op = "prune" /\ Goes([Now EXCEPT !.at = "sweep"])
      \/ Now.op \in {"land", "merge", "revert"} /\ Goes([Now EXCEPT !.at = "start"])
      \/ Now.op = "land" /\ \E o \in {Now.out, "failed"} : o # "ok" /\ Goes([Now EXCEPT !.at = "over", !.out = o])
      \/ Now.op \in {"land", "merge", "revert"} /\ Over
    BY <1>5 DEF SettleOver, StillStuck
<1>9. \A at : [Now EXCEPT !.at = at] = [Now EXCEPT !.at = at, !.out = Now.out]
    BY <1>2 DEF JobType
<1> QED BY <1>6, <1>7, <1>8, <1>9

\* A line one longer, of what was written.
LEMMA GrowsTyped ==
    ASSUME TypeInv, NEW r \in Repo, NEW c \in Commit, line' = [line EXCEPT ![r] = Append(@, c)],
           c.by # "revert" => WorkOf(c, r) \in wrote, UNCHANGED <<head, held, tree, kept, record, wrote, gaveUp>>,
           iwt' \subseteq iwt \cup {r}, iwt' = iwt \/ r \notin held
    PROVE  /\ GitTypes' /\ Written' /\ Tipped'
           /\ run' \in RunType /\ done' \in SUBSET Task /\ saved' \in [run : RunType, done : SUBSET Task]
           /\ run' = run /\ UNCHANGED saved /\ OffIsEmpty(run')
<1>1. /\ line' \in [Repo -> Seq(Commit)]
      /\ \A x \in Repo : Len(line[x]) <= Len(line'[x])
      /\ \A x \in Repo : x # r => line'[x] = line[x]
      /\ Len(line'[r]) = Len(line[r]) + 1 /\ line'[r][Len(line[r]) + 1] = c
      /\ \A i \in 1..Len(line[r]) : line'[r][i] = line[r][i]
    BY LineGrows DEF TypeInv
<1>2. \A x \in Repo : Len(line[x]) \in Nat /\ Len(line'[x]) \in Nat
    BY <1>1, LenProperties DEF TypeInv, GitTypes
<1>3. GitTypes'
    BY <1>1 DEF TypeInv, GitTypes, history
<1>4. Written'
    <2> SUFFICES ASSUME NEW x \in Repo, NEW i \in 1..Len(line'[x]), line'[x][i].by # "revert"
                 PROVE  WorkOf(line'[x][i], x) \in wrote
        BY DEF TypeInv, Written, history
    <2>1. CASE x = r /\ i = Len(line[r]) + 1
        BY <1>1, <2>1
    <2>2. CASE x # r \/ i \in 1..Len(line[r])
        BY <1>1, <2>2 DEF TypeInv, Written
    <2> QED BY <1>1, <1>2, <2>1, <2>2
<1>5. run' = run /\ saved' = saved
    BY RecordKept
<1>6. Tipped'
    <2>1. \A x \in DOMAIN saved.run.landing.tips : x \in Repo /\ saved.run.landing.tips[x] \in Nat
        BY LandingParts, NoTips DEF TypeInv, RecordTypes, RunType
    <2> QED BY <1>1, <1>2, <1>5, <2>1 DEF TypeInv, Tipped
<1> QED BY <1>3, <1>4, <1>5, <1>6, RecordKept DEF TypeInv, RunIsOn, OffIsEmpty

\* A landing or a revert that did not go through settles what it left.
LEMMA SettlesTyped ==
    ASSUME TypeInv, turn # <<>>, Now.op \in {"land", "revert"}, Now.at # "remove", run.landing # NoLanding,
           NEW o \in {"failed", "conflict", "refused"}, o = "refused" => Now.op = "revert", Settles([Now EXCEPT !.out = o]),
           UNCHANGED <<admin, waiting, letting, attempts, record, day>>, GitTypes', Written', Tipped'
    PROVE  TypeInv'
<1> DEFINE job == [[Now EXCEPT !.out = o] EXCEPT !.at = "settle", !.todo = Tips, !.stuck = {}]
<1>1. Goes(job)
    BY DEF Settles
<1>2. turn \in Seq(JobType) /\ Now \in JobType /\ JobFits(Now)
    BY NowFits DEF TypeInv, RecordTypes
<1>3. /\ job \in JobType /\ job.op = Now.op /\ job.task = Now.task /\ job.n = Now.n /\ job.at = "settle" /\ job.todo = Tips
      /\ job.out = o
    BY <1>2, TipsTyped DEF JobType
<1>4. JobFits(job)
    BY <1>2, <1>3 DEF JobFits, Stage
<1> HIDE DEF job
<1>5. turn' # <<>>
    BY <1>1, <1>2, <1>3, GoesOn
<1>6. run' = run /\ UNCHANGED saved
    BY RecordKept
<1>7. ASSUME Now' = job PROVE Before' /\ Admins'
    <2>1. Before'
        BY <1>3, <1>6, <1>7 DEF Before, Tips
    <2>2. ~UnderAdmin(Now') /\ ~UnderAdmin(Now)
        BY <1>3, <1>7 DEF UnderAdmin, MakesOrRemoves
    <2> QED BY <1>5, <2>1, <2>2, AdminsStay DEF TypeInv
<1>8. OffIsEmpty(run')
    BY <1>6 DEF TypeInv, RunIsOn
<1> QED BY <1>1, <1>3, <1>4, <1>6, <1>7, <1>8, RecordKept, GoesOnTyped

\* A landing merges the task in one repository (mergeTask).
LEMMA MergesTaskTyped ==
    ASSUME TypeInv, MergesTask
    PROVE  TypeInv'
<1> DEFINE t == Now.task
           r == Lowest(Now.todo)
           c == Merge(t, tree[t].n)
<1>1. UNCHANGED <<head, held, tree, kept, record, admin, waiting, letting, attempts, wrote, gaveUp, day>>
    BY DEF MergesTask, Same, today, history
<1>2. /\ turn # <<>> /\ Now \in JobType /\ JobFits(Now) /\ Now.op = "land" /\ Now.at = "merge" /\ t \in Task
      /\ turn \in Seq(JobType)
    BY UnderwayTyped DEF MergesTask, JobFits
<1>3. run.landing # NoLanding /\ Now.todo # {} /\ Now.todo \subseteq Tips /\ Tips \subseteq Repo /\ Tips \subseteq tree[t].work
    BY <1>2, TipsTyped DEF TypeInv, Before
<1>4. r \in Now.todo /\ r \in Repo /\ r \in Tips
    BY <1>3, LowestRepo
<1>5. <<t, tree[t].n, r>> \in wrote
    BY <1>2, <1>3, <1>4 DEF TypeInv, Written
<1>6. c \in Commit /\ c.by = "merge" /\ WorkOf(c, r) = <<t, tree[t].n, r>>
    <2>1. <<t, tree[t].n, r>> \in Work
        BY <1>5 DEF TypeInv, GitTypes
    <2>2. tree[t].n \in Nat \ {0}
        BY <2>1 DEF Work, WorkOf, UserCommit
    <2> QED BY <1>2, <2>2 DEF Merge, Commit, WorkOf
<1> HIDE DEF r, c
<1>7. CASE /\ r \notin held /\ line' = [line EXCEPT ![r] = Append(@, c)] /\ iwt' = iwt \cup {r}
           /\ \/ Settles([Now EXCEPT !.out = "failed"])
              \/ Goes([Now EXCEPT !.todo = @ \ {r}, !.at = IF Now.todo = {r} THEN "record" ELSE @])
    <2>1. /\ GitTypes' /\ Written' /\ Tipped'
          /\ run' \in RunType /\ done' \in SUBSET Task /\ saved' \in [run : RunType, done : SUBSET Task]
          /\ run' = run /\ UNCHANGED saved /\ OffIsEmpty(run')
        BY <1>1, <1>4, <1>5, <1>6, <1>7, GrowsTyped
    <2>2. CASE Settles([Now EXCEPT !.out = "failed"])
        BY <1>1, <1>2, <1>3, <2>1, <2>2, SettlesTyped
    <2>3. CASE Goes([Now EXCEPT !.todo = @ \ {r}, !.at = IF Now.todo = {r} THEN "record" ELSE @])
        <3> DEFINE job == [Now EXCEPT !.todo = Now.todo \ {r}, !.at = IF Now.todo = {r} THEN "record" ELSE Now.at]
        <3>1. /\ job \in JobType /\ job.op = Now.op /\ job.task = t /\ job.n = Now.n
              /\ job.at = IF Now.todo = {r} THEN "record" ELSE "merge"
              /\ job.todo = Now.todo \ {r}
            BY <1>2 DEF JobType
        <3>2. JobFits(job) /\ Goes(job)
            BY <1>2, <2>3, <3>1 DEF JobFits, Stage
        <3> HIDE DEF job
        <3>3. turn' # <<>>
            BY <1>2, <3>1, <3>2, GoesOn
        <3>4. ASSUME Now' = job PROVE Before' /\ Admins'
            <4>1. Tips' = Tips /\ tree' = tree
                BY <1>1, <2>1 DEF Tips
            <4>2. Before'
                BY <1>2, <1>3, <1>4, <2>1, <3>1, <3>4, <4>1 DEF Before
            <4>3. ~UnderAdmin(Now') /\ ~UnderAdmin(Now)
                BY <1>2, <3>1, <3>4 DEF UnderAdmin, MakesOrRemoves
            <4> QED BY <1>1, <1>2, <3>3, <4>2, <4>3, AdminsStay DEF TypeInv
        <3>5. run.on
            BY <1>2 DEF TypeInv, RunIsOn
        <3> QED BY <1>1, <1>2, <2>1, <3>1, <3>2, <3>4, <3>5, GoesOnTyped
    <2> QED BY <1>7, <2>2, <2>3
<1>8. CASE \E o \in {"failed", "conflict"} :
                Settles([Now EXCEPT !.out = o]) /\ UNCHANGED line /\ (iwt' = iwt \/ (r \notin held /\ iwt' = iwt \cup {r}))
    <2>1. GitTypes' /\ Written' /\ Tipped'
        BY <1>1, <1>4, <1>8, TippedStays DEF TypeInv, GitTypes, Written, history
    <2> QED BY <1>1, <1>2, <1>3, <1>8, <2>1, SettlesTyped
<1> QED BY <1>7, <1>8 DEF MergesTask, MayMerge, r, c

\* A landing's end is put on the record (land).
LEMMA RecordsTyped ==
    ASSUME TypeInv, Records
    PROVE  TypeInv'
<1> DEFINE t == Now.task
           job == [Now EXCEPT !.at = "remove", !.out = "merged"]
           S == IF run.landing = NoLanding THEN {} ELSE {<<t, tree[t].n, r>> : r \in Tips}
<1>1. /\ run' = [run EXCEPT !.landing = NoLanding, !.status[t] = IF @ = "none" THEN @ ELSE "merged", !.landings = @ \cup S]
      /\ admin' = Append(admin, Turn) /\ Goes(job)
      /\ UNCHANGED <<git, done, saved, waiting, letting, attempts, wrote, gaveUp, day>>
    BY DEF Records, Same, today, history
<1>2. /\ turn # <<>> /\ Now \in JobType /\ JobFits(Now) /\ Now.op = "land" /\ Now.at = "record" /\ t \in Task
      /\ turn \in Seq(JobType) /\ (Turn \in InSeq(admin) <=> UnderAdmin(Now))
    BY UnderwayTyped DEF Records, JobFits
<1>3. job \in JobType /\ job.op = Now.op /\ job.task = Now.task /\ job.n = Now.n /\ job.at = "remove"
    BY <1>2 DEF JobType
<1>4. JobFits(job)
    BY <1>2, <1>3 DEF JobFits, Stage
<1> HIDE DEF job
<1>5. S \subseteq TaskWork
    <2> SUFFICES ASSUME NEW r \in Tips PROVE <<t, tree[t].n, r>> \in TaskWork
        BY DEF S
    <2>1. r \in tree[t].work /\ r \in Repo
        BY <1>2, TipsTyped DEF TypeInv, Before
    <2>2. <<t, tree[t].n, r>> \in Work
        BY <1>2, <2>1 DEF TypeInv, Written, GitTypes
    <2> QED BY <1>2, <2>1, <2>2 DEF Work, TaskWork, WorkOf, UserCommit
<1> HIDE DEF S
<1>6. run.on
    BY <1>2 DEF TypeInv, RunIsOn
<1>7. run' \in RunType /\ run'.landing = NoLanding /\ run'.on = run.on /\ OffIsEmpty(run')
    <2>1. run \in RunType
        BY DEF TypeInv, RecordTypes
    <2>2. run' = [run EXCEPT !.landing = NoLanding, !.status = [run.status EXCEPT ![t] = IF @ = "none" THEN @ ELSE "merged"], !.landings = run.landings \cup S]
        BY <1>1, <2>1 DEF RunType
    <2>3. [run.status EXCEPT ![t] = IF @ = "none" THEN @ ELSE "merged"] \in [Task -> Status]
        BY <1>2, <2>1 DEF RunType, Status
    <2>4. run' \in RunType /\ run'.landing = NoLanding /\ run'.on = run.on
        BY <1>5, <2>1, <2>2, <2>3 DEF RunType
    <2> QED BY <1>6, <2>4 DEF OffIsEmpty
<1>8. GitTypes' /\ Written' /\ Tipped' /\ done' \in SUBSET Task /\ saved' \in [run : RunType, done : SUBSET Task]
    BY <1>1, <1>7, GitStays DEF TypeInv, Tipped, RecordTypes, git
<1>9. turn' # <<>>
    BY <1>1, <1>2, <1>3, GoesOn
<1>10. ASSUME Now' = job PROVE Before' /\ Admins'
    <2>1. Before'
        BY <1>2, <1>3, <1>10 DEF Before
    <2>2. UnderAdmin(Now') /\ Turn \notin InSeq(admin)
        BY <1>2, <1>3, <1>10 DEF UnderAdmin, MakesOrRemoves
    <2> QED BY <1>1, <1>3, <1>9, <1>10, <2>1, <2>2, AdminsAsked DEF TypeInv
<1> QED BY <1>1, <1>2, <1>3, <1>4, <1>6, <1>7, <1>8, <1>10, GoesOnTyped

\* The landed worktree is removed under admin (removeTask).
LEMMA RemovesLandedTyped ==
    ASSUME TypeInv, RemovesLanded
    PROVE  TypeInv'
<1> DEFINE job == [Now EXCEPT !.at = "over"]
<1>1. /\ HoldsAdmin /\ admin' = Tail(admin) /\ Goes(job)
      /\ kept' = kept \cup PreservedOf({Now.task})
      /\ tree' = [tree EXCEPT ![Now.task].there = FALSE]
      /\ UNCHANGED <<line, head, iwt, held, record, waiting, letting, attempts, wrote, gaveUp, day>>
    BY DEF RemovesLanded, Same, today, history
<1>2. /\ turn # <<>> /\ Now \in JobType /\ JobFits(Now) /\ Now.op = "land" /\ Now.at = "remove" /\ Now.task \in Task
      /\ turn \in Seq(JobType) /\ OffIsEmpty(run)
    BY UnderwayTyped DEF RemovesLanded, JobFits
<1>3. job \in JobType /\ job.op = Now.op /\ job.task = Now.task /\ job.n = Now.n /\ job.at = "over"
    BY <1>2 DEF JobType
<1>4. JobFits(job)
    BY <1>2, <1>3 DEF JobFits, Stage
<1> HIDE DEF job
<1>5. GitTypes' /\ Written'
    <2>1. kept' \subseteq wrote
        BY <1>1, <1>2, PreservedWritten DEF TypeInv, GitTypes
    <2>2. tree' = [u \in Task |-> IF u \in {Now.task} THEN [tree[u] EXCEPT !.there = FALSE] ELSE tree[u]]
        BY <1>1, <1>2, TreeGoes DEF TypeInv
    <2> QED BY <1>1, <1>2, <2>1, <2>2, TreesGo DEF TypeInv
<1>6. Tipped'
    BY <1>1, TippedStays DEF TypeInv
<1>7. ASSUME Now' = job PROVE Before' /\ Admins'
    <2>1. Before'
        BY <1>2, <1>3, <1>7 DEF Before
    <2>2. ~UnderAdmin(Now')
        BY <1>2, <1>3, <1>7 DEF UnderAdmin, MakesOrRemoves
    <2> QED BY <1>1, <2>1, <2>2, AdminsLeft DEF TypeInv
<1> QED BY <1>1, <1>2, <1>3, <1>4, <1>5, <1>6, <1>7, RecordKept, GoesOnTyped

\* The run is saved with the landing (integrate).
LEMMA LandOverTyped ==
    ASSUME TypeInv, LandOver
    PROVE  TypeInv'
<1> DEFINE t == Now.task
<1>1. /\ run' = run \/ (run.status[t] # "none" /\ Now.out # "merged" /\ run' = [run EXCEPT !.status[t] = Now.out])
      /\ done' = done \cup {t} \/ done' = done
      /\ phase' = [phase EXCEPT ![t] = "rest"] \/ phase' = [phase EXCEPT ![t] = @]
      /\ Saves /\ Over
      /\ UNCHANGED <<git, admin, waiting, letting, used, open, wrote, gaveUp, day>>
    BY DEF LandOver, Same, today, history
<1>2. /\ turn # <<>> /\ Now \in JobType /\ JobFits(Now) /\ Now.op = "land" /\ Now.at = "over" /\ t \in Task
      /\ OffIsEmpty(run)
    BY UnderwayTyped DEF LandOver, JobFits
<1>3. run' \in RunType /\ run'.landing = run.landing /\ run'.on = run.on /\ OffIsEmpty(run')
    <2>1. run \in RunType
        BY DEF TypeInv, RecordTypes
    <2>2. CASE run' = run
        BY <1>2, <2>1, <2>2
    <2>3. CASE run.status[t] # "none" /\ Now.out # "merged" /\ run' = [run EXCEPT !.status[t] = Now.out]
        <3>1. Now.out \in Status
            BY <1>2, <2>3 DEF JobFits, JobType, Status
        <3>2. run' \in RunType /\ run'.landing = run.landing
            BY <1>2, <2>1, <2>3, <3>1, OneStatusSet
        <3>3. run.on /\ run'.on = run.on
            BY <1>2, <2>1, <2>3 DEF OffIsEmpty, RunType
        <3> QED BY <3>2, <3>3 DEF OffIsEmpty
    <2> QED BY <1>1, <2>2, <2>3
<1>4. done' \in SUBSET Task
    BY <1>1, <1>2 DEF TypeInv, RecordTypes
<1>5. Tipped' /\ saved' \in [run : RunType, done : SUBSET Task] /\ saved'.run = run'
    BY <1>1, <1>3, <1>4, SavesTipped DEF TypeInv, git, Saves
<1>6. AttemptTypes'
    BY <1>1, <1>2 DEF TypeInv, AttemptTypes, Phase
<1>7. GitTypes' /\ Written'
    BY <1>1, GitStays DEF TypeInv
<1>8. ~UnderAdmin(Now)
    BY <1>2 DEF UnderAdmin, MakesOrRemoves
<1> QED BY <1>1, <1>2, <1>3, <1>4, <1>5, <1>6, <1>7, <1>8, IsOverTyped

-----------------------------------------------------------------------------
(* Merges into the user's branch, and what clears up.                       *)

\* A merge into the user's branch is judged (mergeAll).
LEMMA MergeJudgedTyped ==
    ASSUME TypeInv, MergeJudged
    PROVE  TypeInv'
<1> DEFINE job == [Now EXCEPT !.at = "merge", !.todo = {r \in Repo : ~InSeq(line[r]) \subseteq head[r]}]
<1>1. UNCHANGED <<git, record, admin, waiting, letting, attempts, wrote, gaveUp, day>>
    BY DEF MergeJudged, Same, today, history
<1>2. turn # <<>> /\ Now \in JobType /\ JobFits(Now) /\ Now.op = "merge" /\ Now.at = "start" /\ turn \in Seq(JobType)
    BY UnderwayTyped DEF MergeJudged
<1>3. CASE Over
    <2>1. AttemptTypes'
        BY <1>1, AttemptsStay DEF TypeInv
    <2>2. ~UnderAdmin(Now)
        BY <1>2 DEF UnderAdmin, MakesOrRemoves
    <2> QED BY <1>1, <1>2, <1>3, <2>1, <2>2, RestStays, IsOverTyped DEF attempts
<1>4. CASE Goes(job)
    <2>1. /\ job \in JobType /\ job.op = Now.op /\ job.task = Now.task /\ job.n = Now.n /\ job.at = "merge"
          /\ job.todo \subseteq Repo
        BY <1>2 DEF JobType
    <2>2. JobFits(job)
        BY <1>2, <2>1 DEF JobFits, Stage
    <2> HIDE DEF job
    <2>3. turn' # <<>>
        BY <1>2, <1>4, <2>1, GoesOn
    <2>4. ASSUME Now' = job PROVE Before' /\ Admins'
        <3>1. Before'
            BY <1>2, <2>1, <2>4 DEF Before
        <3>2. ~UnderAdmin(Now') /\ ~UnderAdmin(Now)
            BY <1>2, <2>1, <2>4 DEF UnderAdmin, MakesOrRemoves
        <3> QED BY <1>1, <1>2, <2>3, <3>1, <3>2, AdminsStay DEF TypeInv
    <2> QED BY <1>1, <1>2, <1>4, <2>1, <2>2, <2>4, RestStays, GoesOnTyped
<1> QED BY <1>3, <1>4 DEF MergeJudged

\* One repository is merged into the user's branch (mergeInTurn).
LEMMA MergesRepoTyped ==
    ASSUME TypeInv, MergesRepo
    PROVE  TypeInv'
<1> DEFINE r == Lowest(Now.todo)
           job == [Now EXCEPT !.todo = @ \ {r}]
<1>1. /\ UNCHANGED <<line, iwt, held, tree, kept, record, admin, waiting, letting, attempts, wrote, gaveUp, day>>
      /\ \/ head' = [head EXCEPT ![r] = @ \cup InSeq(line[r])] /\ Goes(job)
         \/ Over /\ UNCHANGED head
      /\ Now.todo # {}
    BY DEF MergesRepo, May, Same, today, history
<1>2. turn # <<>> /\ Now \in JobType /\ JobFits(Now) /\ Now.op = "merge" /\ Now.at = "merge" /\ turn \in Seq(JobType)
    BY UnderwayTyped DEF MergesRepo
<1>3. Now.todo \subseteq Repo /\ r \in Repo
    BY <1>1, <1>2, LowestRepo DEF TypeInv, Before
<1>4. GitTypes' /\ Written' /\ Tipped'
    <2>1. InSeq(line[r]) \subseteq Commit
        BY <1>3 DEF TypeInv, GitTypes, InSeq
    <2>2. head' \in [Repo -> SUBSET Commit]
        BY <1>1, <1>3, <2>1 DEF TypeInv, GitTypes
    <2> QED BY <1>1, <2>2, TippedStays DEF TypeInv, GitTypes, Written, history
<1>5. run' = run /\ UNCHANGED saved /\ OffIsEmpty(run')
    BY <1>1, RecordKept DEF TypeInv, RunIsOn
<1>6. ~UnderAdmin(Now)
    BY <1>2 DEF UnderAdmin, MakesOrRemoves
<1>7. CASE Over
    <2>1. AttemptTypes'
        BY <1>1, AttemptsStay DEF TypeInv
    <2> QED BY <1>1, <1>2, <1>4, <1>5, <1>6, <1>7, <2>1, RecordKept, IsOverTyped DEF attempts
<1>8. CASE Goes(job)
    <2>1. /\ job \in JobType /\ job.op = Now.op /\ job.task = Now.task /\ job.n = Now.n /\ job.at = "merge"
          /\ job.todo \subseteq Repo
        BY <1>2, <1>3 DEF JobType
    <2>2. JobFits(job)
        BY <1>2, <2>1 DEF JobFits, Stage
    <2> HIDE DEF job
    <2>3. turn' # <<>>
        BY <1>2, <1>8, <2>1, GoesOn
    <2>4. ASSUME Now' = job PROVE Before' /\ Admins'
        <3>1. Before'
            BY <1>2, <2>1, <2>4 DEF Before
        <3>2. ~UnderAdmin(Now')
            BY <1>2, <2>1, <2>4 DEF UnderAdmin, MakesOrRemoves
        <3> QED BY <1>1, <1>2, <1>6, <2>3, <3>1, <3>2, AdminsStay DEF TypeInv
    <2> QED BY <1>1, <1>2, <1>4, <1>5, <1>8, <2>1, <2>2, <2>4, RecordKept, GoesOnTyped
<1> QED BY <1>1, <1>7, <1>8

\* A sequence without its first and with another behind.
LEMMA TailAppend ==
    ASSUME NEW S, NEW s \in Seq(S), s # <<>>, NEW x \in S
    PROVE  /\ Append(Tail(s), x) \in Seq(S) /\ Len(Append(Tail(s), x)) = Len(s) /\ Len(s) \in Nat \ {0}
           /\ \A i \in 1..Len(s) - 1 : Append(Tail(s), x)[i] = s[i + 1]
           /\ Append(Tail(s), x)[Len(s)] = x
           /\ Tail(s) \o <<x>> = Append(Tail(s), x) /\ Tail(s) \o <<>> = Tail(s)
<1>1. /\ Tail(s) \in Seq(S) /\ Len(Tail(s)) = Len(s) - 1 /\ Len(s) \in Nat \ {0}
      /\ \A i \in 1..Len(s) - 1 : Tail(s)[i] = s[i + 1]
    BY HeadTailProperties, LenProperties, EmptySeq
<1>2. Tail(s) \o <<x>> = Append(Tail(s), x) /\ Tail(s) \o <<>> = Tail(s)
    BY <1>1
<1> DEFINE u == Tail(s)
<1>3. u \in Seq(S) /\ Len(u) = Len(s) - 1
    BY <1>1
<1> HIDE DEF u
<1>4. /\ Append(u, x) \in Seq(S) /\ Len(Append(u, x)) = Len(u) + 1
      /\ \A i \in 1..Len(u) : Append(u, x)[i] = u[i]
      /\ Append(u, x)[Len(u) + 1] = x
    BY <1>3, AppendProperties
<1>5. Len(u) + 1 = Len(s) /\ 1..Len(u) = 1..Len(s) - 1
    BY <1>1, <1>3
<1>6. \A i \in 1..Len(s) - 1 : Append(u, x)[i] = s[i + 1]
    BY <1>1, <1>4, <1>5 DEF u
<1> QED BY <1>1, <1>2, <1>4, <1>5, <1>6 DEF u

\* The clear behind a merge that is over.
LEMMA ClearIsAsked ==
    ASSUME Jobs, RunIsOn, turn \in Seq(JobType), turn # <<>>, NEW job \in JobType, JobFits(job),
           job.op = "clear", job.at = "start", Now.op # "mint", turn' = Append(Tail(turn), job),
           UNCHANGED run, saved'.run = run'
    PROVE  Jobs' /\ turn' \in Seq(JobType) /\ turn' # <<>> /\ Now'.at = "start" /\ RunIsOn'
<1> DEFINE N == Len(turn)
<1>1. N \in Nat \ {0} /\ N = Len(turn)
    BY NowFits
<1>3. /\ turn' \in Seq(JobType) /\ Len(turn') = N
      /\ \A i \in 1..N - 1 : turn'[i] = turn[i + 1]
      /\ turn'[N] = job
    BY TailAppend
<1> HIDE DEF N
<1>12. \A i \in 1..N - 1 : i + 1 \in 2..N /\ i + 1 \in 1..N /\ i + 1 # 1 /\ i # N /\ i \in Int
    BY <1>1
<1>4. \A i \in 1..N : i \in 1..N - 1 \/ i = N
    BY <1>1
<1>5. ASSUME NEW i \in 1..N
      PROVE  JobFits(turn'[i]) /\ turn'[i].at = "start"
    <2>1. CASE i = N
        BY <1>3, <2>1
    <2>2. CASE i \in 1..N - 1
        BY <1>1, <1>3, <1>12, <2>2 DEF Jobs
    <2> QED BY <1>4, <2>1, <2>2
<1>6. Jobs'
    BY <1>3, <1>5 DEF Jobs, JobFits, Stage
<1>7. turn' # <<>> /\ Now' = turn'[1] /\ 1 \in 1..N
    <2>1. turn' # <<>>
        BY <1>1, <1>3, EmptySeq
    <2> QED BY <1>3, <2>1, HeadIsFirst DEF Now
<1>8. Now'.at = "start" /\ Now'.op # "prune"
    BY <1>5, <1>7 DEF JobFits, Stage
<1>9. PreparesOn'
    <2> SUFFICES ASSUME NEW i \in 1..N, turn'[i].op = "prepare", ~run.on PROVE \E j \in 1..i - 1 : turn'[j].op = "mint"
        BY <1>3 DEF PreparesOn, MintedBefore
    <2>1. i \in 1..N - 1 /\ i + 1 \in 1..N /\ turn'[i] = turn[i + 1]
        BY <1>3, <1>4, <1>12
    <2>2. PICK j \in 1..(i + 1) - 1 : turn[j].op = "mint"
        BY <1>1, <2>1 DEF RunIsOn, PreparesOn, MintedBefore
    <2>3. j # 1
        BY <2>2, NowFits
    <2>4. j - 1 \in 1..i - 1 /\ j - 1 \in 1..N - 1 /\ (j - 1) + 1 = j
        BY <1>1, <2>1, <2>2, <2>3
    <2> QED BY <1>3, <2>2, <2>4
<1>11. OffIsEmpty(run)' /\ OffIsEmpty(saved.run)'
    BY DEF RunIsOn, OffIsEmpty
<1> QED BY <1>3, <1>6, <1>7, <1>8, <1>9, <1>11 DEF RunIsOn

\* A merge ends, and a clear is asked for if all is merged (clearMerged).
LEMMA MergeOverTyped ==
    ASSUME TypeInv, MergeOver
    PROVE  TypeInv'
<1> DEFINE job == Job("clear", None)
<1>1. /\ UNCHANGED <<run, done>> /\ Saves
      /\ UNCHANGED <<git, admin, waiting, letting, attempts, wrote, gaveUp, day>>
      /\ \/ turn' = Tail(turn) \o <<job>>
         \/ turn' = Tail(turn) \o <<>>
    BY DEF MergeOver, MayClear, Same, today, history
<1>2. turn # <<>> /\ Now \in JobType /\ Now.op = "merge" /\ Now.at = "merge" /\ turn \in Seq(JobType)
    BY UnderwayTyped DEF MergeOver
<1>3. job \in JobType /\ JobFits(job) /\ job.op = "clear" /\ job.at = "start"
    BY JobTyped
<1> HIDE DEF job
<1>4. \/ turn' = Append(Tail(turn), job)
      \/ turn' = Tail(turn)
    BY <1>1, <1>2, <1>3, TailAppend
<1>5. GitTypes' /\ Written'
    BY <1>1, GitStays DEF TypeInv
<1>6. run' \in RunType /\ done' \in SUBSET Task
    BY <1>1 DEF TypeInv, RecordTypes
<1>7. Tipped' /\ saved' \in [run : RunType, done : SUBSET Task] /\ saved'.run = run'
    BY <1>1, <1>6, SavesTipped DEF TypeInv, git, Saves
<1>8. ~UnderAdmin(Now)
    BY <1>2 DEF UnderAdmin, MakesOrRemoves
<1>9. AttemptTypes'
    BY <1>1, AttemptsStay DEF TypeInv
<1>10. CASE turn' = Tail(turn)
    <2>1. OffIsEmpty(run')
        BY <1>1 DEF TypeInv, RunIsOn
    <2> QED BY <1>1, <1>2, <1>5, <1>6, <1>7, <1>8, <1>9, <1>10, <2>1, IsOverTyped DEF Over, attempts
<1>11. CASE turn' = Append(Tail(turn), job)
    <2>1. Jobs' /\ turn' \in Seq(JobType) /\ turn' # <<>> /\ Now'.at = "start" /\ RunIsOn'
        BY <1>1, <1>2, <1>3, <1>7, <1>11, ClearIsAsked DEF TypeInv, attempts
    <2>2. Before' /\ ~UnderAdmin(Now')
        BY <2>1, NothingBefore
    <2>3. Turn \notin InSeq(admin)
        BY <1>2, <1>8, TurnInAdmin DEF TypeInv
    <2>4. Admins'
        BY <1>1, <2>2, <2>3, AdminsRest DEF TypeInv
    <2>5. RecordTypes'
        BY <1>6, <1>7, <2>1 DEF RecordTypes
    <2> QED BY <1>5, <1>7, <1>9, <2>1, <2>2, <2>4, <2>5 DEF TypeInv
<1> QED BY <1>4, <1>10, <1>11

\* The integration worktrees go, and what was left of a landing is settled first.
LEMMA HandsOffTyped ==
    ASSUME TypeInv, HandsOff \/ PruneBegins
    PROVE  TypeInv'
<1>1. /\ HoldsAdmin /\ iwt' = {} /\ turn # <<>>
      /\ \/ run.landing # NoLanding /\ Goes([Now EXCEPT !.at = "settle", !.todo = Tips, !.stuck = {}])
         \/ Now.op = "handoff" /\ Goes([Now EXCEPT !.at = "over"])
         \/ Now.op = "prune" /\ Goes([Now EXCEPT !.at = "sweep"])
      /\ Now.op \in {"handoff", "prune"} /\ Now.at = "admin"
      /\ UNCHANGED <<line, head, held, tree, kept, record, admin, waiting, letting, attempts, wrote, gaveUp, day>>
    BY DEF HandsOff, PruneBegins, Settles, Underway, Same, today, history
<1>2. turn \in Seq(JobType) /\ Now \in JobType /\ JobFits(Now)
    BY <1>1, NowFits DEF TypeInv, RecordTypes
<1>3. PICK job \in JobType :
        /\ Goes(job) /\ job.op = Now.op /\ job.task = Now.task /\ job.n = Now.n
        /\ \/ job.at = "settle" /\ job.todo = Tips /\ run.landing # NoLanding
           \/ job.at = "over" /\ job.op = "handoff"
           \/ job.at = "sweep" /\ job.op = "prune"
    <2>1. [Now EXCEPT !.at = "settle", !.todo = Tips, !.stuck = {}] \in JobType
        BY <1>2, TipsTyped DEF JobType
    <2>2. [Now EXCEPT !.at = "over"] \in JobType /\ [Now EXCEPT !.at = "sweep"] \in JobType
        BY <1>2 DEF JobType
    <2>3. CASE run.landing # NoLanding /\ Goes([Now EXCEPT !.at = "settle", !.todo = Tips, !.stuck = {}])
        BY <1>2, <2>1, <2>3 DEF JobType
    <2>4. CASE Now.op = "handoff" /\ Goes([Now EXCEPT !.at = "over"])
        BY <1>2, <2>2, <2>4 DEF JobType
    <2>5. CASE Now.op = "prune" /\ Goes([Now EXCEPT !.at = "sweep"])
        BY <1>2, <2>2, <2>5 DEF JobType
    <2> QED BY <1>1, <2>3, <2>4, <2>5
<1>4. JobFits(job)
    BY <1>1, <1>3 DEF JobFits, Stage
<1>5. turn' # <<>>
    BY <1>1, <1>2, <1>3, GoesOn
<1>6. run' = run /\ UNCHANGED saved /\ OffIsEmpty(run')
    BY <1>1, RecordKept DEF TypeInv, RunIsOn
<1>7. GitTypes' /\ Written' /\ Tipped'
    BY <1>1, TippedStays DEF TypeInv, GitTypes, Written, history
<1>8. ASSUME Now' = job PROVE Before' /\ Admins'
    <2>1. Before'
        BY <1>1, <1>3, <1>6, <1>8 DEF Before, Tips
    <2>2. UnderAdmin(Now') /\ UnderAdmin(Now)
        BY <1>1, <1>3, <1>8 DEF UnderAdmin, MakesOrRemoves
    <2> QED BY <1>1, <1>5, <2>1, <2>2, AdminsStay DEF TypeInv
<1>9. job.op # "land"
    BY <1>1, <1>3
<1> QED BY <1>1, <1>3, <1>4, <1>6, <1>7, <1>8, <1>9, RecordKept, GoesOnTyped

\* A hand-over or a clean-up is over.
LEMMA HandoffOverTyped ==
    ASSUME TypeInv, HandoffOver \/ CleanupOver
    PROVE  TypeInv'
<1>1. /\ turn # <<>> /\ Now.op \in {"handoff", "cleanup"} /\ Now.at \in {"over", "branches"}
      /\ UNCHANGED <<run, done>> /\ Saves /\ Over /\ admin' = Tail(admin)
      /\ UNCHANGED <<git, waiting, letting, attempts, wrote, gaveUp, day>>
    BY DEF HandoffOver, CleanupOver, Underway, Same, today, history
<1>2. HoldsAdmin
    BY <1>1 DEF TypeInv, Admins, UnderAdmin, MakesOrRemoves
<1>3. run' \in RunType /\ done' \in SUBSET Task /\ OffIsEmpty(run')
    BY <1>1 DEF TypeInv, RecordTypes, RunIsOn
<1>4. Tipped' /\ saved' \in [run : RunType, done : SUBSET Task] /\ saved'.run = run'
    BY <1>1, <1>3, SavesTipped DEF TypeInv, git, Saves
<1>5. GitTypes' /\ Written' /\ AttemptTypes'
    BY <1>1, GitStays, AttemptsStay DEF TypeInv
<1> QED BY <1>1, <1>2, <1>3, <1>4, <1>5, IsOverTyped DEF attempts

\* All worktrees go, with what they hold that is nowhere else kept.
LEMMA RemovesTreesTyped ==
    ASSUME TypeInv, RemovesTrees
    PROVE  TypeInv'
<1> DEFINE job == [Now EXCEPT !.at = "branches"]
           f == [t \in Task |-> IF run.status[t] = "merged" THEN "merged" ELSE "none"]
<1>1. /\ HoldsAdmin /\ iwt' = {}
      /\ kept' = kept \cup PreservedOf(Task)
      /\ tree' = [t \in Task |-> [tree[t] EXCEPT !.there = FALSE]]
      /\ run' = [run EXCEPT !.status = f]
      /\ Goes(job)
      /\ UNCHANGED <<line, head, held, done, saved, admin, waiting, letting, attempts, wrote, gaveUp, day>>
    BY DEF RemovesTrees, Same, today, history, Exposes
<1>2. /\ turn # <<>> /\ Now \in JobType /\ JobFits(Now) /\ turn \in Seq(JobType) /\ OffIsEmpty(run)
      /\ Now.op \in {"clear", "discard", "cleanup", "mint"} /\ Now.at = "admin"
    BY UnderwayTyped DEF RemovesTrees
<1>3. job \in JobType /\ job.op = Now.op /\ job.task = Now.task /\ job.n = Now.n /\ job.at = "branches"
    BY <1>2 DEF JobType
<1>4. JobFits(job)
    BY <1>2, <1>3 DEF JobFits, Stage
<1> HIDE DEF job
<1>5. run' \in RunType /\ run'.landing = run.landing /\ run'.on = run.on /\ OffIsEmpty(run')
    <2>1. run \in RunType /\ f \in [Task -> Status]
        BY DEF TypeInv, RecordTypes, Status
    <2>2. \A t \in Task : f[t] = "none" \/ f[t] = run.status[t]
        OBVIOUS
    <2> HIDE DEF f
    <2>3. run' \in RunType /\ run'.landing = run.landing
        BY <1>1, <2>1, StatusSet
    <2> QED BY <1>1, <1>2, <2>1, <2>2, <2>3 DEF RunType, OffIsEmpty
<1> HIDE DEF f
<1>6. GitTypes' /\ Written'
    <2>1. kept' \subseteq wrote
        BY <1>1, PreservedWritten DEF TypeInv, GitTypes
    <2>2. tree' = [t \in Task |-> IF t \in Task THEN [tree[t] EXCEPT !.there = FALSE] ELSE tree[t]]
        BY <1>1
    <2> QED BY <1>1, <2>1, <2>2, TreesGo DEF TypeInv
<1>7. Tipped' /\ done' \in SUBSET Task /\ saved' \in [run : RunType, done : SUBSET Task]
    BY <1>1, <1>5 DEF TypeInv, Tipped, RecordTypes
<1>8. turn' # <<>>
    BY <1>1, <1>2, <1>3, GoesOn
<1>9. ASSUME Now' = job PROVE Before' /\ Admins'
    <2>1. Before'
        BY <1>2, <1>3, <1>9 DEF Before
    <2>2. UnderAdmin(Now') /\ UnderAdmin(Now)
        BY <1>2, <1>3, <1>9 DEF UnderAdmin, MakesOrRemoves
    <2> QED BY <1>1, <1>2, <1>8, <2>1, <2>2, AdminsStay DEF TypeInv
<1>10. job.op # "land"
    BY <1>2, <1>3
<1> QED BY <1>1, <1>2, <1>3, <1>4, <1>5, <1>6, <1>7, <1>9, <1>10, GoesOnTyped

\* From the next mint on, the chain is what it was, and begins with one.
LEMMA FromMintOn ==
    ASSUME NEW s \in Seq(JobType)
    PROVE  /\ FromMint(s) \in Seq(JobType)
           /\ \E k \in Nat : \A i \in 1..Len(FromMint(s)) : k + i \in 1..Len(s) /\ FromMint(s)[i] = s[k + i]
           /\ FromMint(s) # <<>> => FromMint(s)[1].op = "mint"
<1> DEFINE mints == {i \in 1..Len(s) : s[i].op = "mint"}
<1>1. Len(s) \in Nat
    BY LenProperties
<1>2. CASE mints = {}
    <2>1. FromMint(s) = <<>>
        BY <1>2 DEF FromMint
    <2> QED BY <2>1
<1>3. CASE mints # {}
    <2>1. PICK k \in mints : k = Lowest(mints)
        <3>1. mints \subseteq Nat
            BY <1>1
        <3> HIDE DEF mints
        <3> QED BY <1>3, <3>1, LowestIsIn
    <2>2. k \in 1..Len(s) /\ s[k].op = "mint"
        BY <2>1
    <2>3. FromMint(s) = SubSeq(s, k, Len(s))
        BY <1>3, <2>1 DEF FromMint
    <2>4. /\ SubSeq(s, k, Len(s)) \in Seq(JobType) /\ Len(SubSeq(s, k, Len(s))) = Len(s) - k + 1
          /\ \A i \in 1..Len(s) - k + 1 : SubSeq(s, k, Len(s))[i] = s[k + i - 1]
        BY <1>1, <2>2, SubSeqProperties
    <2>5. k - 1 \in Nat /\ 1 \in 1..Len(s) - k + 1
        BY <1>1, <2>2
    <2>6. \A i \in 1..Len(s) - k + 1 : (k - 1) + i \in 1..Len(s) /\ k + i - 1 = (k - 1) + i
        BY <1>1, <2>2
    <2>7. \A i \in 1..Len(FromMint(s)) : (k - 1) + i \in 1..Len(s) /\ FromMint(s)[i] = s[(k - 1) + i]
        BY <2>3, <2>4, <2>6
    <2>8. FromMint(s)[1] = s[k]
        BY <1>1, <2>2, <2>3, <2>4, <2>5
    <2> QED BY <2>2, <2>3, <2>4, <2>5, <2>7, <2>8
<1> QED BY <1>2, <1>3

\* The branches go, with the run, and all that waited in the turn for it; a mint opens the run its start asked for.
LEMMA ForgetsTyped ==
    ASSUME TypeInv, Forgets
    PROVE  TypeInv'
<1> DEFINE goes == Now.op # "mint" \/ Now.out = "interrupted"
<1>1. /\ kept' = kept \cup UNION {WorkOn(r) : r \in Repo \ Deleted(Now.op)}
      /\ gaveUp' \subseteq gaveUp \cup UNION {WorkOn(r) : r \in Repo}
      /\ line' = [r \in Repo |-> <<>>] /\ held' = {}
      /\ run' = IF goes THEN NoRun ELSE FreshRun
      /\ UNCHANGED done /\ Saves
      /\ turn' = IF goes THEN FromMint(Tail(turn)) ELSE Tail(turn)
      /\ UNCHANGED <<head, iwt, tree, used, open, wrote, day>>
    BY DEF Forgets, Same, today, Deleted
<1>2. \/ /\ admin' = <<>> /\ waiting' = {} /\ letting' = [t \in Task |-> "no"]
         /\ \E S, R : phase' = [t \in Task |-> IF t \in S THEN "astray" ELSE IF t \in R THEN "rest" ELSE phase[t]]
      \/ admin' = Tail(admin) /\ UNCHANGED <<waiting, letting, phase>>
    <2>1. CASE goes
        <3> DEFINE later == FromMint(Tail(turn))
                   S == {t \in Task : phase[t] = "opening" /\ t \notin Prepared(later)}
                   R == {t \in Task : phase[t] \in {"landing", "vouched"}}
        <3>0. admin' = <<>> /\ waiting' = {} /\ letting' = [t \in Task |-> "no"]
            BY <2>1 DEF Forgets
        <3>1. phase' = [t \in Task |-> IF phase[t] = "opening" /\ t \notin Prepared(later) THEN "astray"
                                        ELSE IF phase[t] \in {"landing", "vouched"} THEN "rest" ELSE phase[t]]
            BY <2>1 DEF Forgets
        <3> HIDE DEF later
        <3>2. phase' = [t \in Task |-> IF t \in S THEN "astray" ELSE IF t \in R THEN "rest" ELSE phase[t]]
            BY <3>1
        <3> QED BY <3>0, <3>2
    <2>2. CASE ~goes
        BY <2>2 DEF Forgets
    <2> QED BY <2>1, <2>2
<1>3. /\ turn # <<>> /\ Now \in JobType /\ JobFits(Now) /\ turn \in Seq(JobType)
      /\ Now.op \in {"clear", "discard", "mint"} /\ Now.at = "branches"
    BY UnderwayTyped DEF Forgets
<1> HIDE DEF goes
<1>4. GitTypes' /\ Written'
    <2>1. ASSUME NEW r \in Repo PROVE WorkOn(r) \subseteq wrote
        BY DEF TypeInv, Written, WorkOn, InSeq
    <2>2. kept' \subseteq wrote /\ gaveUp' \subseteq wrote
        BY <1>1, <2>1 DEF TypeInv, GitTypes
    <2>3. line' \in [Repo -> Seq(Commit)] /\ \A r \in Repo : Len(line'[r]) = 0
        BY <1>1
    <2> QED BY <1>1, <2>2, <2>3 DEF TypeInv, GitTypes, Written
<1>5. run' \in RunType /\ run'.landing = NoLanding /\ OffIsEmpty(run')
    BY <1>1, FreshTyped DEF OffIsEmpty
<1>6. done' \in SUBSET Task /\ saved' \in [run : RunType, done : SUBSET Task] /\ saved'.run = run'
    BY <1>1, <1>5 DEF Saves, TypeInv, RecordTypes
<1>7. Tipped'
    BY <1>5, <1>6, NoTips DEF Tipped
<1>8. AttemptTypes'
    BY <1>1, <1>2 DEF TypeInv, AttemptTypes, Phase
<1>9. Now = turn[1] /\ 1 \in 1..Len(turn) /\ Len(turn) \in Nat
    BY <1>3, HeadIsFirst, LenProperties DEF Now
<1>10. /\ Tail(turn) \in Seq(JobType)
       /\ \A i \in 1..Len(Tail(turn)) : Tail(turn)[i] = turn[i + 1] /\ i + 1 \in 1..Len(turn) /\ i + 1 # 1
    <2>1. /\ Tail(turn) \in Seq(JobType) /\ Len(Tail(turn)) = Len(turn) - 1
          /\ \A i \in 1..Len(Tail(turn)) : Tail(turn)[i] = turn[i + 1]
        BY <1>3, HeadTailProperties
    <2> QED BY <1>9, <2>1
<1>11. /\ turn' \in Seq(JobType)
       /\ \A i \in 1..Len(turn') : \E j \in 1..Len(turn) : j # 1 /\ turn'[i] = turn[j]
       /\ run'.on \/ (turn' # <<>> => turn'[1].op = "mint")
    <2>1. CASE goes
        <3> DEFINE T == Tail(turn)
        <3>0. T \in Seq(JobType) /\ turn' = FromMint(T) /\ \A i \in 1..Len(T) : T[i] = turn[i + 1] /\ i + 1 \in 1..Len(turn) /\ i + 1 # 1
            BY <1>1, <1>10, <2>1
        <3> HIDE DEF T
        <3>1. PICK k \in Nat : \A i \in 1..Len(turn') : k + i \in 1..Len(T) /\ turn'[i] = T[k + i]
            BY <3>0, FromMintOn
        <3>2. turn' \in Seq(JobType) /\ (turn' # <<>> => turn'[1].op = "mint")
            BY <3>0, FromMintOn
        <3>3. ASSUME NEW i \in 1..Len(turn') PROVE \E j \in 1..Len(turn) : j # 1 /\ turn'[i] = turn[j]
            BY <3>0, <3>1
        <3> QED BY <3>2, <3>3
    <2>2. CASE ~goes
        BY <1>1, <1>10, <2>2, FreshTyped
    <2> QED BY <2>1, <2>2
<1>12. Jobs'
    <2>1. ASSUME NEW i \in 1..Len(turn') PROVE JobFits(turn'[i]) /\ turn'[i].at = "start"
        BY <1>11 DEF TypeInv, Jobs
    <2> QED BY <2>1 DEF Jobs, JobFits, Stage
<1>13. turn' # <<>> => Now' = turn'[1] /\ Now'.at = "start" /\ Now'.op # "prune"
    <2> SUFFICES ASSUME turn' # <<>> PROVE Now' = turn'[1] /\ Now'.at = "start" /\ Now'.op # "prune"
        OBVIOUS
    <2>1. Now' = turn'[1] /\ 1 \in 1..Len(turn')
        BY <1>11, HeadIsFirst DEF Now
    <2>2. JobFits(turn'[1]) /\ turn'[1].at = "start"
        BY <1>11, <2>1 DEF TypeInv, Jobs
    <2> QED BY <2>1, <2>2 DEF JobFits, Stage
<1>14. PreparesOn'
    <2> SUFFICES ASSUME NEW i \in 1..Len(turn'), turn'[i].op = "prepare", ~run'.on
                 PROVE  \E j \in 1..i - 1 : turn'[j].op = "mint"
        BY DEF PreparesOn, MintedBefore
    <2>1. Len(turn') \in Nat /\ turn' # <<>>
        BY <1>11, LenProperties, EmptySeq
    <2>2. turn'[1].op = "mint"
        BY <1>11, <2>1
    <2>3. i # 1 /\ 1 \in 1..i - 1
        BY <2>1, <2>2
    <2> QED BY <2>2, <2>3
<1>15. RunIsOn'
    <2>1. OffIsEmpty(run)' /\ OffIsEmpty(saved.run)'
        BY <1>5, <1>6 DEF OffIsEmpty
    <2> QED BY <1>13, <1>14, <2>1 DEF RunIsOn
<1>16. Before' /\ (turn' # <<>> => ~UnderAdmin(Now'))
    BY <1>13, NothingBefore
<1>17. Admins'
    <2>1. CASE admin' = <<>>
        <3>1. (UnderAdmin(Now))' <=> UnderAdmin(Now')
            BY DEF UnderAdmin, MakesOrRemoves
        <3>2. admin' \in Seq(Task \cup {Turn}) /\ Len(admin') = 0 /\ InSeq(admin') = {}
            BY <2>1 DEF InSeq
        <3> QED BY <1>16, <3>1, <3>2 DEF Admins
    <2>2. CASE admin' = Tail(admin) /\ UNCHANGED letting
        <3>1. HoldsAdmin
            BY <1>3 DEF TypeInv, Admins, UnderAdmin, MakesOrRemoves
        <3> QED BY <1>16, <2>2, <3>1, AdminsLeft DEF TypeInv
    <2> QED BY <1>2, <2>1, <2>2
<1>18. RecordTypes'
    BY <1>5, <1>6, <1>11 DEF RecordTypes
<1> QED BY <1>4, <1>7, <1>8, <1>12, <1>15, <1>16, <1>17, <1>18 DEF TypeInv

\* What a crash left is swept, and the record says so (pruneOrphans).
LEMMA SweepsTyped ==
    ASSUME TypeInv, Sweeps
    PROVE  TypeInv'
<1> DEFINE f == [t \in Task |-> IF t \in Orphans /\ run.status[t] = "active" THEN "none" ELSE LeftBehind(run.status[t])]
<1>1. /\ kept' = kept \cup PreservedOf(Orphans)
      /\ tree' = [t \in Task |-> IF t \in Orphans THEN [tree[t] EXCEPT !.there = FALSE] ELSE tree[t]]
      /\ run' = [run EXCEPT !.status = f]
      /\ Over /\ admin' = Tail(admin)
      /\ UNCHANGED <<line, head, iwt, held, done, saved, waiting, letting, attempts, wrote, gaveUp, day>>
    BY DEF Sweeps, Same, today, history, Exposes
<1>2. turn # <<>> /\ Now \in JobType /\ JobFits(Now) /\ Now.op = "prune" /\ Now.at = "sweep" /\ run \in RunType
    BY UnderwayTyped DEF Sweeps, TypeInv, RecordTypes
<1>3. HoldsAdmin /\ run.on
    BY <1>2 DEF TypeInv, Admins, UnderAdmin, MakesOrRemoves, RunIsOn
<1>4. run' \in RunType /\ run'.landing = run.landing /\ run'.on = run.on /\ OffIsEmpty(run')
    <2>1. f \in [Task -> Status]
        <3>1. ASSUME NEW t \in Task PROVE f[t] \in Status
            <4>1. run.status[t] \in Status
                BY <1>2 DEF RunType
            <4> QED BY <4>1, StatusLeft DEF Status
        <3> QED BY <3>1
    <2> HIDE DEF f
    <2>2. run' \in RunType /\ run'.landing = run.landing
        BY <1>1, <1>2, <2>1, StatusSet
    <2> QED BY <1>1, <1>2, <1>3, <2>2 DEF RunType, OffIsEmpty
<1> HIDE DEF f
<1>5. GitTypes' /\ Written'
    <2>1. Orphans \subseteq Task
        BY DEF Orphans
    <2>2. kept' \subseteq wrote
        BY <1>1, <2>1, PreservedWritten DEF TypeInv, GitTypes
    <2> QED BY <1>1, <2>1, <2>2, TreesGo DEF TypeInv
<1>6. Tipped' /\ done' \in SUBSET Task /\ saved' \in [run : RunType, done : SUBSET Task]
    BY <1>1, <1>4 DEF TypeInv, Tipped, RecordTypes
<1>7. AttemptTypes'
    BY <1>1, AttemptsStay DEF TypeInv
<1> QED BY <1>1, <1>2, <1>3, <1>4, <1>5, <1>6, <1>7, IsOverTyped DEF attempts

\* A crash leaves the saved record, and what adopts it prunes first (adopt).
LEMMA CrashTyped ==
    ASSUME TypeInv, Crash
    PROVE  TypeInv'
<1> DEFINE job == [Job("prune", None) EXCEPT !.at = "admin"]
<1>1. /\ run' = saved.run /\ done' = saved.done
      /\ turn' = IF saved.run.on THEN <<job>> ELSE <<>>
      /\ admin' = IF saved.run.on THEN <<Turn>> ELSE <<>>
      /\ waiting' = {} /\ open' = FALSE
      /\ letting' = [t \in Task |-> "no"] /\ phase' = [t \in Task |-> "rest"]
      /\ UNCHANGED <<git, saved, used, wrote, gaveUp, day>>
    BY DEF Crash, May, history, Exposes
<1>2. job \in JobType /\ job.op = "prune" /\ job.at = "admin"
    BY JobTyped DEF JobType
<1>3. JobFits(job)
    BY <1>2 DEF JobFits, Stage
<1> HIDE DEF job
<1>4. GitTypes' /\ Written'
    BY <1>1, GitStays DEF TypeInv
<1>5. /\ run' \in RunType /\ done' \in SUBSET Task /\ saved' \in [run : RunType, done : SUBSET Task]
      /\ saved'.run = run'
    BY <1>1 DEF TypeInv, RecordTypes
<1>6. Tipped'
    BY <1>1, <1>5 DEF TypeInv, Tipped, git
<1>7. AttemptTypes'
    BY <1>1 DEF TypeInv, AttemptTypes, Phase
<1>8. OffIsEmpty(run)' /\ OffIsEmpty(saved.run)'
    BY <1>1 DEF TypeInv, RunIsOn, OffIsEmpty
<1>9. CASE saved.run.on
    <2>1. turn' = <<job>> /\ admin' = <<Turn>> /\ run'.on
        BY <1>1, <1>9
    <2>2. turn' \in Seq(JobType) /\ Len(turn') = 1 /\ turn'[1] = job /\ turn' # <<>> /\ Now' = job
        BY <1>2, <2>1 DEF Now
    <2>3. admin' \in Seq(Task \cup {Turn}) /\ Len(admin') = 1 /\ admin'[1] = Turn /\ admin' # <<>>
        BY <2>1
    <2>4. Jobs'
        BY <1>2, <1>3, <2>2 DEF Jobs, JobFits, Stage
    <2>5. RunIsOn'
        <3>1. PreparesOn'
            BY <1>2, <2>2 DEF PreparesOn
        <3> QED BY <1>1, <1>2, <1>8, <2>1, <2>2, <3>1 DEF RunIsOn
    <2>6. Before'
        BY <1>2, <2>2 DEF Before
    <2>7. Admins'
        <3>1. InSeq(admin') = {Turn} /\ Turn \notin Task
            BY <2>3, SomeTasks DEF InSeq, Turn
        <3>2. UnderAdmin(Now)'
            BY <1>2, <2>2 DEF UnderAdmin
        <3> QED BY <1>2, <2>2, <2>3, <3>1, <3>2 DEF Admins
    <2> QED BY <1>4, <1>5, <1>6, <1>7, <2>2, <2>4, <2>5, <2>6, <2>7 DEF TypeInv, RecordTypes
<1>10. CASE ~saved.run.on
    <2>1. turn' = <<>> /\ admin' = <<>>
        BY <1>1, <1>10
    <2>2. turn' \in Seq(JobType) /\ Len(turn') = 0 /\ admin' \in Seq(Task \cup {Turn}) /\ Len(admin') = 0
        BY <2>1
    <2>3. Jobs' /\ Before'
        BY <2>1, <2>2 DEF Jobs, Before
    <2>4. RunIsOn'
        BY <1>8, <2>1, <2>2 DEF RunIsOn, PreparesOn
    <2>5. Admins'
        BY <2>1, <2>2 DEF Admins, InSeq
    <2> QED BY <1>4, <1>5, <1>6, <1>7, <2>2, <2>3, <2>4, <2>5 DEF TypeInv, RecordTypes
<1> QED BY <1>9, <1>10

-----------------------------------------------------------------------------
(* Reverts.                                                                 *)

\* A revert is judged in its turn and puts the tips on the record (revertInTurn).
LEMMA RevertJudgedTyped ==
    ASSUME TypeInv, RevertJudged
    PROVE  TypeInv'
<1> DEFINE t == Now.task
           R == {w[3] : w \in Taken(t)}
           L == [task |-> t, tips |-> [r \in R |-> Len(line[r])], reverts |-> TRUE, made |-> [r \in R |-> <<>>]]
           job == [Now EXCEPT !.at = "undo", !.todo = Taken(t)]
<1>1. /\ UNCHANGED <<git, admin, waiting, letting, attempts, wrote, gaveUp, day>>
      /\ \/ Over /\ UNCHANGED record
         \/ run.on /\ run' = [run EXCEPT !.landing = L] /\ UNCHANGED done /\ Saves /\ Goes(job)
    BY DEF RevertJudged, JournalSaves, Same, today, history
<1>2. turn # <<>> /\ Now \in JobType /\ JobFits(Now) /\ Now.op = "revert" /\ Now.at = "start" /\ t \in Task
    BY UnderwayTyped DEF RevertJudged, JobFits
<1>3. ~UnderAdmin(Now)
    BY <1>2 DEF UnderAdmin, MakesOrRemoves
<1>4. Taken(t) \subseteq TaskWork /\ R \subseteq Repo
    BY RunParts DEF TypeInv, RecordTypes, Taken, TaskWork
<1>5. CASE Over /\ UNCHANGED record
    <2>1. AttemptTypes'
        BY <1>1, AttemptsStay DEF TypeInv
    <2> QED BY <1>1, <1>2, <1>3, <1>5, <2>1, RestStays, IsOverTyped DEF attempts
<1>6. CASE run.on /\ run' = [run EXCEPT !.landing = L] /\ UNCHANGED done /\ Saves /\ Goes(job)
    <2>1. job \in JobType /\ job.op = "revert" /\ job.task = Now.task /\ job.n = Now.n /\ job.at = "undo" /\ job.todo = Taken(t)
        BY <1>2, <1>4 DEF JobType
    <2>2. JobFits(job) /\ Goes(job)
        BY <1>2, <1>6, <2>1 DEF JobFits, Stage
    <2> HIDE DEF job
    <2>3. L \in Landing /\ L # NoLanding /\ DOMAIN L.tips = R /\ L.reverts /\ \A r \in R : L.tips[r] = Len(line[r])
        <3>1. /\ [r \in R |-> Len(line[r])] \in [R -> Nat]
              /\ [r \in R |-> <<>>] \in [R -> Seq(RevertCommit)]
            BY <1>4, LenProperties DEF TypeInv, GitTypes
        <3> HIDE DEF R
        <3> QED BY <1>2, <1>4, <3>1, LandingOfParts
    <2> HIDE DEF L
    <2>4. run' \in RunType /\ run'.landing = L /\ run'.on = run.on
        BY <1>6, <2>3, LandingSet DEF TypeInv, RecordTypes, RunType
    <2>5. OffIsEmpty(run')
        BY <1>6, <2>4 DEF OffIsEmpty
    <2>6. done' \in SUBSET Task /\ saved' \in [run : RunType, done : SUBSET Task] /\ saved'.run = run'
        BY <1>6, <2>4 DEF Saves, TypeInv, RecordTypes
    <2>7. UNCHANGED <<line, tree>>
        BY <1>1 DEF git
    <2>8. Tipped'
        <3>1. \A r \in R : r \in Repo
            BY <1>4
        <3>2. \A r \in Repo : Len(line[r]) \in Nat
            BY LenProperties DEF TypeInv, GitTypes
        <3> HIDE DEF R
        <3> QED BY <2>3, <2>4, <2>6, <2>7, <3>1, <3>2 DEF Tipped
    <2>9. ASSUME Now' = job PROVE Before'
        <3>1. Tips' = R
            BY <2>3, <2>4 DEF Tips
        <3>2. \A w \in job.todo : w[3] \in R
            BY <2>1
        <3> HIDE DEF R
        <3> QED BY <1>4, <2>1, <2>3, <2>4, <2>9, <3>1, <3>2 DEF Before
    <2>10. GitTypes' /\ Written'
        BY <1>1, GitStays DEF TypeInv
    <2>11. turn' # <<>>
        BY <1>2, <2>1, <2>2, GoesOn DEF TypeInv, RecordTypes
    <2>12. ASSUME Now' = job PROVE Admins'
        <3>1. ~UnderAdmin(Now')
            BY <2>1, <2>12 DEF UnderAdmin, MakesOrRemoves
        <3> QED BY <1>1, <1>2, <1>3, <2>11, <3>1, AdminsStay DEF TypeInv
    <2> QED BY <1>1, <1>2, <2>1, <2>2, <2>4, <2>5, <2>6, <2>8, <2>9, <2>10, <2>12, GoesOnTyped
<1> QED BY <1>1, <1>5, <1>6

\* What a revert under way has before it.
LEMMA UndoBegun ==
    ASSUME TypeInv, turn # <<>>, Now.op = "revert", Now.at \in {"undo", "move"}
    PROVE  /\ Now \in JobType /\ JobFits(Now) /\ turn \in Seq(JobType) /\ Now.task \in Task
           /\ run.landing \in Landing /\ run.landing # NoLanding /\ run.landing.reverts
           /\ Now.todo \subseteq TaskWork /\ \A w \in Now.todo : w[3] \in Tips /\ w[3] \in Repo
           /\ ~UnderAdmin(Now)
<1>1. Now \in JobType /\ JobFits(Now) /\ turn \in Seq(JobType)
    BY NowFits DEF TypeInv, RecordTypes
<1>2. /\ run.landing # NoLanding /\ run.landing.reverts
      /\ Now.todo \subseteq TaskWork /\ \A w \in Now.todo : w[3] \in Tips
    BY DEF TypeInv, Before
<1>3. run.landing \in Landing
    BY <1>2, RunParts DEF TypeInv, RecordTypes
<1> QED BY <1>1, <1>2, <1>3, TipsTyped DEF JobFits, UnderAdmin, MakesOrRemoves

\* A commit more of those made.
LEMMA MadeMore ==
    ASSUME run \in RunType, run.landing \in Landing, NEW r \in Tips, NEW c \in RevertCommit,
           run' = [run EXCEPT !.landing.made[r] = Append(@, c)]
    PROVE  /\ run' \in RunType /\ run'.landing \in Landing /\ run'.landing # NoLanding
           /\ run'.landing.tips = run.landing.tips /\ run'.landing.reverts = run.landing.reverts
           /\ run'.landing.task = run.landing.task
           /\ run'.on = run.on /\ run'.status = run.status /\ run'.landings = run.landings
           /\ run'.landing.made = [run.landing.made EXCEPT ![r] = Append(@, c)]
           /\ run'.landing.made[r] = Append(run.landing.made[r], c) /\ run'.landing.made[r] # <<>>
<1> DEFINE L == run.landing
           M == [L.made EXCEPT ![r] = Append(@, c)]
<1>1. /\ L.task \in Task /\ L.reverts \in BOOLEAN
      /\ DOMAIN L.tips \subseteq Repo /\ L.tips \in [DOMAIN L.tips -> Nat] /\ L.made \in [DOMAIN L.tips -> Seq(RevertCommit)]
      /\ L = [task |-> L.task, tips |-> L.tips, reverts |-> L.reverts, made |-> L.made]
    BY LandingParts
<1>2. run' = [run EXCEPT !.landing = [L EXCEPT !.made = M]]
    BY <1>1 DEF RunType
<1>3. /\ Append(L.made[r], c) \in Seq(RevertCommit) /\ Append(L.made[r], c) # <<>>
    <2>1. L.made[r] \in Seq(RevertCommit)
        BY <1>1 DEF Tips
    <2>2. Append(L.made[r], c) \in Seq(RevertCommit) /\ Len(Append(L.made[r], c)) = Len(L.made[r]) + 1 /\ Len(L.made[r]) \in Nat
        BY <2>1, AppendProperties, LenProperties
    <2> QED BY <2>2, EmptySeq
<1>4. M \in [DOMAIN L.tips -> Seq(RevertCommit)] /\ M[r] = Append(L.made[r], c)
    BY <1>1, <1>3 DEF Tips
<1>11. DOMAIN L.tips \in SUBSET Repo
    BY <1>1
<1> HIDE DEF M, L
<1>5. [L EXCEPT !.made = M] = [task |-> L.task, tips |-> L.tips, reverts |-> L.reverts, made |-> M]
    <2>1. \A a, b, d, e : [[task |-> a, tips |-> b, reverts |-> d, made |-> e] EXCEPT !.made = M]
                           = [task |-> a, tips |-> b, reverts |-> d, made |-> M]
        OBVIOUS
    <2>2. [[task |-> L.task, tips |-> L.tips, reverts |-> L.reverts, made |-> L.made] EXCEPT !.made = M]
                           = [task |-> L.task, tips |-> L.tips, reverts |-> L.reverts, made |-> M]
        BY <2>1
    <2> QED BY <1>1, <2>2, Zenon
<1>6. [L EXCEPT !.made = M] \in Landing /\ [L EXCEPT !.made = M] # NoLanding
    <2> DEFINE N == [task |-> L.task, tips |-> L.tips, reverts |-> L.reverts, made |-> M]
    <2>1. N \in Landing /\ N # NoLanding
        BY <1>1, <1>4, <1>11, LandingOfParts
    <2> HIDE DEF N
    <2>2. [L EXCEPT !.made = M] = N
        BY <1>5 DEF N
    <2> QED BY <2>1, <2>2
<1> DEFINE K == [L EXCEPT !.made = M]
<1>10. run' = [run EXCEPT !.landing = K] /\ K \in Landing \cup {NoLanding}
    BY <1>2, <1>6
<1> HIDE DEF K
<1>7. run' \in RunType /\ run'.landing = K
    BY <1>10, LandingSet
<1>8. run'.on = run.on /\ run'.status = run.status /\ run'.landings = run.landings
    BY <1>10 DEF RunType
<1>9. run'.landing.made = M /\ run'.landing.tips = L.tips /\ run'.landing.reverts = L.reverts /\ run'.landing.task = L.task
    BY <1>5, <1>7 DEF K
<1> QED BY <1>3, <1>4, <1>6, <1>7, <1>8, <1>9 DEF L, M, K

\* A revert makes the next revert commit and saves it before it moves the branch (revertLanding).
LEMMA RevertSavesTyped ==
    ASSUME TypeInv, RevertSaves
    PROVE  TypeInv'
<1>1. /\ turn # <<>> /\ Now.op = "revert" /\ Now.at = "undo"
      /\ UNCHANGED <<git, admin, waiting, letting, attempts, wrote, gaveUp, day>>
    BY DEF RevertSaves, Underway, Same, today, history
<1>2. /\ Now \in JobType /\ JobFits(Now) /\ turn \in Seq(JobType) /\ Now.task \in Task
      /\ run.landing \in Landing /\ run.landing # NoLanding /\ run.landing.reverts
      /\ Now.todo \subseteq TaskWork /\ \A w \in Now.todo : w[3] \in Tips /\ w[3] \in Repo
      /\ ~UnderAdmin(Now)
    BY <1>1, UndoBegun
<1>3. GitTypes' /\ Written'
    BY <1>1, GitStays DEF TypeInv
<1>4. CASE Settles([Now EXCEPT !.out = "conflict"]) /\ UNCHANGED record
    <2>1. Tipped'
        BY <1>1, <1>4, TippedStays DEF TypeInv, git
    <2> QED BY <1>1, <1>2, <1>3, <1>4, <2>1, SettlesTyped
<1> DEFINE job == [Now EXCEPT !.at = "move"]
<1>5. ASSUME NEW w \in Now.todo, IsNextUndone(w),
             run' = [run EXCEPT !.landing.made[w[3]] = Append(@, RevertOf(Merge(w[1], w[2])))],
             UNCHANGED done, Saves, Goes(job)
      PROVE  TypeInv'
    <2>1. RevertOf(Merge(w[1], w[2])) \in RevertCommit
        BY <1>2 DEF TaskWork, RevertOf, Merge, RevertCommit
    <2>2. /\ run' \in RunType /\ run'.landing \in Landing /\ run'.landing # NoLanding
          /\ run'.landing.tips = run.landing.tips /\ run'.landing.reverts = run.landing.reverts
          /\ run'.on = run.on /\ run'.status = run.status /\ run'.landings = run.landings
          /\ run'.landing.made[w[3]] # <<>>
        BY <1>2, <1>5, <2>1, MadeMore DEF TypeInv, RecordTypes
    <2>3. OffIsEmpty(run')
        BY <1>2, <2>2 DEF TypeInv, RunIsOn, OffIsEmpty
    <2>4. done' \in SUBSET Task /\ saved' \in [run : RunType, done : SUBSET Task] /\ saved'.run = run'
        BY <1>5, <2>2 DEF Saves, TypeInv, RecordTypes
    <2>5. Tips' = Tips
        BY <2>2 DEF Tips
    <2>6. Tipped'
        BY <1>1, <2>2, <2>4, <2>5, TipsTyped DEF Tipped, Tips, git
    <2>7. job \in JobType /\ job.op = "revert" /\ job.task = Now.task /\ job.n = Now.n /\ job.at = "move" /\ job.todo = Now.todo
        BY <1>1, <1>2 DEF JobType
    <2>8. JobFits(job) /\ Goes(job)
        BY <1>2, <1>5, <2>7 DEF JobFits, Stage
    <2> HIDE DEF job
    <2>9. turn' # <<>>
        BY <1>1, <1>2, <2>7, <2>8, GoesOn
    <2>10. ASSUME Now' = job PROVE Before' /\ Admins'
        <3>0. w[3] = Lowest({v[3] : v \in Now.todo})
            BY <1>5 DEF IsNextUndone
        <3>1. Before'
            BY <1>2, <2>2, <2>5, <2>7, <2>10, <3>0 DEF Before
        <3>2. ~UnderAdmin(Now')
            BY <2>7, <2>10 DEF UnderAdmin, MakesOrRemoves
        <3> QED BY <1>1, <1>2, <2>9, <3>1, <3>2, AdminsStay DEF TypeInv
    <2> QED BY <1>1, <1>3, <2>2, <2>3, <2>4, <2>6, <2>7, <2>8, <2>10, GoesOnTyped
<1> QED BY <1>4, <1>5 DEF RevertSaves, JournalSaves

\* The branch is moved to the commit made (revertLanding).
LEMMA RevertMovesTyped ==
    ASSUME TypeInv, RevertMoves
    PROVE  TypeInv'
<1>1. /\ turn # <<>> /\ Now.op = "revert" /\ Now.at = "move"
      /\ UNCHANGED <<head, iwt, held, tree, kept, record, admin, waiting, letting, attempts, wrote, gaveUp, day>>
    BY DEF RevertMoves, Underway, Same, today, history
<1>2. /\ Now \in JobType /\ JobFits(Now) /\ turn \in Seq(JobType) /\ Now.task \in Task
      /\ run.landing \in Landing /\ run.landing # NoLanding /\ run.landing.reverts
      /\ Now.todo \subseteq TaskWork /\ \A w \in Now.todo : w[3] \in Tips /\ w[3] \in Repo
      /\ ~UnderAdmin(Now)
    BY <1>1, UndoBegun
<1>3. CASE Settles([Now EXCEPT !.out = "failed"]) /\ UNCHANGED line
    <2>1. GitTypes' /\ Written' /\ Tipped'
        BY <1>1, <1>3, GitStays, TippedStays DEF TypeInv, git
    <2> QED BY <1>1, <1>2, <1>3, <2>1, SettlesTyped
<1>4. ASSUME NEW w \in Now.todo, IsNextUndone(w),
             line' = [line EXCEPT ![w[3]] = Append(@, run.landing.made[w[3]][Len(run.landing.made[w[3]])])],
             Goes([Now EXCEPT !.at = "undo", !.todo = @ \ {w}])
      PROVE  TypeInv'
    <2> DEFINE made == run.landing.made[w[3]]
               c == made[Len(made)]
               job == [Now EXCEPT !.at = "undo", !.todo = Now.todo \ {w}]
    <2>1. c \in RevertCommit
        <3>1. w[3] = Lowest({v[3] : v \in Now.todo}) /\ w[3] \in Tips
            BY <1>2, <1>4 DEF IsNextUndone
        <3>2. made \in Seq(RevertCommit)
            BY <1>2, <3>1, LandingParts DEF Tips
        <3>3. made # <<>>
            BY <1>1, <3>1 DEF TypeInv, Before
        <3> HIDE DEF made
        <3>4. Len(made) \in 1..Len(made)
            BY <3>2, <3>3, LenProperties, EmptySeq
        <3> QED BY <3>2, <3>4
    <2>2. c \in Commit /\ c.by = "revert"
        BY <2>1 DEF RevertCommit, Commit
    <2> HIDE DEF c
    <2>3. /\ GitTypes' /\ Written' /\ Tipped'
          /\ run' \in RunType /\ done' \in SUBSET Task /\ saved' \in [run : RunType, done : SUBSET Task]
          /\ run' = run /\ UNCHANGED saved /\ OffIsEmpty(run')
        <3>1. line' = [line EXCEPT ![w[3]] = Append(@, c)] /\ w[3] \in Repo
            BY <1>2, <1>4 DEF c
        <3> QED BY <1>1, <2>2, <3>1, GrowsTyped
    <2>4. job \in JobType /\ job.op = "revert" /\ job.task = Now.task /\ job.n = Now.n /\ job.at = "undo" /\ job.todo = Now.todo \ {w}
        BY <1>1, <1>2 DEF JobType
    <2>5. JobFits(job) /\ Goes(job)
        BY <1>2, <1>4, <2>4 DEF JobFits, Stage
    <2> HIDE DEF job
    <2>6. turn' # <<>>
        BY <1>1, <1>2, <2>4, <2>5, GoesOn
    <2>7. ASSUME Now' = job PROVE Before' /\ Admins'
        <3>1. Tips' = Tips
            BY <2>3 DEF Tips
        <3>2. Before'
            BY <1>2, <2>3, <2>4, <2>7, <3>1 DEF Before
        <3>3. ~UnderAdmin(Now')
            BY <2>4, <2>7 DEF UnderAdmin, MakesOrRemoves
        <3> QED BY <1>1, <1>2, <2>6, <3>2, <3>3, AdminsStay DEF TypeInv
    <2> QED BY <1>1, <2>3, <2>4, <2>5, <2>7, GoesOnTyped
<1> QED BY <1>3, <1>4 DEF RevertMoves

\* A revert ends: the landings taken back leave the record (takeBack).
LEMMA RevertOverTyped ==
    ASSUME TypeInv, RevertOver
    PROVE  TypeInv'
<1> DEFINE gone == {w[1] : w \in Taken(Now.task)}
           f == [u \in Task |-> IF u \notin gone THEN run.status[u] ELSE TakenBack(run.status[u])]
           S == {w \in run.landings : w[1] \notin gone}
<1>1. /\ turn # <<>> /\ Now.op = "revert" /\ Now.at = "undo"
      /\ UNCHANGED <<git, admin, waiting, letting, attempts, wrote, gaveUp, day>>
      /\ \/ Settles([Now EXCEPT !.out = "refused"]) /\ UNCHANGED record
         \/ /\ run' = [run EXCEPT !.landing = NoLanding, !.reverted = TRUE, !.landings = S, !.status = f]
            /\ done' = done \ gone /\ Saves /\ Over
    BY DEF RevertOver, Underway, Same, today, history
<1>2. /\ run.landing # NoLanding /\ ~UnderAdmin(Now)
    BY <1>1, UndoBegun
<1>3. GitTypes' /\ Written'
    BY <1>1, GitStays DEF TypeInv
<1>4. CASE Settles([Now EXCEPT !.out = "refused"]) /\ UNCHANGED record
    <2>1. Tipped'
        BY <1>1, <1>4, TippedStays DEF TypeInv, git
    <2> QED BY <1>1, <1>2, <1>3, <1>4, <2>1, SettlesTyped
<1>5. CASE /\ run' = [run EXCEPT !.landing = NoLanding, !.reverted = TRUE, !.landings = S, !.status = f]
           /\ done' = done \ gone /\ Saves /\ Over
    <2>1. run \in RunType /\ run.on
        BY <1>2 DEF TypeInv, RecordTypes, RunIsOn, OffIsEmpty
    <2>2. f \in [Task -> Status]
        <3>1. ASSUME NEW u \in Task PROVE f[u] \in Status
            <4>1. run.status[u] \in Status
                BY <2>1 DEF RunType
            <4> QED BY <4>1, StatusLeft
        <3> QED BY <3>1
    <2>3. S \subseteq TaskWork
        BY <2>1 DEF RunType
    <2> HIDE DEF f, S
    <2>4. run' \in RunType /\ run'.landing = NoLanding /\ run'.on = run.on
        BY <1>5, <2>1, <2>2, <2>3 DEF RunType
    <2>5. OffIsEmpty(run')
        BY <2>1, <2>4 DEF OffIsEmpty
    <2>6. done' \in SUBSET Task /\ saved' \in [run : RunType, done : SUBSET Task] /\ saved'.run = run'
        BY <1>5, <2>4 DEF Saves, TypeInv, RecordTypes
    <2>7. Tipped'
        BY <2>4, <2>6, NoTips DEF Tipped
    <2>8. AttemptTypes'
        BY <1>1, AttemptsStay DEF TypeInv
    <2> QED BY <1>1, <1>2, <1>3, <1>5, <2>4, <2>5, <2>6, <2>7, <2>8, IsOverTyped DEF attempts
<1> QED BY <1>1, <1>4, <1>5

-----------------------------------------------------------------------------
(* The types are right.                                                     *)

\* The invariant says more than the types.
LEMMA TypeHolds ==
    ASSUME TypeInv
    PROVE  TypeOK
<1>1. \A r \in Repo : InSeq(line[r]) \subseteq Commit /\ head[r] \subseteq Commit
    BY DEF TypeInv, GitTypes, InSeq
<1>2. \A t \in Task : tree[t].n \in Nat /\ tree[t].work \subseteq Repo
    BY DEF TypeInv, GitTypes, TreeType
<1>3. \A t \in Task : run.status[t] \in Status /\ saved.run.status[t] \in Status
    BY DEF TypeInv, RecordTypes, RunType
<1>4. done \subseteq Task
    BY DEF TypeInv, RecordTypes
<1>5. \A i, j \in 1..Len(admin) : admin[i] = admin[j] => i = j
    BY DEF TypeInv, Admins
<1>6. /\ Turn \in InSeq(admin) => turn # <<>>
      /\ \A t \in Task : t \in InSeq(admin) => letting[t] # "no"
    BY DEF TypeInv, Admins
<1>7. /\ iwt \cap held = {} /\ iwt \cup held \subseteq Repo /\ kept \cup gaveUp \subseteq wrote /\ wrote \subseteq Work
    BY DEF TypeInv, GitTypes
<1>8. waiting \subseteq Task /\ \A t \in Task : phase[t] \in Phase
    BY DEF TypeInv, AttemptTypes
<1> QED BY <1>1, <1>2, <1>3, <1>4, <1>5, <1>6, <1>7, <1>8 DEF TypeOK

\* It holds at first.
LEMMA InitTyped ==
    ASSUME Init
    PROVE  TypeInv
<1> USE DEF Init
<1>1. GitTypes /\ Written
    <2>1. \A t \in Task : tree[t] = NoTree
        OBVIOUS
    <2>2. NoTree \in TreeType /\ NoTree.work = {} /\ ~NoTree.there
        BY DEF NoTree, TreeType
    <2>3. tree \in [Task -> TreeType] /\ \A t \in Task : tree[t].work = {} /\ ~tree[t].there
        BY <2>1, <2>2
    <2>4. line \in [Repo -> Seq(Commit)] /\ \A r \in Repo : Len(line[r]) = 0
        OBVIOUS
    <2> HIDE DEF Init
    <2>5. head \in [Repo -> SUBSET Commit] /\ iwt = {} /\ held = {} /\ kept = {} /\ gaveUp = {} /\ wrote = {}
        BY DEF Init
    <2> QED BY <2>3, <2>4, <2>5 DEF GitTypes, Written
<1>2. turn = <<>> /\ admin = <<>> /\ turn \in Seq(JobType) /\ admin \in Seq(Task \cup {Turn}) /\ Len(turn) = 0 /\ Len(admin) = 0
    OBVIOUS
<1>3. RecordTypes /\ Tipped
    BY <1>2, FreshTyped, NoTips DEF RecordTypes, Tipped
<1>4. AttemptTypes
    BY DEF AttemptTypes, Phase
<1>5. Jobs /\ Before
    BY <1>2 DEF Jobs, Before
<1>6. Admins
    BY <1>2 DEF Admins, InSeq
<1>7. RunIsOn
    BY <1>2, FreshTyped DEF RunIsOn, OffIsEmpty, PreparesOn
<1> QED BY <1>1, <1>3, <1>4, <1>5, <1>6, <1>7 DEF TypeInv

\* It is about the state alone.
LEMMA StutterTyped ==
    ASSUME TypeInv, UNCHANGED vars
    PROVE  TypeInv'
<1>1. UNCHANGED <<git, wrote, gaveUp, record, attempts, turn, admin, letting, waiting, day>>
    BY DEF vars, locks, today, history
<1>2. GitTypes' /\ Written' /\ AttemptTypes' /\ Tipped' /\ Admins'
    BY <1>1, GitStays, AttemptsStay, TippedStays, AdminsEven DEF TypeInv, git
<1>3. RunIsOn'
    BY <1>1, OnSame DEF attempts
<1> QED BY <1>1, <1>2, <1>3, RecordKept, OutOfTurn DEF git

\* Every step keeps it.
LEMMA NextTyped ==
    ASSUME TypeInv, Next
    PROVE  TypeInv'
<1>1. CASE TurnStep
    BY <1>1, AsksAdminTyped, ReplacesTyped, CutsTyped, SettlesFirstTyped, SettlesRepoTyped, SettleOverTyped,
       LandBeginsTyped, JournalsTyped, MergesTaskTyped, RecordsTyped, RemovesLandedTyped, LandOverTyped,
       MergeJudgedTyped, MergesRepoTyped, MergeOverTyped, HandsOffTyped, HandoffOverTyped, RemovesTreesTyped,
       ForgetsTyped, SweepsTyped, RevertJudgedTyped, RevertSavesTyped, RevertMovesTyped, RevertOverTyped DEF TurnStep
<1>2. CASE AdminStep \/ Drain
    BY <1>2, ReleaseAsksTyped, ReleasesTyped, DrainTyped DEF AdminStep
<1>3. CASE \E t \in Task : \/ Start(t) \/ StrayEnds(t) \/ Spawn(t) \/ Works(t) \/ Passes(t)
                           \/ MarkComplete(t) \/ Reopen(t) \/ Retry(t) \/ Revert(t)
    BY <1>3, StartTyped, StartsAstrayTyped, StrayEndsTyped, SpawnTyped, WorksTyped, PassesTyped, MarkCompleteTyped,
       ReopenTyped, RetryTyped, RevertTyped
<1>4. CASE Stop \/ MergeAll \/ Close \/ Crash \/ \E op \in {"discard", "cleanup"} : UserDiscards(op)
    BY <1>4, StopTyped, AsksTyped, CloseTyped, CrashTyped
<1>5. CASE \E r \in Repo : UserReviews(r) \/ UserCommits(r) \/ UserLeaves(r)
    BY <1>5, UserTyped, UserCommitsTyped
<1> QED BY <1>1, <1>2, <1>3, <1>4, <1>5 DEF Next

\* The record, the worktrees and the two chains are as they should be, with any tasks, repositories and
\* attempts and on every day: admin is held by the turn and by each task let go at most once, and what is kept or
\* given up was written (IsolationLocks, preserve).
THEOREM IsolationTypeCorrect == Spec => []TypeOK
<1>1. Init => TypeInv
    BY InitTyped
<1>2. TypeInv /\ [Next]_vars => TypeInv'
    BY NextTyped, StutterTyped
<1>3. TypeInv => TypeOK
    BY TypeHolds
<1> QED BY <1>1, <1>2, <1>3, PTL DEF Spec

-----------------------------------------------------------------------------
(* A revert takes nothing from under a task at work.                        *)

\* Nothing but a revert, a clean-up or a crash takes a landing off the record.
LEMMA LandingsStand ==
    ASSUME TypeInv, Next
    PROVE  \/ run.landings \subseteq run'.landings
           \/ RevertOver
           \/ ~run'.reverted
           \/ Crash
<1>0. run \in RunType
    BY DEF TypeInv, RecordTypes
<1>1. CASE TurnStep
    <2>1. CASE Replaces
        BY <1>0, <2>1 DEF Replaces, RunType
    <2>2. CASE Cuts
        BY <1>0, <2>2 DEF Cuts, RunType
    <2>3. CASE Journals
        BY <1>0, <2>3 DEF Journals, RunType, record
    <2>4. CASE Records
        BY <1>0, <2>4 DEF Records, RunType
    <2>5. CASE LandOver
        BY <1>0, <2>5 DEF LandOver, RunType
    <2>6. CASE SettleOver
        BY <1>0, <2>6 DEF SettleOver, RunType
    <2>7. CASE RemovesTrees
        BY <1>0, <2>7 DEF RemovesTrees, RunType
    <2>8. CASE Sweeps
        BY <1>0, <2>8 DEF Sweeps, RunType
    <2>9. CASE RevertJudged
        BY <1>0, <2>9 DEF RevertJudged, RunType, record
    <2>10. CASE RevertSaves
        BY <1>0, <2>10 DEF RevertSaves, RunType, record
    <2>11. CASE Forgets
        BY <2>11 DEF Forgets, FreshRun, NoRun
    <2>12. CASE \/ AsksAdmin \/ SettlesFirst \/ SettlesRepo \/ LandBegins \/ MergesTask \/ RemovesLanded
                \/ MergeJudged \/ MergesRepo \/ MergeOver \/ HandsOff \/ HandoffOver \/ CleanupOver \/ PruneBegins \/ RevertMoves
        BY <2>12 DEF AsksAdmin, SettlesFirst, SettlesRepo, LandBegins, MergesTask, RemovesLanded, MergeJudged,
                     MergesRepo, MergeOver, HandsOff, HandoffOver, CleanupOver, PruneBegins, RevertMoves, record
    <2> QED BY <1>1, <2>1, <2>2, <2>3, <2>4, <2>5, <2>6, <2>7, <2>8, <2>9, <2>10, <2>11, <2>12 DEF TurnStep
<1>2. CASE AdminStep \/ Drain
    BY <1>0, <1>2 DEF AdminStep, ReleaseAsks, Releases, Drain, RunType, record
<1>3. CASE \E t \in Task : \/ Start(t) \/ StrayEnds(t) \/ Spawn(t) \/ Works(t) \/ Passes(t)
                           \/ MarkComplete(t) \/ Reopen(t) \/ Retry(t) \/ Revert(t)
    BY <1>0, <1>3 DEF Start, StrayEnds, Spawn, Works, Passes, MarkComplete, Reopen, Retry, Revert, RunType, record, FreshRun, NoRun
<1>4. CASE Stop \/ MergeAll \/ Close \/ \E op \in {"discard", "cleanup"} : UserDiscards(op)
    BY <1>4 DEF Stop, MergeAll, Close, UserDiscards, record
<1>5. CASE \E r \in Repo : UserReviews(r) \/ UserCommits(r) \/ UserLeaves(r)
    BY <1>5 DEF UserReviews, UserCommits, UserLeaves, record
<1> QED BY <1>1, <1>2, <1>3, <1>4, <1>5 DEF Next

\* What depends on what depends on a task depends on it.
LEMMA ReachGoesOn ==
    ASSUME NEW t \in Task, NEW u \in Reach(t), NEW v \in Reach(u)
    PROVE  v \in Reach(t) /\ v \in Task
BY SomeTasks DEF Reach, Dependents, Dependencies

\* A revert takes a landing back only with every task that depends on it at rest, one admitted or marked
\* complete while it waited for the turn included (revertRefusalNow, judged again with the commits made).
THEOREM RevertsTakeFromNobody == Spec => RevertsUnderNobody
<1> DEFINE A == run'.reverted => \A w \in run.landings \ run'.landings : \A t \in Reach(w[1]) : phase'[t] = "rest"
<1>1. ASSUME TypeInv, Next PROVE A
    <2> SUFFICES ASSUME run'.reverted, NEW w \in run.landings, w \notin run'.landings, NEW t \in Reach(w[1])
                 PROVE  phase'[t] = "rest"
        OBVIOUS
    <2>0. w \in TaskWork /\ w[1] \in Task
        BY <1>1 DEF TypeInv, RecordTypes, RunType, TaskWork
    <2>1. t \in Task
        BY <2>0, ReachGoesOn DEF Reach, Dependents
    <2>2. CASE Crash
        BY <2>1, <2>2 DEF Crash
    <2>3. CASE RevertOver
        <3>1. /\ turn # <<>> /\ Now.op = "revert" /\ Now.at = "undo"
              /\ UNCHANGED attempts
              /\ UNCHANGED run \/ (~RefusedLate(Now.task) /\ \E f : run' = [run EXCEPT !.landing = NoLanding, !.reverted = TRUE,
                                  !.landings = {v \in @ : v[1] \notin {x[1] : x \in Taken(Now.task)}}, !.status = f])
            BY <2>3 DEF RevertOver, Underway, record
        <3>2. run \in RunType
            BY <1>1 DEF TypeInv, RecordTypes
        <3>3. ~RefusedLate(Now.task) /\ w[1] \in {x[1] : x \in Taken(Now.task)}
            BY <3>1, <3>2 DEF RunType
        <3>4. Now.task \in Task /\ w[1] \in Reach(Now.task)
            BY <1>1, <3>1, <3>3, UndoBegun DEF Taken
        <3>5. t \in Reach(Now.task)
            BY <3>4, ReachGoesOn
        <3>6. phase[t] = "rest"
            BY <2>1, <3>3, <3>5 DEF RefusedLate, RevertRefused, LiveTasks, Live
        <3> QED BY <3>1, <3>6 DEF attempts
    <2> QED BY <1>1, <2>2, <2>3, LandingsStand
<1>2. ASSUME UNCHANGED vars PROVE UNCHANGED record
    BY <1>2 DEF vars
<1>3. TypeInv /\ [Next]_vars => [A]_record
    BY <1>1, <1>2
<1>4. Init => TypeInv
    BY InitTyped
<1>5. TypeInv /\ [Next]_vars => TypeInv'
    BY NextTyped, StutterTyped
<1> QED BY <1>3, <1>4, <1>5, PTL DEF Spec, RevertsUnderNobody, A
=============================================================================
