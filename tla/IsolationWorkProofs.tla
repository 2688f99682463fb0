------------------------- MODULE IsolationWorkProofs -------------------------
(***************************************************************************)
(* Proofs that isolated execution loses no work but what was exposed, and  *)
(* that no worktree stands on work rolled back beneath it but the loose    *)
(* ones (Isolation), for every number of tasks, repositories and attempts  *)
(* and on every day, crashes and failing rollbacks included.               *)
(***************************************************************************)
EXTENDS IsolationProofs

\* What a rollback of the landing on record would take has been told to be exposed.
RiskTold == AtRisk \subseteq exposed

\* No worktree is cut from above a tip that a landing on record, or on disk, goes back to, but the loose ones.
Below(L) == \A r \in DOMAIN L.tips : \A t \in Task \ loose : tree[t].there => tree[t].base[r] <= L.tips[r]
StandsBelow == Below(run.landing) /\ Below(saved.run.landing)

\* No worktree is where one is about to be cut, and none at all as the branches go; a landing's record is
\* without it by the time its worktree goes.
Cleared ==
    turn # <<>> =>
        /\ Now.at = "cut" => ~tree[Now.task].there
        /\ Now.at = "branches" => \A t \in Task : ~tree[t].there
        /\ Now.at = "remove" => run.landing = NoLanding

WorkInv == WorkSurvives /\ StandsOnLanded /\ RiskTold /\ StandsBelow /\ Cleared

Marks == {"cut", "branches", "remove"}
keeps == <<line, head, tree, kept, wrote, gaveUp, exposed, loose>>

-----------------------------------------------------------------------------
(* What moves the branches, the worktrees and the landing on the record.    *)

\* Steps that touch neither a branch, a worktree nor what is kept, and those that do.
LEMMA GitMoves ==
    ASSUME Next
    PROVE  \/ UNCHANGED keeps
           \/ Replaces \/ RemovesLanded \/ RemovesTrees \/ Sweeps \/ Cuts
           \/ \E t \in Task : Releases(t) \/ Works(t) \/ Reopen(t)
           \/ MergesTask \/ RevertMoves \/ SettlesRepo \/ MergesRepo \/ Forgets \/ Crash
           \/ \E r \in Repo : UserCommits(r)
<1> USE DEF keeps, git, history
<1>1. CASE TurnStep
    BY <1>1 DEF TurnStep, AsksAdmin, SettlesFirst, SettleOver, LandBegins, Journals, Records, LandOver, MergeJudged, MergeOver,
                HandsOff, HandoffOver, CleanupOver, PruneBegins, RevertJudged, RevertSaves, RevertOver
<1>2. CASE AdminStep \/ Drain
    BY <1>2 DEF AdminStep, ReleaseAsks, Drain
<1>3. CASE \E t \in Task : \/ Start(t) \/ StrayEnds(t) \/ Spawn(t) \/ Works(t) \/ Passes(t)
                           \/ MarkComplete(t) \/ Reopen(t) \/ Retry(t) \/ Revert(t)
    <2>1. ASSUME NEW t \in Task, Start(t) PROVE UNCHANGED keeps
        BY <2>1 DEF Start
    <2>2. ASSUME NEW t \in Task, StrayEnds(t) \/ Spawn(t) \/ Passes(t) \/ Revert(t) PROVE UNCHANGED keeps
        BY <2>2 DEF StrayEnds, Spawn, Passes, Revert
    <2>3. ASSUME NEW t \in Task, MarkComplete(t) \/ Retry(t) PROVE UNCHANGED keeps
        BY <2>3 DEF MarkComplete, Retry, Dooms
    <2> QED BY <1>3, <2>1, <2>2, <2>3
<1>4. CASE Stop \/ MergeAll \/ Close \/ Crash \/ \E op \in {"discard", "cleanup"} : UserDiscards(op)
    BY <1>4 DEF Stop, MergeAll, Close, UserDiscards
<1>5. CASE \E r \in Repo : UserReviews(r) \/ UserCommits(r) \/ UserLeaves(r)
    BY <1>5 DEF UserReviews, UserLeaves
<1> QED BY <1>1, <1>2, <1>3, <1>4, <1>5 DEF Next

\* The ways a worktree goes: with what it alone holds kept, and nothing else touched.
TreesLeave(S) ==
    /\ UNCHANGED <<line, head, wrote, gaveUp, loose>> /\ exposed \subseteq exposed'
    /\ kept' = kept \cup PreservedOf(S)
    /\ tree' = [t \in Task |-> IF t \in S THEN [tree[t] EXCEPT !.there = FALSE] ELSE tree[t]]

\* Each step that removes worktrees does it so (removeTask, removeUnowned).
LEMMA AllLeave ==
    ASSUME TypeInv, Replaces \/ RemovesLanded \/ RemovesTrees \/ Sweeps \/ \E t \in Task : Releases(t)
    PROVE  \/ \E S \in SUBSET Task : TreesLeave(S)
           \/ UNCHANGED <<line, head, tree, kept, wrote, gaveUp, loose>> /\ exposed \subseteq exposed'
<1>1. GitTypes
    BY DEF TypeInv
<1>2. CASE Replaces
    <2>1. Now.task \in Task
        BY <1>2, NowFits DEF Replaces, Underway, TypeInv, RecordTypes, JobFits
    <2> QED BY <1>1, <1>2, <2>1, TreeGoes, {Now.task} \in SUBSET Task DEF Replaces, TreesLeave, Exposes
<1>3. CASE RemovesLanded
    <2>1. Now.task \in Task
        BY <1>3, NowFits DEF RemovesLanded, Underway, TypeInv, RecordTypes, JobFits
    <2> QED BY <1>1, <1>3, <2>1, TreeGoes, {Now.task} \in SUBSET Task DEF RemovesLanded, TreesLeave, history
<1>4. CASE RemovesTrees
    <2>1. tree' = [t \in Task |-> IF t \in Task THEN [tree[t] EXCEPT !.there = FALSE] ELSE tree[t]]
        BY <1>4 DEF RemovesTrees
    <2> QED BY <1>4, <2>1, Task \in SUBSET Task DEF RemovesTrees, TreesLeave, Exposes
<1>5. CASE Sweeps
    BY <1>5, Orphans \in SUBSET Task DEF Sweeps, TreesLeave, Orphans, Exposes
<1>6. ASSUME NEW t \in Task, Releases(t)
      PROVE  TreesLeave({t}) \/ (UNCHANGED <<line, head, tree, kept, wrote, gaveUp, loose>> /\ exposed \subseteq exposed')
    BY <1>1, <1>6, TreeGoes DEF Releases, TreesLeave, Exposes
<1> QED BY <1>2, <1>3, <1>4, <1>5, <1>6

\* What is left of worktrees that go: their branch's number, what they held and where they were cut.
LEMMA TreesLeft ==
    ASSUME TypeInv, NEW S \in SUBSET Task, TreesLeave(S)
    PROVE  \A t \in Task : /\ tree'[t].n = tree[t].n /\ tree'[t].work = tree[t].work /\ tree'[t].base = tree[t].base
                           /\ tree'[t].there <=> tree[t].there /\ t \notin S
BY DEF TypeInv, GitTypes, TreeType, TreesLeave

\* A commit on a branch takes none of what is there.
LEMMA LinesGrow ==
    ASSUME TypeInv, NEW r \in Repo, NEW c, line' = [line EXCEPT ![r] = Append(@, c)]
    PROVE  /\ \A x \in Repo : x # r => line'[x] = line[x]
           /\ Len(line[r]) \in Nat /\ Len(line'[r]) = Len(line[r]) + 1 /\ line'[r][Len(line[r]) + 1] = c
           /\ \A i \in 1..Len(line[r]) : line'[r][i] = line[r][i]
<1>1. line[r] \in Seq(Commit) /\ line'[r] = Append(line[r], c) /\ \A x \in Repo : x # r => line'[x] = line[x]
    BY DEF TypeInv, GitTypes
<1>2. line[r] \in Seq(Commit \cup {c})
    BY <1>1, SeqMonotonic
<1> QED BY <1>1, <1>2, AppendProperties, LenProperties

\* The repository a rollback comes to, and what becomes of its branch.
LEMMA RepoSettles ==
    ASSUME TypeInv, SettlesRepo
    PROVE  /\ turn # <<>> /\ Now.at = "settle" /\ run.landing # NoLanding /\ run.landing \in Landing
           /\ \E r \in Now.todo :
                /\ r = Lowest(Now.todo) /\ r \in Tips /\ r \in Repo
                /\ run.landing.tips[r] \in 0..Len(line[r])
                /\ UNCHANGED line \/ (Restorable(r) /\ line' = [line EXCEPT ![r] = SubSeq(@, 1, run.landing.tips[r])])
           /\ UNCHANGED <<head, iwt, held, tree, kept, record, admin, waiting, letting, attempts, history>>
<1>1. /\ turn # <<>> /\ Now.at = "settle" /\ Now.todo # {}
      /\ UNCHANGED <<head, iwt, held, tree, kept, record, admin, waiting, letting, attempts, history>>
      /\ \/ UNCHANGED line
         \/ /\ Restorable(Lowest(Now.todo))
            /\ line' = [line EXCEPT ![Lowest(Now.todo)] = SubSeq(@, 1, run.landing.tips[Lowest(Now.todo)])]
    BY DEF SettlesRepo
<1>2. run.landing # NoLanding /\ Now.todo \subseteq Tips
    BY <1>1 DEF TypeInv, Before
<1>3. run.landing \in Landing
    BY <1>2 DEF TypeInv, RecordTypes, RunType
<1>4. Tips \subseteq Repo /\ \A r \in Tips : run.landing.tips[r] \in Nat
    BY <1>3, LandingParts DEF Tips
<1> DEFINE r == Lowest(Now.todo)
<1>5. r \in Now.todo /\ r \in Tips /\ r \in Repo
    BY <1>1, <1>2, <1>4, LowestRepo
<1>6. run.landing.tips[r] <= Len(line[r]) /\ Len(line[r]) \in Nat
    <2>1. Len(line[r]) \in Nat
        BY <1>5, LenProperties DEF TypeInv, GitTypes
    <2>2. run.landing = saved.run.landing
        BY <1>2 DEF TypeInv, Tipped
    <2> QED BY <1>5, <2>1, <2>2 DEF TypeInv, Tipped, Tips
<1> QED BY <1>1, <1>2, <1>3, <1>4, <1>5, <1>6

\* A branch cut back to a tip has what it had up to there.
LEMMA CutBack ==
    ASSUME TypeInv, NEW r \in Repo, NEW k \in 0..Len(line[r]), line' = [line EXCEPT ![r] = SubSeq(@, 1, k)]
    PROVE  /\ \A x \in Repo : x # r => line'[x] = line[x]
           /\ Len(line'[r]) = k /\ \A i \in 1..k : line'[r][i] = line[r][i]
<1>1. line[r] \in Seq(Commit) /\ line'[r] = SubSeq(line[r], 1, k) /\ \A x \in Repo : x # r => line'[x] = line[x]
    BY DEF TypeInv, GitTypes
<1>2. Len(line[r]) \in Nat
    BY <1>1, LenProperties
<1>3. k + 1 - 1 = k /\ k \in Nat /\ 1..k \subseteq 1..Len(line[r])
    BY <1>2
<1>4. \A i \in 1..k : 1 + i - 1 = i
    BY <1>3
<1>5. Len(SubSeq(line[r], 1, k)) = k /\ \A i \in 1..k : SubSeq(line[r], 1, k)[i] = line[r][i]
    BY <1>1, <1>2, <1>3, <1>4, SubSeqProperties
<1> QED BY <1>1, <1>5

\* What comes on a branch comes on its end.
LEMMA LineMoves ==
    ASSUME TypeInv, MergesTask \/ RevertMoves \/ \E r \in Repo : UserCommits(r)
    PROVE  UNCHANGED line \/ \E r \in Repo : \E c : line' = [line EXCEPT ![r] = Append(@, c)]
<1>1. CASE MergesTask
    <2>1. UNCHANGED line \/ \E c : line' = [line EXCEPT ![Lowest(Now.todo)] = Append(@, c)]
        BY <1>1 DEF MergesTask
    <2>2. Lowest(Now.todo) \in Repo
        <3>1. Now.todo # {} /\ Now.todo \subseteq Tips /\ run.landing # NoLanding
            BY <1>1 DEF MergesTask, Underway, TypeInv, Before
        <3>2. Tips \subseteq Repo
            BY <3>1, LandingParts DEF Tips, TypeInv, RecordTypes, RunType
        <3> QED BY <3>1, <3>2, LowestRepo
    <2> QED BY <2>1, <2>2
<1>2. CASE RevertMoves
    <2>1. UNCHANGED line \/ \E w \in Now.todo : \E c : line' = [line EXCEPT ![w[3]] = Append(@, c)]
        BY <1>2 DEF RevertMoves
    <2>2. \A w \in Now.todo : w[3] \in Repo
        BY <1>2 DEF RevertMoves, Underway, TypeInv, Before, TaskWork
    <2> QED BY <2>1, <2>2
<1>3. CASE \E r \in Repo : UserCommits(r)
    BY <1>3 DEF UserCommits
<1> QED BY <1>1, <1>2, <1>3

\* What is above a tip on a branch.
LEMMA AboveSaid ==
    ASSUME NEW S, NEW s \in Seq(S), NEW k \in Nat
    PROVE  InSeq(SubSeq(s, k + 1, Len(s))) = {s[i] : i \in k + 1..Len(s)}
<1>1. Len(s) \in Nat /\ \A i \in 1..Len(s) : s[i] \in S
    BY LenProperties
<1>2. \A i \in k + 1..Len(s) : i \in 1..Len(s)
    BY <1>1
<1> DEFINE u == SubSeq(s, k + 1, Len(s))
<1>3. /\ Len(u) = IF k + 1 <= Len(s) THEN Len(s) - (k + 1) + 1 ELSE 0
      /\ \A i \in 1..Len(s) - (k + 1) + 1 : u[i] = s[k + 1 + i - 1]
    BY <1>1, <1>2, SubSeqProperties, k + 1 \in Int, Len(s) \in Int
<1> HIDE DEF u
<1>4. \A i \in 1..Len(u) : i \in 1..Len(s) - (k + 1) + 1 /\ k + 1 + i - 1 = k + i /\ k + i \in k + 1..Len(s)
    BY <1>1, <1>3
<1>5. \A i \in k + 1..Len(s) : i - k \in 1..Len(u) /\ i - k \in 1..Len(s) - (k + 1) + 1 /\ k + 1 + (i - k) - 1 = i
    BY <1>1, <1>3
<1>6. ASSUME NEW i \in 1..Len(u) PROVE u[i] \in {s[j] : j \in k + 1..Len(s)}
    <2>1. u[i] = s[k + i]
        BY <1>3, <1>4
    <2> QED BY <1>4, <2>1
<1>7. ASSUME NEW i \in k + 1..Len(s) PROVE \E j \in 1..Len(u) : u[j] = s[i]
    <2>1. u[i - k] = s[i]
        BY <1>3, <1>5
    <2> QED BY <1>5, <2>1
<1> QED BY <1>6, <1>7 DEF InSeq, u

\* How the landing on the record changes, and what is on disk of it.
LEMMA LandingMoves ==
    ASSUME TypeInv, Next
    PROVE  /\ \/ run'.landing = run.landing \/ run'.landing = NoLanding
              \/ Journals \/ RevertJudged \/ RevertSaves \/ Crash
           /\ saved'.run.landing \in {saved.run.landing, run'.landing}
<1> DEFINE Disk == saved'.run.landing \in {saved.run.landing, run'.landing}
<1>0. run \in RunType /\ (Saves \/ UNCHANGED saved => Disk)
    BY DEF TypeInv, RecordTypes, Saves
<1> HIDE DEF Disk
<1>1. CASE TurnStep
    <2>1. CASE Replaces
        BY <1>0, <2>1 DEF Replaces, RunType
    <2>2. CASE Cuts
        BY <1>0, <2>2 DEF Cuts, RunType
    <2>3. CASE Journals \/ RevertJudged \/ RevertSaves
        BY <1>0, <2>3 DEF Journals, RevertJudged, RevertSaves, JournalSaves, record, Disk
    <2>4. CASE Records
        BY <1>0, <2>4 DEF Records, RunType
    <2>5. CASE LandOver
        BY <1>0, <2>5 DEF LandOver, RunType, Disk
    <2>6. CASE SettleOver
        BY <1>0, <2>6 DEF SettleOver, RunType
    <2>7. CASE RemovesTrees
        BY <1>0, <2>7 DEF RemovesTrees, RunType
    <2>8. CASE Sweeps
        BY <1>0, <2>8 DEF Sweeps, RunType
    <2>9. CASE RevertOver
        <3>1. run'.landing \in {run.landing, NoLanding}
            BY <1>0, <2>9 DEF RevertOver, RunType, record
        <3>2. Saves \/ UNCHANGED saved
            BY <2>9 DEF RevertOver, record
        <3> QED BY <1>0, <3>1, <3>2 DEF Disk
    <2>10. CASE Forgets
        BY <1>0, <2>10, FreshTyped DEF Forgets, Disk
    <2>11. CASE MergeOver \/ HandoffOver \/ CleanupOver
        BY <1>0, <2>11 DEF MergeOver, HandoffOver, CleanupOver, Disk
    <2>12. CASE \/ AsksAdmin \/ SettlesFirst \/ SettlesRepo \/ LandBegins \/ MergesTask \/ RemovesLanded
                \/ MergeJudged \/ MergesRepo \/ HandsOff \/ PruneBegins \/ RevertMoves
        BY <1>0, <2>12 DEF AsksAdmin, SettlesFirst, SettlesRepo, LandBegins, MergesTask, RemovesLanded, MergeJudged,
                           MergesRepo, HandsOff, PruneBegins, RevertMoves, record
    <2> QED BY <1>1, <2>1, <2>2, <2>3, <2>4, <2>5, <2>6, <2>7, <2>8, <2>9, <2>10, <2>11, <2>12 DEF TurnStep
<1>2. CASE AdminStep \/ Drain
    <2>1. ASSUME NEW t \in Task, Releases(t) PROVE run'.landing = run.landing /\ Disk
        <3>1. run' = run \/ \E f : run' = [run EXCEPT !.status[t] = f]
            BY <2>1 DEF Releases
        <3>2. Saves
            BY <2>1 DEF Releases
        <3> QED BY <1>0, <3>1, <3>2 DEF RunType
    <2>2. ASSUME NEW t \in Task, ReleaseAsks(t) PROVE run'.landing = run.landing /\ Disk
        BY <1>0, <2>2 DEF ReleaseAsks, record
    <2>3. ASSUME Drain PROVE run'.landing = run.landing /\ Disk
        BY <1>0, <2>3 DEF Drain, record
    <2> QED BY <1>2, <2>1, <2>2, <2>3 DEF AdminStep, Disk
<1>3. ASSUME NEW t \in Task, Start(t)
      PROVE  run'.landing \in {run.landing, NoLanding} /\ Disk
    <2>1. UNCHANGED <<run, saved>> \/ (run' = FreshRun /\ Saves)
        BY <1>3 DEF Start
    <2> QED BY <1>0, <2>1, FreshTyped
<1>4. CASE \E t \in Task : StrayEnds(t) \/ Spawn(t) \/ Works(t) \/ Passes(t) \/ MarkComplete(t) \/ Reopen(t) \/ Retry(t) \/ Revert(t)
    BY <1>0, <1>4 DEF StrayEnds, Spawn, Works, Passes, MarkComplete, Reopen, Retry, Revert, RunType, record, Disk
<1>5. CASE Stop \/ MergeAll \/ Close \/ Crash \/ \E op \in {"discard", "cleanup"} : UserDiscards(op)
    BY <1>0, <1>5 DEF Stop, MergeAll, Close, UserDiscards, Crash, record
<1>6. CASE \E r \in Repo : UserReviews(r) \/ UserCommits(r) \/ UserLeaves(r)
    BY <1>0, <1>6 DEF UserReviews, UserCommits, UserLeaves, record
<1> QED BY <1>1, <1>2, <1>3, <1>4, <1>5, <1>6 DEF Next, Disk

\* A landing journaled, or a revert, goes back to the tips as they are; a revert's next commit leaves them.
LEMMA LandingComes ==
    ASSUME TypeInv, Journals \/ RevertJudged \/ RevertSaves
    PROVE  /\ UNCHANGED keeps
           /\ \/ run'.landing = run.landing
              \/ run'.landing.reverts /\ run'.landing.tips = run.landing.tips
              \/ \E R \in SUBSET Repo : run'.landing.tips = [r \in R |-> Len(line[r])]
           /\ run'.landing = run.landing \/ run'.landing.reverts \/ Journals
<1>0. run \in RunType /\ UNCHANGED keeps
    BY DEF TypeInv, RecordTypes, Journals, RevertJudged, RevertSaves, keeps, git, history
<1>1. CASE Journals
    <2>1. run' = run \/ \E m : run' = [run EXCEPT !.landing = [task |-> Now.task, tips |-> [r \in Unlanded(Now.task) |-> Len(line[r])],
                                                               reverts |-> FALSE, made |-> m]]
        BY <1>1 DEF Journals, record
    <2>2. CASE run' # run
        <3>1. Now.task \in Task /\ tree[Now.task].work \subseteq Repo
            <4>1. Now.task \in Task
                BY <1>1, NowFits DEF Journals, Underway, TypeInv, RecordTypes, JobFits
            <4> QED BY <4>1 DEF TypeInv, GitTypes, TreeType
        <3>2. Unlanded(Now.task) \in SUBSET Repo
            BY <3>1 DEF Unlanded
        <3> DEFINE R == Unlanded(Now.task)
        <3>3. PICK m : run' = [run EXCEPT !.landing = [task |-> Now.task, tips |-> [r \in R |-> Len(line[r])],
                                                       reverts |-> FALSE, made |-> m]]
            BY <2>1, <2>2
        <3> HIDE DEF R
        <3>4. run'.landing.tips = [r \in R |-> Len(line[r])]
            BY <1>0, <3>3 DEF RunType
        <3> QED BY <1>0, <1>1, <3>2, <3>4 DEF R
    <2> QED BY <1>0, <1>1, <2>2
<1>2. CASE RevertJudged
    <2> DEFINE R == {w[3] : w \in Taken(Now.task)}
    <2>1. run' = run \/ \E m : run' = [run EXCEPT !.landing = [task |-> Now.task, tips |-> [r \in R |-> Len(line[r])],
                                                               reverts |-> TRUE, made |-> m]]
        BY <1>2 DEF RevertJudged, record
    <2>2. R \in SUBSET Repo
        BY <1>0 DEF Taken, RunType, TaskWork
    <2> HIDE DEF R
    <2>3. ASSUME NEW m, run' = [run EXCEPT !.landing = [task |-> Now.task, tips |-> [r \in R |-> Len(line[r])],
                                                        reverts |-> TRUE, made |-> m]]
          PROVE  run'.landing.tips = [r \in R |-> Len(line[r])] /\ run'.landing.reverts
        BY <1>0, <2>3 DEF RunType
    <2> QED BY <1>0, <2>1, <2>2, <2>3
<1>3. CASE RevertSaves
    <2>1. run.landing \in Landing /\ run.landing.reverts
        BY <1>3, UndoBegun DEF RevertSaves, Underway
    <2>2. run' = run \/ \E r, m : run' = [run EXCEPT !.landing.made[r] = m]
        BY <1>3 DEF RevertSaves, record
    <2>3. ASSUME NEW r, NEW m, run' = [run EXCEPT !.landing.made[r] = m]
          PROVE  run'.landing.reverts /\ run'.landing.tips = run.landing.tips
        <3>1. run'.landing = [run.landing EXCEPT !.made = [run.landing.made EXCEPT ![r] = m]]
            BY <1>0, <2>3 DEF RunType
        <3>2. run.landing = [task |-> run.landing.task, tips |-> run.landing.tips, reverts |-> run.landing.reverts, made |-> run.landing.made]
            BY <2>1, LandingParts
        <3> QED BY <2>1, <3>1, <3>2
    <2> QED BY <1>0, <2>2, <2>3
<1> QED BY <1>0, <1>1, <1>2, <1>3

-----------------------------------------------------------------------------
(* Worktrees stand on what landed.                                          *)

\* A worktree that is there was there and is where it was, or is cut or brought to the tips as they are with no
\* landing on record, or is loose.
LEMMA TreesMove ==
    ASSUME TypeInv, Next, NEW t \in Task \ loose', tree'[t].there
    PROVE  \/ t \notin loose /\ tree[t].there /\ tree'[t].base = tree[t].base
           \/ /\ run.landing = NoLanding /\ saved.run.landing = NoLanding /\ run'.landing = NoLanding
              /\ UNCHANGED line
              /\ \A r \in Repo : tree'[t].base[r] = Len(line[r]) \/ (t \notin loose /\ tree[t].there /\ tree'[t].base[r] = tree[t].base[r])
<1>0. \A u \in Task : tree[u] \in TreeType
    BY DEF TypeInv, GitTypes
<1>1. CASE UNCHANGED <<tree, loose>>
    BY <1>1
<1>2. CASE Replaces \/ RemovesLanded \/ RemovesTrees \/ Sweeps \/ \E u \in Task : Releases(u)
    <2>1. ASSUME NEW S \in SUBSET Task, TreesLeave(S) PROVE t \notin loose /\ tree[t].there /\ tree'[t].base = tree[t].base
        BY <2>1, TreesLeft DEF TreesLeave
    <2> QED BY <1>1, <1>2, <2>1, AllLeave
<1>3. CASE Cuts
    <2>1. /\ tree' = [tree EXCEPT ![Now.task] = [n |-> Now.n, there |-> TRUE, work |-> {}, base |-> [r \in Repo |-> Len(line[r])]]]
          /\ UNCHANGED line /\ run' = [run EXCEPT !.status[Now.task] = "active"]
          /\ loose' = IF OnRecordedTips /\ ~Midway THEN loose \cup {Now.task} ELSE loose \ {Now.task}
        BY <1>3 DEF Cuts
    <2>2. ~Midway
        <3>1. Jobs /\ turn # <<>> /\ turn \in Seq(JobType) /\ Now.at = "cut"
            BY <1>3 DEF Cuts, Underway, TypeInv, RecordTypes
        <3>2. turn[1].at = "cut"
            BY <3>1, NowFits
        <3> QED BY <3>1, <3>2 DEF Midway, Jobs
    <2>3. CASE t = Now.task
        <3>1. ~OnRecordedTips
            BY <2>1, <2>2, <2>3
        <3>2. run'.landing = run.landing
            BY <2>1 DEF TypeInv, RecordTypes, RunType
        <3>3. tree'[t].base = [r \in Repo |-> Len(line[r])]
            BY <2>1, <2>3 DEF TypeInv, GitTypes
        <3> QED BY <2>1, <3>1, <3>2, <3>3 DEF OnRecordedTips
    <2>4. CASE t # Now.task
        BY <2>1, <2>2, <2>4 DEF TypeInv, GitTypes
    <2> QED BY <2>3, <2>4
<1>4. ASSUME NEW u \in Task, Works(u) PROVE t \notin loose /\ tree[t].there /\ tree'[t].base = tree[t].base
    <2>1. UNCHANGED loose /\ \E R : tree' = [tree EXCEPT ![u].work = R]
        BY <1>4 DEF Works
    <2> QED BY <1>0, <2>1 DEF TypeInv, GitTypes, TreeType
<1>5. CASE \E u \in Task : Reopen(u)
    <2>0. PICK u \in Task : Reopen(u)
        BY <1>5
    <2> DEFINE b == [r \in Repo |-> IF r \in tree[u].work THEN Len(line[r]) ELSE tree[u].base[r]]
    <2>1. /\ UNCHANGED line /\ tree' = [tree EXCEPT ![u].base = b] /\ tree[u].there
          /\ run' = [run EXCEPT !.status[u] = "repairing"]
          /\ loose' = IF OnRecordedTips THEN loose \cup {u} ELSE loose
        BY <2>0 DEF Reopen
    <2>2. \A r \in Repo : b[r] = Len(line[r]) \/ b[r] = tree[u].base[r]
        OBVIOUS
    <2> HIDE DEF b
    <2>3. \A v \in Task : tree'[v].there = tree[v].there /\ (v # u => tree'[v].base = tree[v].base) /\ (v = u => tree'[v].base = b)
        BY <1>0, <2>1 DEF TypeInv, GitTypes, TreeType
    <2>4. run'.landing = run.landing
        BY <2>1 DEF TypeInv, RecordTypes, RunType
    <2> QED BY <2>1, <2>2, <2>3, <2>4 DEF OnRecordedTips
<1>6. CASE MergesTask \/ RevertMoves \/ SettlesRepo \/ MergesRepo \/ Forgets \/ Crash \/ \E r \in Repo : UserCommits(r)
    BY <1>1, <1>6 DEF MergesTask, RevertMoves, SettlesRepo, MergesRepo, Forgets, Crash, Exposes, UserCommits, history, git
<1> QED BY <1>1, <1>2, <1>3, <1>4, <1>5, <1>6, GitMoves DEF keeps

\* A worktree stands on what landed, whatever comes or goes (prepare takes the turn; no rollback goes below a tip).
LEMMA StandsNext ==
    ASSUME TypeInv, WorkInv, Next
    PROVE  StandsOnLanded'
<1>0. \A x \in Repo : Len(line[x]) \in Nat
    BY LenProperties DEF TypeInv, GitTypes
<1>00. \A t \in Task : \A x \in Repo : tree[t].base[x] \in Nat
    BY DEF TypeInv, GitTypes, TreeType
<1> SUFFICES ASSUME NEW t \in Task \ loose', tree'[t].there, NEW r \in Repo
             PROVE  tree'[t].base[r] <= Len(line'[r])
    BY DEF StandsOnLanded
<1>1. t \notin loose /\ tree[t].there => tree[t].base[r] <= Len(line[r])
    BY DEF WorkInv, StandsOnLanded
<1>2. CASE UNCHANGED line
    BY <1>0, <1>1, <1>2, TreesMove
<1>3. CASE ~UNCHANGED line
    <2>1. t \notin loose /\ tree[t].there /\ tree'[t].base = tree[t].base
        BY <1>3, TreesMove
    <2>2. \/ MergesTask \/ RevertMoves \/ SettlesRepo \/ Forgets \/ \E x \in Repo : UserCommits(x)
        <3>1. ~(Replaces \/ RemovesLanded \/ RemovesTrees \/ Sweeps \/ \E u \in Task : Releases(u))
            BY <1>3, AllLeave DEF TreesLeave
        <3>2. ~(Cuts \/ MergesRepo \/ Crash \/ \E u \in Task : Works(u) \/ Reopen(u))
            BY <1>3 DEF Cuts, MergesRepo, Crash, Works, Reopen, git
        <3> QED BY <1>3, <3>1, <3>2, GitMoves DEF keeps
    <2>3. CASE SettlesRepo
        <3>1. PICK x \in Repo : x \in Tips /\ run.landing.tips[x] \in 0..Len(line[x]) /\ line' = [line EXCEPT ![x] = SubSeq(@, 1, run.landing.tips[x])]
            BY <1>3, <2>3, RepoSettles
        <3>2. (\A y \in Repo : y # x => line'[y] = line[y]) /\ Len(line'[x]) = run.landing.tips[x]
            BY <3>1, CutBack
        <3>3. tree[t].base[x] <= run.landing.tips[x]
            BY <2>1, <3>1 DEF WorkInv, StandsBelow, Below, Tips
        <3> QED BY <1>1, <2>1, <3>2, <3>3
    <2>4. CASE Forgets
        BY <2>1, <2>4 DEF Forgets, Underway, WorkInv, Cleared
    <2>5. CASE MergesTask \/ RevertMoves \/ \E x \in Repo : UserCommits(x)
        <3>1. PICK x \in Repo : \E c : line' = [line EXCEPT ![x] = Append(@, c)]
            BY <1>3, <2>5, LineMoves
        <3>2. Len(line[r]) <= Len(line'[r]) /\ Len(line'[r]) \in Nat
            BY <1>0, <3>1, LinesGrow
        <3>3. \A a, b, d \in Nat : a <= b /\ b <= d => a <= d
            OBVIOUS
        <3> QED BY <1>0, <1>00, <1>1, <2>1, <3>2, <3>3
    <2> QED BY <2>2, <2>3, <2>4, <2>5
<1> QED BY <1>2, <1>3

\* Nor do the tips on record, or on disk, go below one.
LEMMA BelowNext ==
    ASSUME TypeInv, WorkInv, Next
    PROVE  StandsBelow'
<1>1. ASSUME NEW L, Below(L), L = run.landing \/ L = saved.run.landing PROVE Below(L)'
    <2> SUFFICES ASSUME NEW r \in DOMAIN L.tips, NEW t \in Task \ loose', tree'[t].there PROVE tree'[t].base[r] <= L.tips[r]
        BY DEF Below
    <2>1. L # NoLanding
        BY NoTips
    <2>2. t \notin loose /\ tree[t].there /\ tree'[t].base = tree[t].base
        BY <1>1, <2>1, TreesMove
    <2> QED BY <1>1, <2>2 DEF Below
<1>2. Below(run.landing)' 
    <2>1. CASE run'.landing = run.landing
        BY <1>1, <2>1 DEF WorkInv, StandsBelow, Below
    <2>2. CASE run'.landing = NoLanding
        BY <2>2, NoTips DEF Below
    <2>3. CASE Crash
        <3>1. run' = saved.run
            BY <2>3 DEF Crash
        <3> QED BY <1>1, <3>1 DEF WorkInv, StandsBelow, Below
    <2>4. CASE Journals \/ RevertJudged \/ RevertSaves
        <3>1. UNCHANGED <<tree, loose>>
            BY <2>4, LandingComes DEF keeps
        <3>2. CASE run'.landing.tips = run.landing.tips
            BY <3>1, <3>2 DEF WorkInv, StandsBelow, Below
        <3>3. ASSUME NEW R \in SUBSET Repo, run'.landing.tips = [r \in R |-> Len(line[r])] PROVE Below(run.landing)'
            <4>1. \A r \in R : \A t \in Task \ loose : tree[t].there => tree[t].base[r] <= Len(line[r])
                BY DEF WorkInv, StandsOnLanded
            <4> QED BY <3>1, <3>3, <4>1 DEF Below
        <3> QED BY <2>1, <2>4, <3>2, <3>3, LandingComes
    <2> QED BY <2>1, <2>2, <2>3, <2>4, LandingMoves
<1>3. Below(saved.run.landing)'
    <2>1. CASE saved'.run.landing = saved.run.landing
        BY <1>1, <2>1 DEF WorkInv, StandsBelow, Below
    <2>2. CASE saved'.run.landing = run'.landing
        BY <1>2, <2>2 DEF Below
    <2> QED BY <2>1, <2>2, LandingMoves
<1> QED BY <1>2, <1>3 DEF StandsBelow

-----------------------------------------------------------------------------
(* Work is never lost.                                                      *)

\* Where work may be: in the worktree that made it, on an integration branch, in the user's branch.
CommitOf(w) == IF w[1] = 0 THEN UserCommit ELSE Merge(w[1], w[2])
OnBranch(w) == CommitOf(w) \in InSeq(line[w[3]])
InHead(w) == CommitOf(w) \in head[w[3]]
Safe == \A w \in wrote \ (kept \cup gaveUp \cup exposed) : InTree(w) \/ OnBranch(w) \/ InHead(w)

\* Work survives where it is in one of the three.
LEMMA SurvivesSaid == (WorkSurvives <=> Safe) /\ (WorkSurvives' <=> Safe')
BY DEF WorkSurvives, Survives, Safe, CommitOf, OnBranch, InHead

\* What work is: of a task's attempt in a repository, or the user's own.
LEMMA WorkParts ==
    ASSUME TypeInv, NEW w \in wrote
    PROVE  /\ w = <<w[1], w[2], w[3]>> /\ w[3] \in Repo
           /\ (w[1] \in Task /\ w[1] # 0 /\ CommitOf(w) = Merge(w[1], w[2])) \/ (w[1] = 0 /\ w[2] = 1 /\ CommitOf(w) = UserCommit)
           /\ CommitOf(w).by # "revert" /\ WorkOf(CommitOf(w), w[3]) = w
<1>1. w \in Work
    BY DEF TypeInv, GitTypes
<1>2. CASE w \in Task \X (Nat \ {0}) \X Repo
    BY <1>2, SomeTasks DEF CommitOf, WorkOf, Merge
<1>3. CASE w \in {WorkOf(UserCommit, r) : r \in Repo}
    BY <1>3 DEF CommitOf, WorkOf, UserCommit
<1> QED BY <1>1, <1>2, <1>3 DEF Work

\* Work in a worktree that goes is on a branch, in the user's, or kept (preserve).
LEMMA LeavesKept ==
    ASSUME TypeInv, NEW S \in SUBSET Task, TreesLeave(S), NEW w \in wrote, InTree(w)
    PROVE  InTree(w)' \/ OnBranch(w) \/ InHead(w) \/ w \in kept'
<1>1. w = <<w[1], w[2], w[3]>> /\ w[1] \in Task /\ CommitOf(w) = Merge(w[1], w[2])
    BY WorkParts, SomeTasks DEF InTree
<1>2. CASE w[1] \notin S
    BY <1>1, <1>2, TreesLeft DEF InTree
<1>3. CASE w[1] \in S
    <2>1. tree[w[1]].there /\ tree[w[1]].n = w[2] /\ w[3] \in tree[w[1]].work
        BY DEF InTree
    <2>2. OnLine(w[3], w[1], w[2]) => OnBranch(w)
        BY <1>1 DEF OnLine, OnBranch
    <2>3. InUserBranch(w) => InHead(w)
        BY <1>1 DEF InUserBranch, InHead
    <2>4. ~OnLine(w[3], w[1], w[2]) /\ ~InUserBranch(w) => w \in Preserved(w[1])
        BY <1>1, <2>1 DEF Preserved, Unlanded
    <2> QED BY <1>3, <2>2, <2>3, <2>4 DEF TreesLeave, PreservedOf
<1> QED BY <1>2, <1>3

\* What a rollback takes off a branch is a revert, or a merge whose work is elsewhere or exposed (isOneMergeOn, isRevertsOn).
LEMMA CutIsThere ==
    ASSUME TypeInv, RiskTold, run.landing \in Landing, NEW w \in wrote, w[3] \in Tips, Restorable(w[3]),
           NEW i \in run.landing.tips[w[3]] + 1..Len(line[w[3]]), line[w[3]][i] = CommitOf(w)
    PROVE  InTree(w) \/ InHead(w) \/ w \in exposed
<1> DEFINE r == w[3]
           k == run.landing.tips[r]
           made == run.landing.made[r]
           top == SubSeq(line[r], k + 1, Len(line[r]))
<1>1. /\ k \in Nat /\ r \in Repo /\ made \in Seq(RevertCommit)
      /\ line[r] \in Seq(Commit) /\ Len(line[r]) \in Nat
    <2>1. r \in Repo
        BY WorkParts
    <2>2. line[r] \in Seq(Commit)
        BY <2>1 DEF TypeInv, GitTypes
    <2> QED BY <2>1, <2>2, LandingParts, LenProperties DEF Tips
<1>2. CommitOf(w) \in InSeq(top)
    <2>1. InSeq(top) = {line[r][j] : j \in k + 1..Len(line[r])}
        BY <1>1, AboveSaid
    <2> HIDE DEF top
    <2> QED BY <2>1
<1>3. OwnOn(r)
    BY <1>1 DEF Restorable
<1>4. CASE run.landing.reverts
    <2>1. Len(top) <= Len(made) /\ top = SubSeq(made, 1, Len(top))
        BY <1>3, <1>4 DEF OwnOn
    <2>2. PICK j \in 1..Len(top) : top[j] = CommitOf(w)
        BY <1>2 DEF InSeq
    <2>3. Len(top) \in Nat /\ Len(made) \in Nat
        <3>1. \A x \in k + 1..Len(line[r]) : x \in 1..Len(line[r])
            BY <1>1
        <3>2. \A x \in 1..Len(line[r]) : line[r][x] \in Commit
            BY <1>1
        <3>3. top \in Seq(Commit)
            BY <1>1, <3>1, <3>2, SubSeqProperties, k + 1 \in Int
        <3> QED BY <1>1, <3>3, LenProperties
    <2> HIDE DEF top, made
    <2>4. \A x \in 1..Len(top) : x \in 1..Len(made) /\ made[x] \in RevertCommit
        BY <1>1, <2>1, <2>3, ElementOfSeq
    <2>5. top[j] = made[j]
        <3>1. \A x \in 1..Len(top) - 1 + 1 : SubSeq(made, 1, Len(top))[x] = made[1 + x - 1]
            BY <2>3, <2>4, SubSeqProperties
        <3>2. j \in 1..Len(top) - 1 + 1 /\ 1 + j - 1 = j
            BY <2>3
        <3> QED BY <2>1, <3>1, <3>2
    <2>6. CommitOf(w).by = "revert"
        BY <2>2, <2>4, <2>5 DEF RevertCommit
    <2> QED BY <2>6, WorkParts
<1>5. CASE ~run.landing.reverts
    <2>1. Len(top) = 1 /\ top[1].by = "merge"
        BY <1>3, <1>5 DEF OwnOn
    <2>2. CommitOf(w).by = "merge"
        <3> HIDE DEF top
        <3>1. PICK j \in 1..Len(top) : top[j] = CommitOf(w)
            BY <1>2 DEF InSeq
        <3>2. j = 1
            BY <2>1, <3>1
        <3> QED BY <2>1, <3>1, <3>2
    <2>3. w[1] \in Task /\ CommitOf(w) = Merge(w[1], w[2])
        BY <2>2, WorkParts DEF UserCommit
    <2>4. Merge(w[1], w[2]) \in AboveTip(r)
        BY <1>2, <2>3 DEF AboveTip
    <2>5. InUserBranch(w) => InHead(w)
        BY <2>3 DEF InUserBranch, InHead
    <2> QED BY <1>5, <2>4, <2>5 DEF AtRisk, RiskTold
<1> QED BY <1>4, <1>5

\* Whatever happens, work that is somewhere is somewhere still.
LEMMA SurvivesNext ==
    ASSUME TypeInv, WorkInv, Next
    PROVE  WorkSurvives'
<1> SUFFICES Safe'
    BY SurvivesSaid
<1>0. Safe
    BY SurvivesSaid DEF WorkInv
<1>1. CASE UNCHANGED <<line, head, tree, kept, wrote, gaveUp>> /\ exposed \subseteq exposed'
    BY <1>0, <1>1 DEF Safe, InTree, OnBranch, InHead, CommitOf
<1>2. CASE Replaces \/ RemovesLanded \/ RemovesTrees \/ Sweeps \/ \E t \in Task : Releases(t)
    <2>1. ASSUME NEW S \in SUBSET Task, TreesLeave(S) PROVE Safe'
        <3> SUFFICES ASSUME NEW w \in wrote', w \notin kept', w \notin gaveUp', w \notin exposed'
                     PROVE  (InTree(w) \/ OnBranch(w) \/ InHead(w))'
            BY DEF Safe
        <3>1. w \in wrote /\ w \notin kept /\ w \notin gaveUp /\ w \notin exposed /\ UNCHANGED <<line, head>>
            BY <2>1 DEF TreesLeave
        <3>2. (OnBranch(w) => OnBranch(w)') /\ (InHead(w) => InHead(w)')
            BY <3>1 DEF OnBranch, InHead, CommitOf
        <3>3. InTree(w) => InTree(w)' \/ OnBranch(w) \/ InHead(w)
            BY <2>1, <3>1, LeavesKept
        <3> QED BY <1>0, <3>1, <3>2, <3>3 DEF Safe
    <2> QED BY <1>1, <1>2, <2>1, AllLeave
<1>3. CASE Cuts
    <2>1. /\ turn # <<>> /\ ~tree[Now.task].there
          /\ UNCHANGED <<line, head, kept, wrote, gaveUp, exposed>>
          /\ \E x : tree' = [tree EXCEPT ![Now.task] = x]
        BY <1>3 DEF Cuts, Underway, WorkInv, Cleared
    <2>2. \A t \in Task : tree[t].there => tree'[t] = tree[t]
        BY <2>1 DEF TypeInv, GitTypes
    <2>3. \A w \in wrote : InTree(w) => InTree(w)'
        BY <2>2 DEF InTree
    <2> QED BY <1>0, <2>1, <2>3 DEF Safe, OnBranch, InHead, CommitOf
<1>4. ASSUME NEW t \in Task, Works(t) PROVE Safe'
    <2>1. PICK R \in SUBSET Repo \ {{}} :
            /\ tree' = [tree EXCEPT ![t].work = R]
            /\ wrote' = wrote \cup {<<t, tree[t].n, r>> : r \in R}
        BY <1>4 DEF Works
    <2>2. tree[t].there /\ tree[t].work = {} /\ UNCHANGED <<line, head, kept, gaveUp, exposed>>
        BY <1>4 DEF Works
    <2>3. /\ tree'[t].there /\ tree'[t].n = tree[t].n /\ tree'[t].work = R
          /\ \A u \in Task : u # t => tree'[u] = tree[u]
        BY <2>1, <2>2 DEF TypeInv, GitTypes, TreeType
    <2>4. \A w \in wrote : InTree(w) => InTree(w)'
        BY <2>2, <2>3 DEF InTree
    <2>5. \A w \in {<<t, tree[t].n, r>> : r \in R} : InTree(w)'
        BY <2>3 DEF InTree
    <2> QED BY <1>0, <2>1, <2>2, <2>4, <2>5 DEF Safe, OnBranch, InHead, CommitOf
<1>5. ASSUME NEW t \in Task, Reopen(t) PROVE Safe'
    <2>1. UNCHANGED <<line, head, kept, wrote, gaveUp, exposed>> /\ \E b : tree' = [tree EXCEPT ![t].base = b]
        BY <1>5 DEF Reopen
    <2>2. \A u \in Task : tree'[u].there = tree[u].there /\ tree'[u].n = tree[u].n /\ tree'[u].work = tree[u].work
        BY <2>1 DEF TypeInv, GitTypes, TreeType
    <2>3. \A w \in wrote : InTree(w) => InTree(w)'
        BY <2>2 DEF InTree
    <2> QED BY <1>0, <2>1, <2>3 DEF Safe, OnBranch, InHead, CommitOf
<1>6. ASSUME NEW r \in Repo, NEW c, line' = [line EXCEPT ![r] = Append(@, c)],
             UNCHANGED <<head, tree, kept, gaveUp, exposed>>, wrote \subseteq wrote',
             \A w \in wrote' \ wrote : w[3] = r /\ CommitOf(w) = c
      PROVE  Safe'
    <2>1. \A x \in Repo : InSeq(line[x]) \subseteq InSeq(line'[x])
        <3>1. ASSUME NEW x \in Repo, NEW i \in 1..Len(line[x]) PROVE line[x][i] \in InSeq(line'[x])
            <4>1. i \in 1..Len(line'[x]) /\ line'[x][i] = line[x][i]
                BY <1>6, LinesGrow
            <4> QED BY <4>1 DEF InSeq
        <3> QED BY <3>1 DEF InSeq
    <2>2. \A w \in wrote : (OnBranch(w) => OnBranch(w)') /\ (InTree(w) => InTree(w)') /\ (InHead(w) => InHead(w)')
        BY <1>6, <2>1, WorkParts DEF OnBranch, InTree, InHead, CommitOf
    <2>3. \A w \in wrote' \ wrote : OnBranch(w)'
        <3>1. c \in InSeq(line'[r])
            <4>0. Len(line[r]) \in Nat /\ Len(line'[r]) = Len(line[r]) + 1 /\ line'[r][Len(line[r]) + 1] = c
                BY <1>6, LinesGrow
            <4>1. Len(line[r]) + 1 \in 1..Len(line'[r])
                BY <4>0
            <4> QED BY <4>0, <4>1 DEF InSeq
        <3>2. \A w : CommitOf(w)' = CommitOf(w)
            BY DEF CommitOf
        <3> QED BY <1>6, <3>1, <3>2 DEF OnBranch
    <2> QED BY <1>0, <1>6, <2>2, <2>3 DEF Safe
<1>7. CASE MergesTask \/ RevertMoves
    <2>1. UNCHANGED <<head, tree, kept, wrote, gaveUp, exposed>>
        BY <1>7 DEF MergesTask, RevertMoves, history
    <2> QED BY <1>1, <1>6, <1>7, <2>1, LineMoves, SurvivesSaid
<1>8. CASE SettlesRepo
    <2>0. run.landing \in Landing /\ UNCHANGED <<head, tree, kept, history>>
        BY <1>8, RepoSettles
    <2>1. PICK r \in Now.todo :
            /\ r \in Tips /\ r \in Repo
            /\ run.landing.tips[r] \in 0..Len(line[r])
            /\ UNCHANGED line \/ (Restorable(r) /\ line' = [line EXCEPT ![r] = SubSeq(@, 1, run.landing.tips[r])])
        BY <1>8, RepoSettles
    <2>2. CASE Restorable(r) /\ line' = [line EXCEPT ![r] = SubSeq(@, 1, run.landing.tips[r])]
        <3> DEFINE k == run.landing.tips[r]
        <3>1. /\ \A x \in Repo : x # r => line'[x] = line[x]
              /\ Len(line'[r]) = k
              /\ \A i \in 1..k : line'[r][i] = line[r][i]
            BY <2>1, <2>2, CutBack
        <3>2. ASSUME NEW w \in wrote, OnBranch(w) PROVE OnBranch(w)' \/ InTree(w) \/ InHead(w) \/ w \in exposed
            <4>0. w[3] \in Repo /\ CommitOf(w)' = CommitOf(w)
                BY WorkParts DEF CommitOf
            <4>1. PICK i \in 1..Len(line[w[3]]) : line[w[3]][i] = CommitOf(w)
                BY <3>2 DEF OnBranch, InSeq
            <4>2. CASE w[3] # r
                BY <3>1, <3>2, <4>0, <4>2 DEF OnBranch
            <4>3. CASE w[3] = r /\ i > k
                <5>1. Len(line[r]) \in Nat
                    BY <2>1, LenProperties DEF TypeInv, GitTypes
                <5>2. i \in k + 1..Len(line[r])
                    BY <2>1, <4>1, <4>3, <5>1
                <5> QED BY <2>0, <2>1, <2>2, <4>1, <4>3, <5>2, CutIsThere DEF WorkInv
            <4>4. CASE w[3] = r /\ ~(i > k)
                <5>1. i \in 1..k
                    BY <2>1, <4>4
                <5>2. i \in 1..Len(line'[w[3]]) /\ line'[w[3]][i] = CommitOf(w)
                    BY <3>1, <4>1, <4>4, <5>1
                <5> QED BY <4>0, <5>2 DEF OnBranch, InSeq
            <4> QED BY <4>2, <4>3, <4>4
        <3>3. \A w \in wrote : (InTree(w) => InTree(w)') /\ (InHead(w) => InHead(w)')
            BY <2>0 DEF InTree, InHead, CommitOf
        <3> QED BY <1>0, <2>0, <3>2, <3>3 DEF history, Safe
    <2> QED BY <1>1, <2>0, <2>1, <2>2, SurvivesSaid DEF history
<1>9. CASE MergesRepo
    <2>1. UNCHANGED <<line, tree, kept, history>> /\ (UNCHANGED head \/ \E r : \E S : head' = [head EXCEPT ![r] = @ \cup S])
        BY <1>9 DEF MergesRepo
    <2>2. \A x \in Repo : head[x] \subseteq head'[x]
        BY <2>1 DEF TypeInv, GitTypes
    <2>3. \A w \in wrote : InHead(w) => InHead(w)'
        BY <2>2, WorkParts DEF InHead, CommitOf
    <2> QED BY <1>0, <2>1, <2>3 DEF Safe, InTree, OnBranch, CommitOf, history
<1>10. CASE Forgets
    <2>1. /\ kept' = kept \cup UNION {WorkOn(r) : r \in Repo \ Deleted(Now.op)}
          /\ gaveUp' = gaveUp \cup IF Now.op = "discard" THEN UNION {WorkOn(r) : r \in Deleted(Now.op)} ELSE {}
          /\ UNCHANGED <<head, tree, wrote, exposed>>
        BY <1>10 DEF Forgets
    <2>2. ASSUME NEW w \in wrote, OnBranch(w) PROVE InHead(w) \/ w \in kept' \cup gaveUp'
        <3>1. w[3] \in Repo /\ CommitOf(w).by # "revert" /\ WorkOf(CommitOf(w), w[3]) = w
            BY WorkParts
        <3>2. w \in WorkOn(w[3])
            BY <2>2, <3>1 DEF OnBranch, WorkOn
        <3>3. CASE w[3] \notin Deleted(Now.op)
            BY <2>1, <3>1, <3>2, <3>3
        <3>4. CASE w[3] \in Deleted(Now.op) /\ Now.op = "discard"
            BY <2>1, <3>2, <3>4
        <3>5. CASE w[3] \in Deleted(Now.op) /\ Now.op # "discard"
            BY <2>2, <3>5 DEF Deleted, OnBranch, InHead
        <3> QED BY <3>3, <3>4, <3>5
    <2>3. \A w \in wrote : (InTree(w) => InTree(w)') /\ (InHead(w) => InHead(w)')
        BY <2>1 DEF InTree, InHead, CommitOf
    <2> QED BY <1>0, <2>1, <2>2, <2>3 DEF Safe
<1>11. ASSUME NEW r \in Repo, UserCommits(r) PROVE Safe'
    <2>1. /\ line' = [line EXCEPT ![r] = Append(@, UserCommit)]
          /\ wrote' = wrote \cup {WorkOf(UserCommit, r)}
          /\ UNCHANGED <<head, tree, kept, gaveUp, exposed>>
        BY <1>11 DEF UserCommits
    <2>2. WorkOf(UserCommit, r)[3] = r /\ CommitOf(WorkOf(UserCommit, r)) = UserCommit
        BY DEF WorkOf, CommitOf, UserCommit
    <2> QED BY <1>6, <2>1, <2>2
<1>12. CASE Crash
    BY <1>1, <1>12 DEF Crash, Exposes, git
<1> QED BY <1>1, <1>2, <1>3, <1>4, <1>5, <1>7, <1>8, <1>9, <1>10, <1>11, <1>12, GitMoves, SurvivesSaid DEF keeps

-----------------------------------------------------------------------------
(* What a rollback would take has been told to be exposed.                  *)

\* The tips of the landing on the record are on the branches.
LEMMA TipsOn ==
    ASSUME TypeInv, NEW r \in Tips
    PROVE  r \in Repo /\ line[r] \in Seq(Commit) /\ Len(line[r]) \in Nat /\ run.landing.tips[r] \in 0..Len(line[r])
<1>1. run.landing # NoLanding /\ saved.run.landing = run.landing
    BY NoTips DEF Tips, TypeInv, Tipped
<1>2. run.landing \in Landing
    BY <1>1 DEF TypeInv, RecordTypes, RunType
<1>3. r \in Repo /\ run.landing.tips[r] \in Nat
    BY <1>2, LandingParts DEF Tips
<1>4. line[r] \in Seq(Commit) /\ Len(line[r]) \in Nat
    BY <1>3, LenProperties DEF TypeInv, GitTypes
<1>5. run.landing.tips[r] <= Len(line[r])
    BY <1>1 DEF Tips, TypeInv, Tipped
<1> QED BY <1>3, <1>4, <1>5

\* What comes above a tip, and what a rollback leaves there.
LEMMA AboveGrows ==
    ASSUME TypeInv, NEW x \in Repo, NEW c, c \in Commit, line' = [line EXCEPT ![x] = Append(@, c)], run'.landing = run.landing,
           NEW r \in Tips
    PROVE  /\ r # x => AboveTip(r)' = AboveTip(r)
           /\ AboveTip(r)' \subseteq AboveTip(r) \cup {c}
<1>1. r \in Repo /\ line[r] \in Seq(Commit) /\ Len(line[r]) \in Nat /\ run.landing.tips[r] \in Nat
    BY TipsOn
<1>2. r # x => line'[r] = line[r]
    BY <1>1, LinesGrow
<1>3. AboveTip(r) = {line[r][i] : i \in run.landing.tips[r] + 1..Len(line[r])}
    BY <1>1, AboveSaid DEF AboveTip
<1>4. line'[r] \in Seq(Commit)
    BY <1>1, AppendProperties DEF TypeInv, GitTypes
<1>5. AboveTip(r)' = {line'[r][i] : i \in run.landing.tips[r] + 1..Len(line'[r])}
    BY <1>1, <1>4, AboveSaid DEF AboveTip
<1>6. CASE r # x
    BY <1>2, <1>6 DEF AboveTip
<1>7. CASE r = x
    <2>1. Len(line'[r]) = Len(line[r]) + 1 /\ line'[r][Len(line[r]) + 1] = c /\ \A i \in 1..Len(line[r]) : line'[r][i] = line[r][i]
        BY <1>1, <1>7, LinesGrow
    <2>2. ASSUME NEW i \in run.landing.tips[r] + 1..Len(line'[r])
          PROVE  i = Len(line[r]) + 1 \/ (i \in run.landing.tips[r] + 1..Len(line[r]) /\ i \in 1..Len(line[r]))
        BY <1>1, <2>1
    <2>3. ASSUME NEW i \in run.landing.tips[r] + 1..Len(line'[r]) PROVE line'[r][i] \in AboveTip(r) \cup {c}
        BY <1>3, <2>1, <2>2
    <2> QED BY <1>5, <1>7, <2>3
<1> QED BY <1>6, <1>7

\* A rollback of a branch leaves nothing above its tip, and what is above the others.
LEMMA AboveGoes ==
    ASSUME TypeInv, SettlesRepo, NEW r \in Tips
    PROVE  AboveTip(r)' \subseteq AboveTip(r)
<1>1. PICK x \in Now.todo :
        /\ x \in Repo /\ run.landing.tips[x] \in 0..Len(line[x])
        /\ UNCHANGED line \/ line' = [line EXCEPT ![x] = SubSeq(@, 1, run.landing.tips[x])]
    BY RepoSettles
<1>2. run'.landing = run.landing
    BY RepoSettles DEF record
<1>3. r \in Repo /\ line[r] \in Seq(Commit) /\ Len(line[r]) \in Nat /\ run.landing.tips[r] \in 0..Len(line[r])
    BY TipsOn
<1>4. CASE line'[r] = line[r]
    BY <1>2, <1>4 DEF AboveTip
<1>5. CASE line'[r] # line[r]
    <2>1. x = r /\ line' = [line EXCEPT ![r] = SubSeq(@, 1, run.landing.tips[r])]
        BY <1>1, <1>3, <1>5, CutBack
    <2> DEFINE k == run.landing.tips[r]
               s == SubSeq(line[r], 1, k)
    <2>2. s \in Seq(Commit) /\ Len(s) = k
        <3>1. \A i \in 1..k : i \in 1..Len(line[r])
            BY <1>3
        <3>2. \A i \in 1..k : line[r][i] \in Commit
            BY <1>3, <3>1
        <3>3. s \in Seq(Commit) /\ Len(s) = IF 1 <= k THEN k - 1 + 1 ELSE 0
            BY <1>3, <3>2, SubSeqProperties
        <3> QED BY <1>3, <3>3
    <2>3. line'[r] = s
        BY <1>3, <2>1 DEF TypeInv, GitTypes
    <2>4. AboveTip(r)' = InSeq(SubSeq(s, k + 1, Len(s)))
        BY <1>2, <2>3 DEF AboveTip, InSeq
    <2> HIDE DEF s
    <2>5. InSeq(SubSeq(s, k + 1, Len(s))) = {s[i] : i \in k + 1..Len(s)}
        BY <1>3, <2>2, AboveSaid
    <2>6. k + 1..Len(s) = {}
        BY <1>3, <2>2
    <2> QED BY <2>4, <2>5, <2>6
<1> QED BY <1>4, <1>5

\* Nothing comes to be at risk that is not told.
LEMMA RiskNext ==
    ASSUME TypeInv, WorkInv, Next
    PROVE  RiskTold'
<1>1. CASE exposed' = exposed \cup AtRisk'
    BY <1>1 DEF RiskTold
<1>2. CASE run'.landing = NoLanding
    BY <1>2, NoTips DEF RiskTold, AtRisk, Tips
<1>3. CASE run'.landing.reverts
    BY <1>3 DEF RiskTold, AtRisk
<1>4. ASSUME run'.landing = run.landing, exposed \subseteq exposed',
             \A w \in wrote' : w[3] \in Tips /\ Merge(w[1], w[2]) \in AboveTip(w[3])' /\ ~InTree(w)' /\ ~InUserBranch(w)' =>
                 w \in wrote /\ Merge(w[1], w[2]) \in AboveTip(w[3]) /\ ~InTree(w) /\ ~InUserBranch(w)
      PROVE  RiskTold'
    <2> SUFFICES ASSUME NEW w \in AtRisk' PROVE w \in exposed'
        BY DEF RiskTold
    <2>1. /\ w \in wrote' /\ w[3] \in Tips /\ ~run.landing.reverts /\ Merge(w[1], w[2]) \in AboveTip(w[3])'
          /\ ~InTree(w)' /\ ~InUserBranch(w)'
        BY <1>4 DEF AtRisk, Tips, Merge
    <2>2. w \in AtRisk
        BY <1>4, <2>1 DEF AtRisk
    <2> QED BY <1>4, <2>2 DEF WorkInv, RiskTold
<1>5. CASE UNCHANGED keeps
    <2>1. ASSUME run'.landing = run.landing PROVE RiskTold'
        <3>1. \A r : AboveTip(r)' = AboveTip(r)
            BY <1>5, <2>1 DEF AboveTip, keeps, InSeq
        <3> QED BY <1>4, <1>5, <2>1, <3>1 DEF keeps, InTree, InUserBranch, Merge
    <2>2. ASSUME NEW R \in SUBSET Repo, run'.landing.tips = [r \in R |-> Len(line[r])] PROVE RiskTold'
        <3>1. ASSUME NEW r \in R PROVE AboveTip(r)' = {}
            <4>1. line[r] \in Seq(Commit) /\ Len(line[r]) \in Nat
                BY LenProperties DEF TypeInv, GitTypes
            <4>2. AboveTip(r)' = InSeq(SubSeq(line[r], Len(line[r]) + 1, Len(line[r])))
                BY <1>5, <2>2 DEF AboveTip, keeps, InSeq
            <4>3. InSeq(SubSeq(line[r], Len(line[r]) + 1, Len(line[r]))) = {line[r][i] : i \in Len(line[r]) + 1..Len(line[r])}
                BY <4>1, AboveSaid
            <4>4. Len(line[r]) + 1..Len(line[r]) = {}
                BY <4>1
            <4> QED BY <4>2, <4>3, <4>4
        <3>2. Tips' = R
            BY <2>2 DEF Tips
        <3>3. AtRisk' = {}
            BY <3>1, <3>2 DEF AtRisk
        <3> QED BY <3>3 DEF RiskTold
    <2>3. CASE Journals \/ RevertJudged \/ RevertSaves
        BY <1>3, <2>1, <2>2, <2>3, LandingComes
    <2>4. CASE Crash
        BY <1>1, <2>4 DEF Crash, Exposes
    <2> QED BY <1>2, <2>1, <2>3, <2>4, LandingMoves
<1>6. CASE Replaces \/ RemovesTrees \/ Sweeps \/ Crash \/ \E t \in Task : Releases(t)
    BY <1>1, <1>6 DEF Replaces, RemovesTrees, Sweeps, Crash, Releases, Exposes
<1>7. CASE RemovesLanded
    BY <1>2, <1>7 DEF RemovesLanded, Underway, record, WorkInv, Cleared
<1>8. ASSUME ~UNCHANGED keeps, ~Crash PROVE run'.landing = run.landing \/ run'.landing = NoLanding
    BY <1>8, LandingMoves, LandingComes
<1>9. CASE \/ Cuts \/ MergesTask \/ SettlesRepo \/ MergesRepo
           \/ (\E t \in Task : Works(t) \/ Reopen(t)) \/ \E r \in Repo : UserCommits(r)
    <2> SUFFICES ASSUME ~UNCHANGED keeps, ~Crash, run'.landing = run.landing PROVE RiskTold'
        BY <1>2, <1>5, <1>6, <1>8
    <2>1. CASE Cuts
        <3>1. /\ turn # <<>> /\ ~tree[Now.task].there
              /\ UNCHANGED <<line, head, wrote, exposed>>
              /\ \E x : tree' = [tree EXCEPT ![Now.task] = x]
            BY <2>1 DEF Cuts, Underway, WorkInv, Cleared
        <3>2. \A t \in Task : tree[t].there => tree'[t] = tree[t]
            BY <3>1 DEF TypeInv, GitTypes
        <3>3. \A w \in wrote : InTree(w) => InTree(w)'
            BY <3>2 DEF InTree
        <3>4. \A r : AboveTip(r)' = AboveTip(r)
            BY <3>1 DEF AboveTip, InSeq
        <3> QED BY <1>4, <3>1, <3>3, <3>4 DEF InUserBranch, Merge
    <2>2. ASSUME NEW t \in Task, Works(t) PROVE RiskTold'
        <3>1. PICK R \in SUBSET Repo \ {{}} :
                /\ tree' = [tree EXCEPT ![t].work = R]
                /\ wrote' = wrote \cup {<<t, tree[t].n, r>> : r \in R}
            BY <2>2 DEF Works
        <3>2. tree[t].there /\ tree[t].work = {} /\ UNCHANGED <<line, head, exposed>>
            BY <2>2 DEF Works
        <3>3. /\ tree'[t].there /\ tree'[t].n = tree[t].n /\ tree'[t].work = R
              /\ \A u \in Task : u # t => tree'[u] = tree[u]
            BY <3>1, <3>2 DEF TypeInv, GitTypes, TreeType
        <3>4. \A w \in wrote : InTree(w) => InTree(w)'
            BY <3>2, <3>3 DEF InTree
        <3>5. \A w \in {<<t, tree[t].n, r>> : r \in R} : InTree(w)'
            BY <3>3 DEF InTree
        <3>6. \A r : AboveTip(r)' = AboveTip(r)
            BY <3>2 DEF AboveTip, InSeq
        <3> QED BY <1>4, <3>1, <3>2, <3>4, <3>5, <3>6 DEF InUserBranch, Merge
    <2>3. ASSUME NEW t \in Task, Reopen(t) PROVE RiskTold'
        <3>1. UNCHANGED <<line, head, wrote, exposed>> /\ \E b : tree' = [tree EXCEPT ![t].base = b]
            BY <2>3 DEF Reopen
        <3>2. \A u \in Task : tree'[u].there = tree[u].there /\ tree'[u].n = tree[u].n /\ tree'[u].work = tree[u].work
            BY <3>1 DEF TypeInv, GitTypes, TreeType
        <3>3. \A w \in wrote : InTree(w) => InTree(w)'
            BY <3>2 DEF InTree
        <3>4. \A r : AboveTip(r)' = AboveTip(r)
            BY <3>1 DEF AboveTip, InSeq
        <3> QED BY <1>4, <3>1, <3>3, <3>4 DEF InUserBranch, Merge
    <2>4. CASE MergesTask
        <3> DEFINE t == Now.task
                   x == Lowest(Now.todo)
        <3>1. /\ UNCHANGED <<head, tree, wrote, exposed>>
              /\ UNCHANGED line \/ (tree[t].there /\ line' = [line EXCEPT ![x] = Append(@, Merge(t, tree[t].n))])
              /\ turn # <<>> /\ Now.op = "land" /\ Now.at = "merge"
            BY <2>4 DEF MergesTask, Underway, history
        <3>2. x \in Repo /\ x \in tree[t].work /\ t \in Task /\ tree[t].n \in Nat
            <4>1. Now.todo # {} /\ Now.todo \subseteq Tips /\ Tips \subseteq tree[t].work
                BY <3>1 DEF TypeInv, Before
            <4>2. t \in Task
                BY <3>1, NowFits DEF TypeInv, RecordTypes, JobFits
            <4>3. tree[t].work \subseteq Repo /\ tree[t].n \in Nat
                BY <4>2 DEF TypeInv, GitTypes, TreeType
            <4>4. Now.todo \subseteq Repo
                BY <4>1, <4>3
            <4>5. x \in Now.todo /\ x \in Repo
                BY <4>1, <4>4, LowestRepo
            <4> QED BY <4>1, <4>2, <4>3, <4>5
        <3>3. CASE UNCHANGED line
            <4>1. \A r : AboveTip(r)' = AboveTip(r)
                BY <3>3 DEF AboveTip, InSeq
            <4> QED BY <1>4, <3>1, <4>1 DEF InTree, InUserBranch, Merge
        <3>4. CASE tree[t].there /\ line' = [line EXCEPT ![x] = Append(@, Merge(t, tree[t].n))]
            <4> DEFINE c == Merge(t, tree[t].n)
            <4>1. c \in Commit
                BY <3>2, <3>4 DEF Merge, Commit, TypeInv, GitTypes
            <4>2. \A r \in Tips : /\ r # x => AboveTip(r)' = AboveTip(r)
                                  /\ AboveTip(r)' \subseteq AboveTip(r) \cup {c}
                BY <3>2, <3>4, <4>1, AboveGrows
            <4>3. \A w : Merge(w[1], w[2]) = c /\ w[3] = x => InTree(w)
                BY <3>2, <3>4 DEF InTree, Merge
            <4>4. \A w \in wrote : (InTree(w) <=> InTree(w)') /\ (InUserBranch(w) <=> InUserBranch(w)')
                BY <3>1 DEF InTree, InUserBranch, Merge
            <4> HIDE DEF c, x
            <4> QED BY <1>4, <3>1, <4>2, <4>3, <4>4
        <3> QED BY <3>1, <3>3, <3>4
    <2>5. CASE SettlesRepo
        <3>1. UNCHANGED <<head, tree, wrote, exposed>>
            BY <2>5 DEF SettlesRepo, history
        <3>2. \A w \in wrote : (InTree(w) <=> InTree(w)') /\ (InUserBranch(w) <=> InUserBranch(w)')
            BY <3>1 DEF InTree, InUserBranch, Merge
        <3> QED BY <1>4, <2>5, <3>1, <3>2, AboveGoes
    <2>6. CASE MergesRepo
        <3>1. UNCHANGED <<line, tree, wrote, exposed>> /\ (UNCHANGED head \/ \E r : \E S : head' = [head EXCEPT ![r] = @ \cup S])
            BY <2>6 DEF MergesRepo, history
        <3>2. \A r \in Repo : head[r] \subseteq head'[r]
            BY <3>1 DEF TypeInv, GitTypes
        <3>3. \A w \in wrote : InUserBranch(w) => InUserBranch(w)'
            BY <3>2, WorkParts DEF InUserBranch, Merge
        <3>4. \A r : AboveTip(r)' = AboveTip(r)
            BY <3>1 DEF AboveTip, InSeq
        <3> QED BY <1>4, <3>1, <3>3, <3>4 DEF InTree, Merge
    <2>7. ASSUME NEW x \in Repo, UserCommits(x) PROVE RiskTold'
        <3>1. /\ line' = [line EXCEPT ![x] = Append(@, UserCommit)]
              /\ wrote' = wrote \cup {WorkOf(UserCommit, x)}
              /\ UNCHANGED <<head, tree, exposed>>
            BY <2>7 DEF UserCommits
        <3>2. UserCommit \in Commit /\ \A a, b : Merge(a, b) # UserCommit
            BY DEF Commit, UserCommit, Merge
        <3>3. \A r \in Tips : AboveTip(r)' \subseteq AboveTip(r) \cup {UserCommit}
            BY <3>1, <3>2, AboveGrows
        <3>4. \A w : (InTree(w) <=> InTree(w)') /\ (InUserBranch(w) <=> InUserBranch(w)')
            BY <3>1 DEF InTree, InUserBranch, Merge
        <3>5. ASSUME NEW r \in Tips, NEW n \in Nat PROVE Merge(0, n) \notin AboveTip(r)
            <4>1. r \in Repo /\ line[r] \in Seq(Commit) /\ Len(line[r]) \in Nat /\ run.landing.tips[r] \in Nat
                BY TipsOn
            <4>2. AboveTip(r) = {line[r][i] : i \in run.landing.tips[r] + 1..Len(line[r])}
                BY <4>1, AboveSaid DEF AboveTip
            <4>3. \A i \in run.landing.tips[r] + 1..Len(line[r]) : i \in 1..Len(line[r])
                BY <4>1
            <4>4. AboveTip(r) \subseteq Commit
                BY <4>1, <4>2, <4>3
            <4>5. Merge(0, n) \notin Commit
                BY SomeTasks DEF Merge, Commit, UserCommit
            <4> QED BY <4>4, <4>5
        <3>6. LET w == WorkOf(UserCommit, x) IN w[1] = 0 /\ w[2] = 1 /\ w[3] = x
            BY DEF WorkOf, UserCommit
        <3> QED BY <1>4, <3>1, <3>2, <3>3, <3>4, <3>5, <3>6
    <2> QED BY <1>9, <2>1, <2>2, <2>3, <2>4, <2>5, <2>6, <2>7
<1>10. CASE RevertMoves
    <2>1. run'.landing = run.landing /\ run.landing.reverts
        BY <1>10, UndoBegun DEF RevertMoves, Underway, record
    <2> QED BY <1>3, <2>1
<1>11. CASE Forgets
    BY <1>2, <1>11, FreshTyped DEF Forgets
<1> QED BY <1>5, <1>6, <1>7, <1>9, <1>10, <1>11, GitMoves

-----------------------------------------------------------------------------
(* The job under way, and what is out of its way.                           *)

\* What is asked for beside the turn comes last in it, and has not begun; a Stop changes how a mint comes out.
LEMMA NowStays ==
    ASSUME TypeInv, Next, ~TurnStep, turn' # <<>>
    PROVE  \/ Now'.at \notin Marks
           \/ turn # <<>> /\ Now'.at = Now.at /\ Now'.task = Now.task
<1> DEFINE Goal == Now'.at \notin Marks \/ (turn # <<>> /\ Now'.at = Now.at /\ Now'.task = Now.task)
<1>0. turn \in Seq(JobType) /\ Jobs /\ Len(turn) \in Nat
    BY LenProperties DEF TypeInv, RecordTypes
<1>1. CASE UNCHANGED turn
    BY <1>1 DEF Now
<1>2. ASSUME NEW job \in JobType, JobFits(job), job.at = "start", turn' = Append(turn, job) PROVE Goal
    BY <1>0, <1>2, JobIsAsked DEF Marks
<1>3. ASSUME NEW t \in Task, Start(t) PROVE Goal
    <2> DEFINE p == [Job("prepare", t) EXCEPT !.n = used[t] + 1]
               m == Job("mint", t)
    <2>1. UNCHANGED turn \/ turn' = turn \o <<m, p>> \/ turn' = turn \o <<p>>
        BY <1>3 DEF Start, InItsTurn
    <2>2. p \in JobType /\ JobFits(p) /\ p.op = "prepare" /\ p.at = "start"
        <3>1. used[t] + 1 \in Nat \ {0}
            BY DEF TypeInv, AttemptTypes
        <3> QED BY <3>1, JobTyped DEF Job, JobType, JobFits, Stage
    <2>3. m \in JobType /\ JobFits(m) /\ m.op = "mint" /\ m.at = "start"
        BY JobTyped
    <2> HIDE DEF p, m
    <2>4. CASE turn' = turn \o <<m, p>>
        BY <1>0, <2>2, <2>3, <2>4, MintIsAsked DEF Marks
    <2>5. CASE turn' = turn \o <<p>>
        <3>1. turn' = Append(turn, p)
            BY <1>0, <2>2, <2>5
        <3> QED BY <1>2, <2>2, <3>1
    <2> QED BY <1>1, <2>1, <2>4, <2>5
<1>4. CASE AdminStep \/ \E r \in Repo : UserReviews(r) \/ UserCommits(r) \/ UserLeaves(r)
    BY <1>1, <1>4 DEF AdminStep, ReleaseAsks, Releases, UserReviews, UserCommits, UserLeaves, locks
<1>5. CASE \E t \in Task : StrayEnds(t) \/ Spawn(t) \/ Works(t) \/ Passes(t) \/ MarkComplete(t) \/ Reopen(t) \/ Retry(t)
    BY <1>1, <1>5 DEF StrayEnds, Spawn, Works, Passes, MarkComplete, Reopen, Retry, locks
<1>6. CASE Drain
    <2>1. Lowest(waiting) \in Task
        BY <1>6, SomeTasks, LowestIsIn DEF Drain, TypeInv, AttemptTypes
    <2> QED BY <1>2, <1>6, <2>1, JobTyped DEF Drain
<1>7. ASSUME NEW t \in Task, Revert(t) PROVE Goal
    <2> DEFINE job == [Job("revert", t) EXCEPT !.asked = Takes(t)]
    <2>1. Takes(t) \subseteq Task
        BY DEF Takes, Taken, TypeInv, RecordTypes, RunType, TaskWork
    <2>2. job \in JobType /\ JobFits(job) /\ job.at = "start"
        BY <2>1, JobTyped DEF Job, JobType, JobFits, Stage
    <2>3. turn' = Append(turn, job)
        BY <1>7 DEF Revert
    <2> HIDE DEF job
    <2> QED BY <1>2, <2>2, <2>3
<1>8. CASE MergeAll \/ Close \/ \E op \in {"discard", "cleanup"} : UserDiscards(op)
    <2>1. UNCHANGED turn \/ \E op \in {"merge", "clear", "handoff", "discard", "cleanup"} : turn' = Append(turn, Job(op, None))
        BY <1>8 DEF MergeAll, Close, UserDiscards, Asks
    <2> QED BY <1>1, <1>2, <2>1, JobTyped
<1>9. CASE Stop
    <2>1. turn' = [i \in 1..Len(turn) |-> Interrupted(turn[i])]
        BY <1>9 DEF Stop, Interrupted
    <2>2. \A f : f = [i \in 1..Len(turn) |-> Interrupted(turn[i])] =>
            f \in Seq(JobType) /\ Len(f) = Len(turn) /\ \A i \in 1..Len(turn) : f[i] = Interrupted(turn[i])
        BY <1>0, ChainInterrupted
    <2>3. \A job \in JobType : Interrupted(job).at = job.at /\ Interrupted(job).task = job.task
        BY DEF Interrupted, JobType
    <2> HIDE DEF Interrupted
    <2>4. turn' \in Seq(JobType) /\ Len(turn') = Len(turn) /\ \A i \in 1..Len(turn) : turn'[i] = Interrupted(turn[i])
        BY <2>1, <2>2
    <2>5. turn # <<>>
        BY <1>0, <2>4, EmptySeq
    <2>6. Now' = Interrupted(Now) /\ Now \in JobType
        <3>1. Head(turn') = turn'[1] /\ Head(turn) = turn[1] /\ Head(turn) \in JobType /\ 1 \in 1..Len(turn)
            BY <1>0, <2>4, <2>5, HeadIsFirst
        <3> QED BY <2>4, <3>1 DEF Now
    <2> QED BY <2>3, <2>5, <2>6
<1>10. CASE Crash
    <2>1. turn' = <<[Job("prune", None) EXCEPT !.at = "admin"]>>
        BY <1>10 DEF Crash
    <2> QED BY <2>1 DEF Now, Job, Marks
<1> QED BY <1>3, <1>4, <1>5, <1>6, <1>7, <1>8, <1>9, <1>10 DEF Next

\* A step of the turn that comes to a cut, to the branches or to a landed worktree has what that asks for behind it.
LEMMA NowGoes ==
    ASSUME TypeInv, TypeInv', TurnStep, turn' # <<>>
    PROVE  \/ Now'.at \notin Marks
           \/ Replaces /\ Now'.at = "cut" /\ Now'.task = Now.task /\ Now.task \in Task
           \/ RemovesTrees /\ Now'.at = "branches"
           \/ Records /\ Now'.at = "remove"
<1>0. turn # <<>>
    BY DEF TurnStep, AsksAdmin, Replaces, Cuts, SettlesFirst, SettlesRepo, SettleOver, LandBegins, Journals, MergesTask,
           Records, RemovesLanded, LandOver, MergeJudged, MergesRepo, MergeOver, HandsOff, HandoffOver, RemovesTrees,
           Forgets, CleanupOver, PruneBegins, Sweeps, RevertJudged, RevertSaves, RevertMoves, RevertOver, Underway
<1>1. turn \in Seq(JobType) /\ Now \in JobType /\ JobFits(Now) /\ Jobs /\ Len(turn) \in Nat \ {0}
    BY <1>0, NowFits DEF TypeInv, RecordTypes
<1>2. Now' = turn'[1] /\ 1 \in DOMAIN turn
    <2>1. (turn \in Seq(JobType))'
        BY DEF TypeInv, RecordTypes
    <2> QED BY <1>1, <2>1, HeadIsFirst, LenProperties DEF Now
<1>3. turn' = Tail(turn) => Now'.at = "start"
    BY <1>0, <1>1, JobIsOver
<1> DEFINE Goal == \/ Now'.at \notin Marks
                   \/ Replaces /\ Now'.at = "cut" /\ Now'.task = Now.task /\ Now.task \in Task
                   \/ RemovesTrees /\ Now'.at = "branches"
                   \/ Records /\ Now'.at = "remove"
<1>4. ASSUME NEW x \in {"admin", "over", "record", "sweep", "start", "merge", "undo", "move", "settle"}, Now'.at = x
      PROVE  Goal
    BY <1>4 DEF Marks
<1>5. ASSUME NEW job \in JobType, Settles(job) PROVE Now'.at = "settle"
    <2> DEFINE j == [job EXCEPT !.at = "settle", !.todo = Tips, !.stuck = {}]
    <2>1. Goes(j) /\ j.at = "settle"
        BY <1>5 DEF Settles, JobType
    <2> HIDE DEF j
    <2> QED BY <1>1, <1>2, <2>1 DEF Goes
<1>5a. ASSUME NEW o \in {"failed", "conflict", "refused"}, Settles([Now EXCEPT !.out = o]) PROVE Now'.at = "settle"
    <2> DEFINE j == [Now EXCEPT !.out = o]
    <2>1. j \in JobType /\ Settles(j)
        BY <1>1, <1>5a DEF JobType
    <2> HIDE DEF j
    <2> QED BY <1>5, <2>1
<1>6. CASE AsksAdmin
    BY <1>1, <1>2, <1>4, <1>6 DEF AsksAdmin, Goes, JobType
<1>7. CASE Replaces
    <2>1. Now'.at = "cut" /\ Now'.task = Now.task
        BY <1>1, <1>2, <1>7 DEF Replaces, Goes, JobType
    <2> QED BY <1>1, <1>7, <2>1 DEF Replaces, Underway, JobFits
<1>8. CASE RemovesTrees
    BY <1>1, <1>2, <1>8 DEF RemovesTrees, Goes, JobType
<1>9. CASE Records
    <2>1. Now'.at = "remove"
        BY <1>1, <1>2, <1>9 DEF Records, Goes, JobType
    <2> QED BY <1>9, <2>1
<1>10. CASE Cuts \/ LandOver \/ HandoffOver \/ CleanupOver \/ Sweeps
    <2>1. turn' = Tail(turn)
        BY <1>10 DEF Cuts, LandOver, HandoffOver, CleanupOver, Sweeps, Over
    <2> QED BY <1>3, <1>4, <2>1
<1>11. CASE SettlesFirst \/ HandsOff \/ PruneBegins
    <2>1. Settles(Now) \/ Goes([Now EXCEPT !.at = "over"]) \/ Goes([Now EXCEPT !.at = "sweep"])
        BY <1>11 DEF SettlesFirst, HandsOff, PruneBegins
    <2>2. Now'.at \in {"settle", "over", "sweep"}
        BY <1>1, <1>2, <1>5, <2>1 DEF Goes, JobType
    <2> QED BY <1>4, <2>2
<1>12. CASE SettlesRepo
    <2>1. Now'.at = "settle"
        BY <1>1, <1>2, <1>12 DEF SettlesRepo, Goes, JobType
    <2> QED BY <1>4, <2>1
<1>13. CASE SettleOver
    <2>1. \/ \E x \in {"over", "sweep", "start"} : Goes([Now EXCEPT !.at = x])
          \/ (\E y : Goes([Now EXCEPT !.at = "over", !.out = y])) \/ turn' = Tail(turn)
        BY <1>13 DEF SettleOver, Over
    <2>2. Now'.at \in {"over", "sweep", "start"}
        BY <1>1, <1>2, <1>3, <2>1 DEF Goes, JobType
    <2> QED BY <1>4, <2>2
<1>14. CASE LandBegins \/ Journals \/ RemovesLanded
    <2>1. \/ \E x \in {"over", "record"} : Goes([Now EXCEPT !.at = x])
          \/ \E y : Goes([Now EXCEPT !.at = "over", !.out = y])
          \/ \E y : Goes([Now EXCEPT !.at = "merge", !.todo = y])
        BY <1>14 DEF LandBegins, Journals, RemovesLanded
    <2>2. Now'.at \in {"over", "record", "merge"}
        BY <1>1, <1>2, <2>1 DEF Goes, JobType
    <2> QED BY <1>4, <2>2
<1>15. CASE MergesTask
    <2>1. \/ \E o \in {"failed", "conflict"} : Settles([Now EXCEPT !.out = o])
          \/ Now.at = "merge" /\ \E x : \E y \in {"record", Now.at} : Goes([Now EXCEPT !.todo = x, !.at = y])
        BY <1>15 DEF MergesTask, Underway
    <2>2. ASSUME NEW o \in {"failed", "conflict"}, Settles([Now EXCEPT !.out = o]) PROVE Now'.at = "settle"
        BY <1>5a, <2>2
    <2>3. ASSUME NEW x, NEW y \in {"record", Now.at}, Now.at = "merge", Goes([Now EXCEPT !.todo = x, !.at = y])
          PROVE  Now'.at \in {"record", "merge"}
        BY <1>1, <1>2, <2>3 DEF Goes, JobType
    <2>4. Now'.at \in {"settle", "record", "merge"}
        BY <2>1, <2>2, <2>3
    <2> QED BY <1>4, <2>4
<1>16. CASE MergeJudged \/ MergesRepo \/ RevertJudged
    <2>1. \/ turn' = Tail(turn) \/ \E x \in {"merge", "undo"} : \E y : Goes([Now EXCEPT !.at = x, !.todo = y])
          \/ Now.at = "merge" /\ \E x : Goes([Now EXCEPT !.todo = x])
        BY <1>16 DEF MergeJudged, MergesRepo, RevertJudged, Underway, Over
    <2>2. Now'.at \in {"start", "merge", "undo"}
        BY <1>1, <1>2, <1>3, <2>1 DEF Goes, JobType
    <2> QED BY <1>4, <2>2
<1>17. CASE RevertSaves \/ RevertMoves \/ RevertOver
    <2>1. \/ turn' = Tail(turn) \/ Goes([Now EXCEPT !.at = "move"]) \/ (\E y : Goes([Now EXCEPT !.at = "undo", !.todo = y]))
          \/ \E o \in {"failed", "conflict", "refused"} : Settles([Now EXCEPT !.out = o])
        BY <1>17 DEF RevertSaves, RevertMoves, RevertOver, Over
    <2>2. turn' = Tail(turn) \/ Goes([Now EXCEPT !.at = "move"]) \/ (\E y : Goes([Now EXCEPT !.at = "undo", !.todo = y]))
          => Now'.at \in {"start", "move", "undo"}
        BY <1>1, <1>2, <1>3 DEF Goes, JobType
    <2>3. ASSUME NEW o \in {"failed", "conflict", "refused"}, Settles([Now EXCEPT !.out = o]) PROVE Now'.at = "settle"
        BY <1>5a, <2>3
    <2> QED BY <1>4, <2>1, <2>2, <2>3
<1>18. CASE MergeOver
    <2> DEFINE job == Job("clear", None)
    <2>1. /\ turn' = Tail(turn) \o <<job>> \/ turn' = Tail(turn) \o <<>>
          /\ UNCHANGED run /\ saved'.run = run' /\ Now.op = "merge"
        BY <1>18 DEF MergeOver, Saves, Underway
    <2>2. job \in JobType /\ JobFits(job) /\ job.op = "clear" /\ job.at = "start"
        BY JobTyped
    <2> HIDE DEF job
    <2>3. turn' = Append(Tail(turn), job) \/ turn' = Tail(turn)
        BY <1>0, <1>1, <2>1, <2>2, TailAppend
    <2> QED BY <1>0, <1>1, <1>3, <2>1, <2>2, <2>3, ClearIsAsked DEF TypeInv, Marks
<1>19. CASE Forgets
    <2>1. turn' = Tail(turn) \/ admin' = <<>>
        BY <1>19 DEF Forgets
    <2>2. ASSUME admin' = <<>> PROVE ~UnderAdmin(Now')
        <3>1. InSeq(admin') = {}
            BY <2>2 DEF InSeq
        <3>2. (Turn \in InSeq(admin) <=> turn # <<>> /\ UnderAdmin(Now))'
            BY DEF TypeInv, Admins
        <3>3. (UnderAdmin(Now))' <=> UnderAdmin(Now')
            BY DEF UnderAdmin, MakesOrRemoves
        <3>4. (InSeq(admin))' = InSeq(admin')
            BY DEF InSeq
        <3> QED BY <3>1, <3>2, <3>3, <3>4
    <2>3. JobFits(Now')
        <3>1. (turn \in Seq(JobType) /\ Jobs)'
            BY DEF TypeInv, RecordTypes
        <3>2. (JobFits(Now))'
            BY <3>1, HeadIsFirst DEF Jobs, Now
        <3> QED BY <3>2 DEF JobFits, Stage
    <2>4. ~UnderAdmin(Now') => Now'.at \notin Marks
        BY <2>3 DEF JobFits, Stage, UnderAdmin, MakesOrRemoves, Marks
    <2> QED BY <1>3, <2>1, <2>2, <2>4 DEF Marks
<1> QED BY <1>6, <1>7, <1>8, <1>9, <1>10, <1>11, <1>12, <1>13, <1>14, <1>15, <1>16, <1>17, <1>18, <1>19 DEF TurnStep

\* No worktree comes but by a cut.
LEMMA TreesCome ==
    ASSUME TypeInv, Next, ~Cuts
    PROVE  \A t \in Task : tree'[t].there => tree[t].there
<1>1. CASE UNCHANGED tree
    BY <1>1
<1>2. CASE Replaces \/ RemovesLanded \/ RemovesTrees \/ Sweeps \/ \E u \in Task : Releases(u)
    BY <1>1, <1>2, AllLeave, TreesLeft
<1>3. ASSUME NEW u \in Task, Works(u) \/ Reopen(u) PROVE \A t \in Task : tree'[t].there => tree[t].there
    <2>1. (\E R : tree' = [tree EXCEPT ![u].work = R]) \/ (\E b : tree' = [tree EXCEPT ![u].base = b])
        BY <1>3 DEF Works, Reopen
    <2> QED BY <2>1 DEF TypeInv, GitTypes, TreeType
<1>4. CASE MergesTask \/ RevertMoves \/ SettlesRepo \/ MergesRepo \/ Forgets \/ Crash \/ \E r \in Repo : UserCommits(r)
    BY <1>1, <1>4 DEF MergesTask, RevertMoves, SettlesRepo, MergesRepo, Forgets, Crash, UserCommits, git
<1> QED BY <1>1, <1>2, <1>3, <1>4, GitMoves DEF keeps

\* What is out of a job's way stays so until it is through.
LEMMA ClearedNext ==
    ASSUME TypeInv, TypeInv', WorkInv, Next
    PROVE  Cleared'
<1> SUFFICES ASSUME turn' # <<>>
             PROVE  /\ Now'.at = "cut" => ~tree'[Now'.task].there
                    /\ Now'.at = "branches" => \A t \in Task : ~tree'[t].there
                    /\ Now'.at = "remove" => run'.landing = NoLanding
    BY DEF Cleared
<1>1. CASE TurnStep
    <2>1. CASE Replaces /\ Now'.at = "cut" /\ Now'.task = Now.task /\ Now.task \in Task
        BY <2>1 DEF Replaces, TypeInv, GitTypes, TreeType
    <2>2. CASE RemovesTrees /\ Now'.at = "branches"
        BY <2>2 DEF RemovesTrees, TypeInv, GitTypes, TreeType
    <2>3. CASE Records /\ Now'.at = "remove"
        BY <2>3 DEF Records, TypeInv, RecordTypes, RunType
    <2> QED BY <1>1, <2>1, <2>2, <2>3, NowGoes DEF Marks
<1>2. CASE ~TurnStep /\ turn # <<>> /\ Now'.at = Now.at /\ Now'.task = Now.task
    <2>1. ~Cuts /\ ~Journals /\ ~RevertJudged /\ ~RevertSaves
        BY <1>2 DEF TurnStep
    <2>2. Now'.at # "remove" \/ ~Crash
        <3>1. Crash => turn' = <<[Job("prune", None) EXCEPT !.at = "admin"]>>
            BY DEF Crash
        <3> QED BY <3>1 DEF Now, Job
    <2>3. Now'.at = "remove" => run'.landing = NoLanding
        BY <1>2, <2>1, <2>2, LandingMoves DEF WorkInv, Cleared
    <2>4. Now'.at = "cut" => Now.task \in Task
        <3>1. JobFits(Now)
            BY <1>2, NowFits DEF TypeInv, RecordTypes
        <3> QED BY <1>2, <3>1 DEF JobFits, Stage
    <2> QED BY <1>2, <2>1, <2>3, <2>4, TreesCome DEF WorkInv, Cleared
<1> QED BY <1>1, <1>2, NowStays DEF Marks

-----------------------------------------------------------------------------
(* The theorems.                                                            *)

\* Nothing has happened yet.
LEMMA InitWork ==
    ASSUME Init
    PROVE  WorkInv
<1>1. turn = <<>> /\ wrote = {} /\ run = NoRun /\ saved.run = NoRun
    BY DEF Init
<1>2. \A t \in Task : ~tree[t].there
    BY DEF Init, NoTree
<1>3. RiskTold
    BY <1>1 DEF RiskTold, AtRisk
<1>4. WorkSurvives /\ StandsOnLanded /\ StandsBelow /\ Cleared
    BY <1>1, <1>2 DEF WorkSurvives, StandsOnLanded, StandsBelow, Below, Cleared
<1> QED BY <1>3, <1>4 DEF WorkInv

\* No step of the system.
LEMMA StutterWork ==
    ASSUME WorkInv, UNCHANGED vars
    PROVE  WorkInv'
<1>1. UNCHANGED <<line, head, tree, kept, run, saved, turn, wrote, gaveUp, exposed, loose>>
    BY DEF vars, git, record, locks, history
<1>2. WorkSurvives'
    BY <1>1 DEF WorkInv, WorkSurvives, Survives, InTree, InSeq, Merge
<1>3. StandsOnLanded'
    BY <1>1 DEF WorkInv, StandsOnLanded, InSeq, Merge
<1>4. RiskTold'
    <2>1. AtRisk' = AtRisk
        BY <1>1 DEF AtRisk, AboveTip, Tips, InTree, InUserBranch, InSeq, Merge
    <2> QED BY <1>1, <2>1 DEF WorkInv, RiskTold
<1>5. StandsBelow' /\ Cleared'
    BY <1>1 DEF WorkInv, StandsBelow, Below, Cleared, Now
<1> QED BY <1>2, <1>3, <1>4, <1>5 DEF WorkInv

\* Every step keeps what keeps work.
LEMMA WorkNext ==
    ASSUME TypeInv, WorkInv, Next
    PROVE  WorkInv'
BY NextTyped, StandsNext, BelowNext, SurvivesNext, RiskNext, ClearedNext DEF WorkInv

\* Ordewell never deletes work but what was exposed: what an attempt wrote, or the user committed on an integration
\* branch, is in its worktree, on an integration branch, in the user's branch, on a branch made to keep it, or was the
\* user's to discard, through crashes at any moment, conflicts, failing rollbacks, reverts and clean-ups (preserve,
\* deleteIfMerged, settleLanding).
THEOREM WorkIsNeverLost == Spec => []WorkSurvives
<1>1. Init => TypeInv /\ WorkInv
    BY InitTyped, InitWork
<1>2. TypeInv /\ WorkInv /\ [Next]_vars => TypeInv' /\ WorkInv'
    BY NextTyped, StutterTyped, WorkNext, StutterWork
<1>3. WorkInv => WorkSurvives
    BY DEF WorkInv
<1> QED BY <1>1, <1>2, <1>3, PTL DEF Spec

\* No worktree but a loose one is left standing on work that is rolled back from beneath it: what it was cut
\* from, or repaired against, has landed (prepare takes the turn, settleLanding goes no lower than the tips).
THEOREM TreesStandOnLanded == Spec => []StandsOnLanded
<1>1. Init => TypeInv /\ WorkInv
    BY InitTyped, InitWork
<1>2. TypeInv /\ WorkInv /\ [Next]_vars => TypeInv' /\ WorkInv'
    BY NextTyped, StutterTyped, WorkNext, StutterWork
<1>3. WorkInv => StandsOnLanded
    BY DEF WorkInv
<1> QED BY <1>1, <1>2, <1>3, PTL DEF Spec

=============================================================================
