------------------------------ MODULE Readiness ------------------------------
(***************************************************************************)
(* What a plan's statuses hold back (services/readiness.ts and             *)
(* services/blocking.ts), as definitions over the plan's graph rather than *)
(* the walks that compute them. A flat run of AI tasks: no loop, no merge  *)
(* gate, so a completed dependency has landed.                             *)
(***************************************************************************)
EXTENDS FiniteSets, Naturals

CONSTANTS
    Task,    \* the plan's tasks
    Deps     \* what each waits for

ASSUME DepsAssumption == Deps \in [Task -> SUBSET Task]

\* awaiting_user is told by its reason: a question, a conflict, a usage limit.
Status == {"pending", "in_progress", "asking", "conflict", "limited", "completed", "failed", "skipped"}

Done == {"completed", "skipped"}

\* What is reached from some tasks, going on through the ones of a set.
Behind(from, through) ==
    {t \in Task : \A S \in SUBSET Task :
        (from \subseteq S /\ \A u \in S \cap through : Deps[u] \subseteq S) => t \in S}

DepsOf(S) == UNION {Deps[t] : t \in S}

Of(status, S) == {t \in Task : status[t] \in S}

\* planBlocks: a task not started, behind a failed one through tasks not started.
Blocked(status) ==
    {t \in Of(status, {"pending"}) :
        Behind(Deps[t], Of(status, {"pending"})) \cap Of(status, {"failed"}) # {}}

\* waitingBehind: what t waits for. A skipped task is gone through to what it
\* waited on, behind which a failed or blocked task is a dead end.
WaitingBehind(status, t, pastFailures) ==
    LET direct == IF pastFailures THEN Behind(Deps[t], Blocked(status)) ELSE Deps[t]
        skipped == Of(status, {"skipped"})
        behindSkip == Behind(DepsOf(direct \cap skipped), skipped) \ direct
        hopeless == Of(status, {"failed"}) \cup Blocked(status)
    IN  {u \in direct : status[u] \notin Done /\ (pastFailures => u \notin hopeless)}
        \cup {u \in behindSkip : status[u] \notin Done /\ u \notin hopeless}
=============================================================================
