---- MODULE MCPlanTurns ----
(* The planner turns of one Session, with few inputs and acts. *)
EXTENDS PlanTurns

CONSTANTS u1, u2, w1, r1, d1

MCTurn == {1, 2}

\* What meets on one day: three inputs at most, and the acts that concern them.
MCDays == {
    {u1, w1, "stop", "hang", "ticks"},
    {u1, u2, w1, "force", "withdraw"},
    {u1, u2, w1, "withdraw", "ticks"},
    {u1, u2, "force", "goal"},
    {u1, w1, "goal", "stop"},
    {u1, r1, "load", "crash"},
    {u1, u2, "check", "stop", "force"},
    {u1, w1, "cancel", "switch", "retry", "stop"},
    {u1, w1, "compact", "stop", "able"},
    {w1, "compact", "lease lost"},
    {u1, r1, d1, "hang", "lease lost"},
    {w1, r1, d1, "hang"}}
====
