---- MODULE MCChildPlan ----
(* A delegated task with two attempts, whose child has two tasks to plan. *)
EXTENDS ChildPlan

MCAttempt == {1, 2}
MCItem == {1, 2}

\* What meets on one day.
MCDays == {
    {"stop", "again", "refuse", "one task"},
    {"stop", "person", "message"},
    {"stop", "ask"},
    {"stop", "withdraw", "give up"},
    {"ask", "clock", "budget"},
    {"ask", "withdraw"},
    {"clock", "task fails", "retry"},
    {"task fails", "wake fails", "turn fails"},
    {"budget", "person", "give up"},
    {"no room", "ask"}}
====
