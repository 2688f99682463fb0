---- MODULE MCIsolation ----
(* Isolated execution of two tasks over two repositories. *)
EXTENDS Isolation

MCTask == {1, 2}
MCRepo == {1, 2}

\* What meets on one day.
MCDays == {
    {"crash"},
    {"chain", "crash", "crash again", "close"},
    {"retry"},
    {"chain", "stop", "stop again"},
    {"merge", "merge stops", "close"},
    {"git fails", "merge", "complete", "repair"},
    {"chain", "stop", "discard", "cleanup"},
    {"chain", "review", "crash"},
    {"revert"},
    {"chain", "revert", "review"},
    {"chain", "revert", "complete", "stop"},
    {"chain", "revert", "merge", "crash"}}

MCCrashDays == {{"crash"}}
====
