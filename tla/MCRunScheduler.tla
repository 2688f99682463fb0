---- MODULE MCRunScheduler ----
(* The scheduler over small plans. *)
EXTENDS RunScheduler

CONSTANTS t1, t2, t3, a1, a2, a3

\* t2 waits for t1.
MCPair == {t1, t2}
MCPairDeps == [t \in MCPair |-> IF t = t2 THEN {t1} ELSE {}]
MCPairBefore == MCPairDeps

\* t2 and t3 wait for t1.
MCFan == {t1, t2, t3}
MCFanDeps == [t \in MCFan |-> IF t = t1 THEN {} ELSE {t1}]
MCFanBefore == [t \in MCFan |-> CASE t = t1 -> {} [] t = t2 -> {t1} [] OTHER -> {t1, t2}]
====
