------------------------------ MODULE SlotBudget ------------------------------
(* What a tree is promised of its slots, whoever asks for one and in whatever *)
(* order: at most Limit claims are inside, and at most one planner turn is    *)
(* past them, let in only while everything inside waits on a planner.         *)
EXTENDS Naturals, FiniteSets

CONSTANTS
    Claim,   \* what may hold a slot
    Turn,    \* the claims that are planner turns
    Limit    \* how many run at once

VARIABLES
    inside,  \* the claims within the limit
    past,    \* the turn past it, if any
    waiting  \* the claims that wait on a planner; the tree's users decide it

budgetVars == <<inside, past, waiting>>

Init == inside = {} /\ past = {} /\ waiting = {}

Enter(c) ==
    /\ c \notin inside \cup past
    /\ Cardinality(inside) < Limit
    /\ inside' = inside \cup {c}
    /\ UNCHANGED past

EnterPast(c) ==
    /\ c \in Turn \ inside
    /\ past = {}
    /\ inside # {} /\ inside \subseteq waiting
    /\ past' = {c}
    /\ UNCHANGED inside

Exit(c) ==
    /\ c \in inside \cup past
    /\ inside' = inside \ {c}
    /\ past' = past \ {c}

Wait == UNCHANGED <<inside, past>>

Next ==
    /\ waiting' \in SUBSET Claim
    /\ Wait \/ \E c \in Claim : Enter(c) \/ EnterPast(c) \/ Exit(c)

Spec == Init /\ [][Next]_budgetVars
=============================================================================
