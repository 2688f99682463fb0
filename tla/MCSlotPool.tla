------------------------------ MODULE MCSlotPool ------------------------------
(* Instances of SlotPool for TLC: a root, two children, an attempt each. *)
EXTENDS SlotPool

CONSTANTS root, a, b, r1, a1, b1, none

MCNode == {root, a, b}

MCTask == {r1, a1, b1}
MCOwner == r1 :> root @@ a1 :> a @@ b1 :> b
=============================================================================
