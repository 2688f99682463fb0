------------------------------- MODULE RunState -------------------------------
(***************************************************************************)
(* Where the full-plan run stands (services/runState.ts): one value, and   *)
(* one function every change of it goes through.                           *)
(***************************************************************************)

Kind == {"idle", "scheduling", "held", "endedOnFailure", "finished"}

\* What a hold goes back to; "none" of a run nothing holds.
HeldFrom == {"idle", "scheduling", "endedOnFailure"}

RunStates == {r \in [kind : Kind, from : HeldFrom \cup {"none"}] : r.kind = "held" <=> r.from # "none"}

RunEvent == {"schedule", "stop", "load", "continue", "join", "hold", "release",
             "end finished", "end failed", "reopen"}

Run(kind) == [kind |-> kind, from |-> "none"]
Held(from) == [kind |-> "held", from |-> from]

\* Mutant of WhenHeld: what leaves the hold keeps what it was held from.
WhenHeldKeepsFrom(from, event) ==
    CASE event = "schedule"                 -> [kind |-> "scheduling", from |-> from]
      [] event \in {"stop", "load"}         -> Run("idle")
      [] event = "join"                     -> Held("scheduling")
      [] event = "release"                  -> [kind |-> from, from |-> from]
      [] OTHER                              -> Held(from)

\* A held run stays held until its reset, whatever ends or joins it meanwhile.
WhenHeld(from, event) ==
    IF event = "schedule" THEN Run("scheduling")
    ELSE IF event \in {"stop", "load"} THEN Run("idle")
    ELSE IF event = "join" \/ (event = "continue" /\ from = "endedOnFailure") THEN Held("scheduling")
    ELSE IF event = "release" THEN Run(from)
    ELSE Held(from)

WhenFree(kind, event) ==
    IF event = "schedule" THEN Run("scheduling")
    ELSE IF event = "stop" THEN Run("idle")
    ELSE IF event = "load" /\ kind # "scheduling" THEN Run("idle")
    ELSE IF event = "continue" /\ kind = "endedOnFailure" THEN Run("scheduling")
    ELSE IF event = "hold" THEN Held(IF kind = "finished" THEN "idle" ELSE kind)
    ELSE IF event = "end finished" THEN Run("finished")
    ELSE IF event = "end failed" THEN Run("endedOnFailure")
    ELSE IF event = "reopen" /\ kind = "finished" THEN Run("idle")
    ELSE Run(kind)

NextRunState(state, event) ==
    IF state.kind = "held" THEN WhenHeld(state.from, event) ELSE WhenFree(state.kind, event)
=============================================================================
