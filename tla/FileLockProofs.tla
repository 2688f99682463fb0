---------------------------- MODULE FileLockProofs ----------------------------
(***************************************************************************)
(* Swaps under the file lock overlap only when a lock is removed by its    *)
(* name for another: for any number of processes, of which any may die     *)
(* with the lock, and any writes that fail.                                *)
(***************************************************************************)
EXTENDS FileLock, TLAPS

Constants == Mortal \subseteq Proc /\ MaxPolls \in Nat /\ MaxCalls \in Nat /\ None \notin Locks \cup Seen

Holding == {"naming", "swapping", "leaving", "freeing"}

\* Whoever is past its creation is the one whose lock is there, or was robbed of it.
HolderOwns ==
    \A p \in Proc : pc[p] \in Holding =>
        \/ <<p, calls[p]>> \in robbed
        \/ /\ lock # None /\ lock.by = p /\ lock.call = calls[p]
           /\ pc[p] # "naming" => lock.named

\* Only a lock left behind grows old, and only an old lock is remembered, to be removed; none is of a
\* call to come.
Begun(l) == l.call <= calls[l.by]
OldIsLeft ==
    /\ lock # None => Begun(lock) /\ (lock.stale => Abandoned(lock))
    /\ \A p \in Proc : last[p] # None => Begun(last[p]) /\ Abandoned(last[p])

\* Nobody looks once its wait is over.
LooksInTime == \A p \in Proc : pc[p] = "looking" => polls[p] < MaxPolls

Typed == TypeOK /\ LooksInTime

IInv == Typed /\ HolderOwns /\ OldIsLeft

\* A step keeps the type of the state, and no look outlives its wait.
LEMMA TypeKept == ASSUME Constants PROVE Typed /\ [Next]_vars => Typed'
<1> SUFFICES ASSUME TypeOK, LooksInTime, [Next]_vars PROVE TypeOK' /\ LooksInTime'
  BY DEF Typed
<1> USE DEF Constants, Seen
<1>1. ASSUME NEW p \in Proc, Begin(p) PROVE TypeOK' /\ LooksInTime'
  BY <1>1 DEF TypeOK, LooksInTime, Begin, Moves, At, Locks
<1>2. ASSUME NEW p \in Proc, Create(p) PROVE TypeOK' /\ LooksInTime'
  BY <1>2 DEF TypeOK, LooksInTime, Create, Moves, At, Locks
<1>3. ASSUME NEW p \in Proc, Exists(p) PROVE TypeOK' /\ LooksInTime'
  BY <1>3 DEF TypeOK, LooksInTime, Exists, Moves, At
<1>4. ASSUME NEW p \in Proc, GiveUp(p) PROVE TypeOK' /\ LooksInTime'
  BY <1>4 DEF TypeOK, LooksInTime, GiveUp, Moves, At
<1>5. ASSUME NEW p \in Proc, Look(p) PROVE TypeOK' /\ LooksInTime'
  <2>1. CASE lock # None /\ lock.stale /\ last[p] = Same(lock)
    BY <1>5, <2>1 DEF TypeOK, LooksInTime, Look, At
  <2>2. CASE ~(lock # None /\ lock.stale /\ last[p] = Same(lock))
    <3>1. lock # None => Same(lock) \in Seen
      BY DEF TypeOK, Locks, Same
    <3>2. pc' = [pc EXCEPT ![p] = "creating"] /\ calls' = calls /\ lock' = lock
      BY <1>5, <2>2 DEF Look
    <3>3. pc' \in [Proc -> At] /\ LooksInTime'
      <4>1. \A q \in Proc : q # p => polls'[q] = polls[q]
        BY <1>5, <2>2 DEF TypeOK, Look
      <4> QED
        BY <3>2, <4>1 DEF TypeOK, LooksInTime, At
    <3>4. polls' \in [Proc -> 0..MaxPolls]
      <4>1. polls[p] \in 0..MaxPolls /\ polls[p] + 1 \in 0..MaxPolls
        BY <1>5 DEF TypeOK, LooksInTime, Look
      <4>2. polls' = [polls EXCEPT ![p] = IF lock # None THEN @ + 1 ELSE @]
        BY <1>5, <2>2 DEF Look
      <4> QED
        BY <4>1, <4>2 DEF TypeOK
    <3>5. last' \in [Proc -> Seen \cup {None}]
      <4>1. last' = [last EXCEPT ![p] = IF lock # None /\ lock.stale THEN Same(lock) ELSE None]
        BY <1>5, <2>2 DEF Look
      <4> QED
        BY <3>1, <4>1 DEF TypeOK
    <3>6. robbed' = robbed
      BY <1>5 DEF Look
    <3> QED
      BY <3>2, <3>3, <3>4, <3>5, <3>6 DEF TypeOK
  <2> QED
    BY <2>1, <2>2
<1>6. ASSUME NEW p \in Proc, Remove(p) PROVE TypeOK' /\ LooksInTime'
  <2>1. robbed' \subseteq Proc \X Nat
    BY <1>6 DEF TypeOK, Remove, Unlinks, Locks
  <2> QED
    BY <1>6, <2>1 DEF TypeOK, LooksInTime, Remove, Unlinks, Moves, At
<1>7. ASSUME NEW p \in Proc, Name(p) PROVE TypeOK' /\ LooksInTime'
  BY <1>7 DEF TypeOK, LooksInTime, Name, Moves, At, Locks
<1>8. ASSUME NEW p \in Proc, NameFails(p) \/ Swapped(p) \/ Release(p) \/ Die(p) PROVE TypeOK' /\ LooksInTime'
  BY <1>8 DEF TypeOK, LooksInTime, NameFails, Swapped, Release, Die, Moves, At
<1>11. ASSUME NEW p \in Proc, Free(p) PROVE TypeOK' /\ LooksInTime'
  <2>1. robbed' \subseteq Proc \X Nat
    BY <1>11 DEF TypeOK, Free, Unlinks, Locks
  <2> QED
    BY <1>11, <2>1 DEF TypeOK, LooksInTime, Free, Unlinks, Moves, At
<1>9. CASE Age
  BY <1>9 DEF TypeOK, LooksInTime, Age, Locks
<1>10. CASE UNCHANGED vars
  BY <1>10 DEF TypeOK, LooksInTime, vars
<1> QED
  BY <1>1, <1>2, <1>3, <1>4, <1>5, <1>6, <1>7, <1>8, <1>9, <1>10, <1>11 DEF Next, Runs

\* The state begins well typed, with nobody holding the lock.
LEMMA Begins == ASSUME Constants PROVE Init => IInv
BY DEF Constants, Seen, Init, IInv, Typed, TypeOK, LooksInTime, HolderOwns, OldIsLeft, Begun, Holding, At

\* What a call left behind stays left: a death is for good, and the next call is another.
LEMMA LeftStaysLeft ==
  ASSUME Typed, [Next]_vars, NEW l, l.by \in Proc, l.call \in Nat, Begun(l)
  PROVE  /\ l.call <= calls'[l.by]
         /\ Abandoned(l) => pc'[l.by] \in {"dead", "out"} \/ calls'[l.by] # l.call
<1> USE DEF Typed, TypeOK, Begun, Abandoned
<1>1. ASSUME NEW p \in Proc, Begin(p)
      PROVE  /\ l.call <= calls'[l.by]
             /\ Abandoned(l) => pc'[l.by] \in {"dead", "out"} \/ calls'[l.by] # l.call
  BY <1>1 DEF Begin, Moves, At
<1>2. ASSUME NEW p \in Proc, Create(p) \/ Exists(p) \/ GiveUp(p) \/ Look(p) \/ Remove(p) \/ Name(p) \/ NameFails(p)
                              \/ Swapped(p) \/ Release(p) \/ Free(p) \/ Die(p)
      PROVE  /\ l.call <= calls'[l.by]
             /\ Abandoned(l) => pc'[l.by] \in {"dead", "out"} \/ calls'[l.by] # l.call
  <2>1. calls' = calls
    BY <1>2 DEF Create, Exists, GiveUp, Look, Remove, Name, NameFails, Swapped, Release, Free, Die
  <2>2. pc[p] \notin {"dead", "out"} /\ \A q \in Proc : q # p => pc'[q] = pc[q]
    BY <1>2 DEF Create, Exists, GiveUp, Look, Remove, Name, NameFails, Swapped, Release, Free, Die, Moves
  <2> QED
    BY <2>1, <2>2
<1>3. CASE Age \/ UNCHANGED vars
  BY <1>3 DEF Age, vars
<1> QED
  BY <1>1, <1>2, <1>3 DEF Next, Runs

\* A step leaves the lock there was, takes it away, or makes the one of a call under way; what was left
\* is what is remembered.
LEMMA LeftKept ==
  ASSUME Constants, IInv, [Next]_vars
  PROVE  OldIsLeft'
<1> USE DEF IInv, Seen
<1>1. Typed'
  BY TypeKept
<1>2. ASSUME NEW l, l.by \in Proc, l.call \in Nat, Begun(l)
      PROVE  /\ l.call <= calls'[l.by]
             /\ Abandoned(l) => pc'[l.by] \in {"dead", "out"} \/ calls'[l.by] # l.call
  BY <1>2, LeftStaysLeft
<1>3. lock' # None =>
        \/ /\ lock # None /\ lock'.by = lock.by /\ lock'.call = lock.call
           /\ lock'.stale => lock.stale \/ Abandoned(lock)
        \/ lock'.by \in Proc /\ lock'.call = calls'[lock'.by] /\ ~lock'.stale
  <2> USE DEF Typed, TypeOK, Locks
  <2>1. ASSUME NEW p \in Proc, Create(p)
        PROVE  lock'.by \in Proc /\ lock'.call = calls'[lock'.by] /\ ~lock'.stale
    BY <2>1 DEF Create
  <2>2. ASSUME NEW p \in Proc, Name(p), lock' # None
        PROVE  lock # None /\ lock'.by = lock.by /\ lock'.call = lock.call /\ (lock'.stale => lock.stale)
    <3>1. CASE lock # None /\ lock.by = p /\ lock.call = calls[p]
      BY <2>2, <3>1 DEF Name
    <3>2. CASE ~(lock # None /\ lock.by = p /\ lock.call = calls[p])
      BY <2>2, <3>2 DEF Name
    <3> QED
      BY <3>1, <3>2
  <2>3. ASSUME NEW p \in Proc, Remove(p) \/ Free(p)
        PROVE  lock' = None
    BY <2>3 DEF Remove, Free, Unlinks
  <2>4. ASSUME NEW p \in Proc, Begin(p) \/ Exists(p) \/ GiveUp(p) \/ Look(p) \/ NameFails(p) \/ Swapped(p) \/ Release(p) \/ Die(p)
        PROVE  lock' = lock
    BY <2>4 DEF Begin, Exists, GiveUp, Look, NameFails, Swapped, Release, Die
  <2>5. CASE Age
    BY <2>5 DEF Age
  <2>6. CASE UNCHANGED vars
    BY <2>6 DEF vars
  <2> QED
    BY <2>1, <2>2, <2>3, <2>4, <2>5, <2>6 DEF Next, Runs
<1>4. \A q \in Proc : last'[q] # None => last'[q] = last[q] \/ (lock # None /\ lock.stale /\ last'[q] = Same(lock))
  <2> USE DEF Typed, TypeOK
  <2>1. ASSUME NEW p \in Proc, Look(p), NEW q \in Proc, last'[q] # None
        PROVE  last'[q] = last[q] \/ (lock # None /\ lock.stale /\ last'[q] = Same(lock))
    BY <2>1 DEF Look
  <2>2. ASSUME NEW p \in Proc, Begin(p) \/ Remove(p), NEW q \in Proc, last'[q] # None
        PROVE  last'[q] = last[q]
    BY <2>2 DEF Begin, Remove
  <2>3. ASSUME NEW p \in Proc, Create(p) \/ Exists(p) \/ GiveUp(p) \/ Name(p) \/ NameFails(p) \/ Swapped(p) \/ Release(p)
                                \/ Free(p) \/ Die(p)
        PROVE  last' = last
    BY <2>3 DEF Create, Exists, GiveUp, Name, NameFails, Swapped, Release, Free, Die
  <2>4. CASE Age \/ UNCHANGED vars
    BY <2>4 DEF Age, vars
  <2> QED
    BY <2>1, <2>2, <2>3, <2>4 DEF Next, Runs
<1>5. lock # None => lock.by \in Proc /\ lock.call \in Nat
  BY DEF Typed, TypeOK, Locks
<1>6. ASSUME lock' # None
      PROVE  lock'.call <= calls'[lock'.by] /\ (lock'.stale => Abandoned(lock)')
  <2>1. CASE lock # None /\ lock'.by = lock.by /\ lock'.call = lock.call /\ (lock'.stale => lock.stale \/ Abandoned(lock))
    BY <1>2, <1>5, <2>1 DEF OldIsLeft, Abandoned
  <2>2. CASE lock'.by \in Proc /\ lock'.call = calls'[lock'.by] /\ ~lock'.stale
    <3>1. calls'[lock'.by] \in Nat
      BY <1>1, <2>2 DEF Typed, TypeOK
    <3> QED
      BY <2>2, <3>1
  <2> QED
    BY <1>3, <1>6, <2>1, <2>2
<1>7. ASSUME NEW q \in Proc, last'[q] # None
      PROVE  last'[q].call <= calls'[last'[q].by] /\ (pc'[last'[q].by] \in {"dead", "out"} \/ calls'[last'[q].by] # last'[q].call)
  <2>1. CASE last'[q] = last[q]
    <3>1. last[q].by \in Proc /\ last[q].call \in Nat /\ Begun(last[q]) /\ Abandoned(last[q])
      BY <1>7, <2>1 DEF Typed, TypeOK, OldIsLeft
    <3> QED
      BY <1>2, <2>1, <3>1
  <2>2. CASE lock # None /\ lock.stale /\ last'[q] = Same(lock)
    <3>1. last'[q].by = lock.by /\ last'[q].call = lock.call
      BY <2>2 DEF Same
    <3> QED
      BY <1>2, <1>5, <2>2, <3>1 DEF OldIsLeft
  <2> QED
    BY <1>4, <1>7, <2>1, <2>2
<1> QED
  BY <1>6, <1>7 DEF OldIsLeft, Abandoned, Begun

\* A lock that is taken from its holder is one that robs them: the lock of a call under way is not the one
\* that was judged left behind.
LEMMA OwnersKept ==
  ASSUME Constants, IInv, [Next]_vars
  PROVE  HolderOwns'
<1> USE DEF Constants, IInv, Typed, TypeOK, HolderOwns, Holding
<1>1. ASSUME NEW p \in Proc, Begin(p) PROVE HolderOwns'
  BY <1>1 DEF Begin, Moves, At
<1>2. ASSUME NEW p \in Proc, Create(p) PROVE HolderOwns'
  <2>1. lock' # None /\ lock'.by = p /\ lock'.call = calls'[p] /\ pc'[p] = "naming"
    <3>1. lock' \in Locks
      BY <1>2 DEF Create, Locks
    <3>2. lock' # None
      BY <3>1
    <3> QED
      BY <1>2, <3>2 DEF Create, Moves
  <2>2. \A q \in Proc : q # p /\ pc'[q] \in Holding => <<q, calls'[q]>> \in robbed'
    BY <1>2 DEF Create, Moves
  <2> QED
    BY <2>1, <2>2
<1>3. ASSUME NEW p \in Proc, Exists(p) \/ GiveUp(p) \/ NameFails(p) \/ Swapped(p) \/ Release(p) \/ Die(p) PROVE HolderOwns'
  BY <1>3 DEF Exists, GiveUp, NameFails, Swapped, Release, Die, Moves
<1>4. ASSUME NEW p \in Proc, Look(p) PROVE HolderOwns'
  BY <1>4 DEF Look
<1>5. ASSUME NEW p \in Proc, Remove(p) PROVE HolderOwns'
  <2> SUFFICES ASSUME NEW q \in Proc, pc'[q] \in Holding, <<q, calls[q]>> \notin robbed
               PROVE  <<q, calls'[q]>> \in robbed'
    BY <1>5 DEF Remove, Unlinks
  <2>1. pc[q] \in Holding /\ calls' = calls
    BY <1>5 DEF Remove, Moves
  <2>2. lock # None /\ lock.by = q /\ lock.call = calls[q]
    BY <2>1
  <2>3. Same(lock) # last[p]
    <3> SUFFICES ASSUME Same(lock) = last[p] PROVE FALSE
      OBVIOUS
    <3>1. ~Abandoned(lock)
      BY <2>1, <2>2 DEF Abandoned
    <3>2. last[p] # None => Abandoned(last[p])
      BY DEF OldIsLeft
    <3>3. Same(lock).by = lock.by /\ Same(lock).call = lock.call /\ Same(lock) \in Seen
      BY <2>2 DEF Same, Seen, Locks
    <3> QED
      BY <3>1, <3>2, <3>3 DEF Abandoned
  <2> QED
    BY <1>5, <2>1, <2>2, <2>3 DEF Remove, Unlinks
<1>6. ASSUME NEW p \in Proc, Name(p) PROVE HolderOwns'
  <2>1. CASE lock # None /\ lock.by = p /\ lock.call = calls[p]
    <3>1. lock' = [lock EXCEPT !.named = TRUE, !.stale = FALSE] /\ lock \in Locks
      BY <1>6, <2>1 DEF Name
    <3>2. lock' \in Locks /\ lock'.by = p /\ lock'.call = calls[p] /\ lock'.named
      BY <2>1, <3>1 DEF Locks
    <3> QED
      BY <1>6, <2>1, <3>2 DEF Name, Moves
  <2>2. CASE ~(lock # None /\ lock.by = p /\ lock.call = calls[p])
    BY <1>6, <2>2 DEF Name, Moves
  <2> QED
    BY <2>1, <2>2
<1>8. ASSUME NEW p \in Proc, Free(p) PROVE HolderOwns'
  <2> SUFFICES ASSUME NEW q \in Proc, pc'[q] \in Holding, <<q, calls[q]>> \notin robbed
               PROVE  <<q, calls'[q]>> \in robbed'
    BY <1>8 DEF Free, Unlinks
  <2>1. q # p /\ pc[q] \in Holding /\ calls' = calls
    BY <1>8 DEF Free, Moves
  <2>2. lock # None /\ lock.by = q /\ lock.call = calls[q]
    BY <2>1
  <2> QED
    BY <1>8, <2>1, <2>2 DEF Free, Unlinks, Own
<1>9. CASE Age
  BY <1>9 DEF Age, Locks
<1>10. CASE UNCHANGED vars
  BY <1>10 DEF vars
<1> QED
  BY <1>1, <1>2, <1>3, <1>4, <1>5, <1>6, <1>8, <1>9, <1>10 DEF Next, Runs

\* TypeOK for every number of processes, polls and swaps.
THEOREM LockTyped == ASSUME Constants PROVE Spec => []TypeOK
<1>1. Init => Typed
  BY Begins DEF IInv
<1> QED
  BY <1>1, TypeKept, PTL DEF Spec, Typed

\* OverlapsAreRobbed, for every set of processes, whichever may die and however long they wait: two
\* swaps of one file overlap only where an unlink took a lock that was not the one it was meant for.
THEOREM OverlapsNeedRobbery == ASSUME Constants PROVE Spec => []OverlapsAreRobbed
<1>1. IInv /\ [Next]_vars => IInv'
  BY TypeKept, OwnersKept, LeftKept DEF IInv
<1>2. IInv => OverlapsAreRobbed
  BY DEF IInv, HolderOwns, OverlapsAreRobbed, Holding
<1> QED
  BY <1>1, <1>2, Begins, PTL DEF Spec
=============================================================================
