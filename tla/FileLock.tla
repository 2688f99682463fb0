------------------------------- MODULE FileLock -------------------------------
(***************************************************************************)
(* withFileLock (utils/fileLock.ts): a swap of one file, made by the       *)
(* process that created its lock file. A step is one call on the file      *)
(* system. A lock is told from another by its token and its time, which    *)
(* both change as its token is written into it.                            *)
(***************************************************************************)
EXTENDS Naturals, FiniteSets

CONSTANTS
    Proc,      \* the processes that swap the file
    Mortal,    \* those that may die with the lock
    MaxPolls,  \* how often a wait looks before its deadline
    MaxCalls,  \* bound: swaps each process makes
    None       \* no lock

VARIABLES
    pc,     \* where each process is
    calls,  \* the swaps each began
    polls,  \* how often its wait has looked
    last,   \* the stale lock its last look saw
    lock,   \* the lock file
    robbed  \* history: the swaps whose lock was removed by name for another

vars == <<pc, calls, polls, last, lock, robbed>>

At == {"out", "creating", "looking", "removing", "naming", "swapping", "leaving", "freeing", "dead"}

Locks == [by : Proc, call : Nat, named : BOOLEAN, stale : BOOLEAN]

\* What tells one lock from another.
Seen == [by : Proc, call : Nat, named : BOOLEAN]
Same(l) == [by |-> l.by, call |-> l.call, named |-> l.named]

TypeOK ==
    /\ pc \in [Proc -> At]
    /\ calls \in [Proc -> Nat]
    /\ polls \in [Proc -> 0..MaxPolls]
    /\ last \in [Proc -> Seen \cup {None}]
    /\ lock \in Locks \cup {None}
    /\ robbed \subseteq Proc \X Nat

Init ==
    /\ pc = [p \in Proc |-> "out"]
    /\ calls = [p \in Proc |-> 0]
    /\ polls = [p \in Proc |-> 0]
    /\ last = [p \in Proc |-> None]
    /\ lock = None
    /\ robbed = {}

Moves(p, from, to) == pc[p] = from /\ pc' = [pc EXCEPT ![p] = to]

\* The lock p made for its swap, with its token in it.
Own(p, l) == l # None /\ l.by = p /\ l.call = calls[p] /\ l.named

Begin(p) ==
    /\ Moves(p, "out", "creating")
    /\ calls[p] < MaxCalls
    /\ calls' = [calls EXCEPT ![p] = @ + 1]
    /\ polls' = [polls EXCEPT ![p] = 0]
    /\ last' = [last EXCEPT ![p] = None]
    /\ UNCHANGED <<lock, robbed>>

\* Created exclusively, and empty yet.
Create(p) ==
    /\ Moves(p, "creating", "naming")
    /\ lock = None
    /\ lock' = [by |-> p, call |-> calls[p], named |-> FALSE, stale |-> FALSE]
    /\ UNCHANGED <<calls, polls, last, robbed>>

Exists(p) ==
    /\ lock # None /\ polls[p] < MaxPolls
    /\ Moves(p, "creating", "looking")
    /\ UNCHANGED <<calls, polls, last, lock, robbed>>

\* The deadline has passed.
GiveUp(p) ==
    /\ lock # None /\ polls[p] = MaxPolls
    /\ Moves(p, "creating", "out")
    /\ UNCHANGED <<calls, polls, last, lock, robbed>>

\* A look at the lock: only two that agree on a stale one remove it.
Look(p) ==
    /\ pc[p] = "looking"
    /\ IF lock # None /\ lock.stale /\ last[p] = Same(lock)
       THEN pc' = [pc EXCEPT ![p] = "removing"] /\ UNCHANGED <<polls, last>>
       ELSE /\ pc' = [pc EXCEPT ![p] = "creating"]
            /\ last' = [last EXCEPT ![p] = IF lock # None /\ lock.stale THEN Same(lock) ELSE None]
            /\ polls' = [polls EXCEPT ![p] = IF lock # None THEN @ + 1 ELSE @]
    /\ UNCHANGED <<calls, lock, robbed>>

\* unlink takes the file there is by now; a lock other than the one meant is robbed of its maker.
Unlinks(meant) ==
    /\ lock' = None
    /\ robbed' = robbed \cup IF lock = None \/ meant THEN {} ELSE {<<lock.by, lock.call>>}

\* The lock seen twice is removed, by its name.
Remove(p) ==
    /\ Moves(p, "removing", "creating")
    /\ Unlinks(lock # None /\ Same(lock) = last[p])
    /\ last' = [last EXCEPT ![p] = None]
    /\ UNCHANGED <<calls, polls>>

\* The token is written into the file p created, if that is there still.
Name(p) ==
    /\ Moves(p, "naming", "swapping")
    /\ lock' = IF lock # None /\ lock.by = p /\ lock.call = calls[p] THEN [lock EXCEPT !.named = TRUE, !.stale = FALSE] ELSE lock
    /\ UNCHANGED <<calls, polls, last, robbed>>

\* The write fails, as on a full disk: the caller has its error, and the file stays, empty.
NameFails(p) ==
    /\ Moves(p, "naming", "out")
    /\ UNCHANGED <<calls, polls, last, lock, robbed>>

Swapped(p) ==
    /\ Moves(p, "swapping", "leaving")
    /\ UNCHANGED <<calls, polls, last, lock, robbed>>

\* The holder frees the lock it finds its token in.
Release(p) ==
    /\ Moves(p, "leaving", IF Own(p, lock) THEN "freeing" ELSE "out")
    /\ UNCHANGED <<calls, polls, last, lock, robbed>>

Free(p) ==
    /\ Moves(p, "freeing", "out")
    /\ Unlinks(Own(p, lock))
    /\ UNCHANGED <<calls, polls, last>>

\* A process that dies with the lock leaves it there.
Die(p) ==
    /\ p \in Mortal
    /\ pc[p] \in {"naming", "swapping", "leaving", "freeing"}
    /\ pc' = [pc EXCEPT ![p] = "dead"]
    /\ UNCHANGED <<calls, polls, last, lock, robbed>>

\* Its maker died with it, or its call is over.
Abandoned(l) == pc[l.by] \in {"dead", "out"} \/ calls[l.by] # l.call

\* Nobody whose call goes on keeps the lock this long.
Age ==
    /\ lock # None /\ ~lock.stale /\ Abandoned(lock)
    /\ lock' = [lock EXCEPT !.stale = TRUE]
    /\ UNCHANGED <<pc, calls, polls, last, robbed>>

Runs(p) ==
    \/ Begin(p) \/ Create(p) \/ Exists(p) \/ GiveUp(p) \/ Look(p) \/ Remove(p)
    \/ Name(p) \/ NameFails(p) \/ Swapped(p) \/ Release(p) \/ Free(p)

Next == Age \/ \E p \in Proc : Runs(p) \/ Die(p)

Spec == Init /\ [][Next]_vars

-----------------------------------------------------------------------------
\* No two processes are in their swap at once (the comment of withFileLock, fileLock.ts:19-29):
\* what one reads of the file stands until it has written it.
OneSwap == \A p, q \in Proc : pc[p] = "swapping" /\ pc[q] = "swapping" => p = q

\* The one way for swaps to overlap is the window between the second look at a lock, or the look for
\* one's own token, and the unlink: of two swaps at once, one has been robbed of its lock.
OverlapsAreRobbed ==
    \A p, q \in Proc :
        pc[p] = "swapping" /\ pc[q] = "swapping" /\ p # q =>
            <<p, calls[p]>> \in robbed \/ <<q, calls[q]>> \in robbed
=============================================================================
