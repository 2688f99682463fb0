----------------------------- MODULE SessionLease -----------------------------
(***************************************************************************)
(* One live host per session (services/sessionLease.ts, createSession.ts,  *)
(* web/server/pool/orchestratorPool.ts): the hosts' leases on the saved    *)
(* sessions, their Sessions' saves, and the runners they start.            *)
(*                                                                         *)
(* A lease file's swap is made under the file lock (FileLock) and is one   *)
(* step. A host is one thread: what its code does between two awaits is    *)
(* one step, except that opening a session reads the file (Read) before it *)
(* claims the lease (Load), and nothing of that host comes between.        *)
(***************************************************************************)
EXTENDS Naturals, FiniteSets

CONSTANTS
    Host,    \* the processes that run Sessions
    Handle,  \* their Sessions
    HostOf,  \* the host of each
    File,    \* the saved sessions
    Group,   \* the runners' process groups
    Acts,    \* what may happen besides opening, saving and running
    None     \* nothing

Records == [host : Host, fresh : BOOLEAN, groups : SUBSET Group]
Runnings == [handle : Handle, file : File, alive : BOOLEAN]

ASSUME HostAssumption == HostOf \in [Handle -> Host]
ASSUME NoneAssumption == None \notin File /\ None \notin Records /\ None \notin Runnings

VARIABLES
    up,        \* how each host is: "reused" is dead, its pid handed on
    record,    \* each session's lease file
    file,      \* the session whose lease each Session holds
    lost,      \* the one another host took from it
    session,   \* the one it has open
    reading,   \* the one whose file it has read to open it
    closing,   \* the Sessions destroyed, and not gone yet
    op,        \* those with a control under way, saved as it ends
    starting,  \* those about to start a runner
    by,        \* who started each group, for which session
    named,     \* the groups each lease file has named
    saved,     \* the sessions on disk
    older,     \* the Sessions whose plan lacks what another saved since
    outdated,  \* those whose read of the file does
    overwrote  \* the sessions such a plan was saved over

vars == <<up, record, file, lost, session, reading, closing, op, starting, by, named, saved, older, outdated, overwrote>>
leases == <<record, file, lost, named>>
disk == <<saved, older, outdated, overwrote>>

TypeOK ==
    /\ up \in [Host -> {"up", "asleep", "dead", "reused"}]
    /\ record \in [File -> Records \cup {None}]
    /\ file \in [Handle -> File \cup {None}]
    /\ lost \in [Handle -> File \cup {None}]
    /\ session \in [Handle -> File \cup {None}]
    /\ reading \in [Handle -> File \cup {None}]
    /\ closing \subseteq Handle /\ op \subseteq Handle /\ starting \subseteq Handle
    /\ by \in [Group -> Runnings \cup {None}]
    /\ named \in [File -> SUBSET Group]
    /\ saved \subseteq File /\ older \subseteq Handle /\ outdated \subseteq Handle /\ overwrote \subseteq File

Init ==
    /\ up = [h \in Host |-> "up"]
    /\ record = [f \in File |-> None]
    /\ file = [k \in Handle |-> None]
    /\ lost = [k \in Handle |-> None]
    /\ session = [k \in Handle |-> None]
    /\ reading = [k \in Handle |-> None]
    /\ closing = {} /\ op = {} /\ starting = {}
    /\ by = [g \in Group |-> None]
    /\ named = [f \in File |-> {}]
    /\ saved \in {{}, File} /\ older = {} /\ outdated = {} /\ overwrote = {}

Of(h) == {k \in Handle : HostOf[k] = h}

\* Its thread is free for a step of one of its Sessions.
Free(h) == up[h] = "up" /\ \A k \in Of(h) : reading[k] = None

Open(k) == Free(HostOf[k]) /\ session[k] # None /\ k \notin closing

Alive(g) == by[g] # None /\ by[g].alive

\* What a host knows of its holders, and of the groups it has started.
HoldersOn(h, f) == {k \in Of(h) : file[k] = f}
GroupsOf(h) == {g \in Group : Alive(g) /\ HostOf[by[g].handle] = h}
Runners(k) == {g \in Group : Alive(g) /\ by[g].handle = k}

\* Another host's record is there.
Taken(h, f) == record[f] # None /\ record[f].host # h

\* Mutant of Lives: a pid that answers is enough, however old its heartbeat.
LivesByPid(r) == up[r.host] # "dead"

Lives(r) == r.fresh /\ up[r.host] # "dead"

\* h may not take f: its holder lives, or runners it named do.
Refuses(h, f) == Taken(h, f) /\ (Lives(record[f]) \/ \E g \in record[f].groups : Alive(g))

\* Mutant of Holds: what was lost is claimed again when nobody holds it.
HoldsAgain(k, f) == IF file[k] = f THEN ~Taken(HostOf[k], f) ELSE ~Refuses(HostOf[k], f)

\* hold of f: what was lost stays lost; what is held is looked up again.
Holds(k, f) ==
    /\ lost[k] # f
    /\ IF file[k] = f THEN ~Taken(HostOf[k], f) ELSE ~Refuses(HostOf[k], f)

\* Whoever of h holds a lease another host wrote over loses it, found so by k.
Loses(k, f) == IF Taken(HostOf[k], f) /\ lost[k] # f THEN HoldersOn(HostOf[k], f) ELSE {}

Written(h) == [host |-> h, fresh |-> TRUE, groups |-> GroupsOf(h)]

\* Mutant of Emptied: the lease file goes with any of the host's holders.
EmptiedByAny(k, f) == file[k] = f /\ record[f] # None /\ record[f].host = HostOf[k]

\* The lease file goes with the host's last holder.
Emptied(k, f) == HoldersOn(HostOf[k], f) = {k} /\ record[f] # None /\ record[f].host = HostOf[k]

\* k holds f, and lets go of what it held before.
Grant(k, f) ==
    LET anew == file[k] # f \/ record[f] = None
    IN  /\ file' = [j \in Handle |-> IF j = k THEN f ELSE IF j \in Loses(k, f) THEN None ELSE file[j]]
        /\ lost' = [j \in Handle |-> IF j = k THEN None ELSE IF j \in Loses(k, f) THEN f ELSE lost[j]]
        /\ record' = [g \in File |-> IF g = f /\ anew THEN Written(HostOf[k])
                                     ELSE IF g # f /\ Emptied(k, g) THEN None ELSE record[g]]
        /\ named' = IF anew THEN [named EXCEPT ![f] = @ \cup GroupsOf(HostOf[k])] ELSE named

\* Those who lost f are told.
Refused(k, f) ==
    /\ file' = [j \in Handle |-> IF j \in Loses(k, f) THEN None ELSE file[j]]
    /\ lost' = [j \in Handle |-> IF j \in Loses(k, f) THEN f ELSE lost[j]]
    /\ UNCHANGED <<record, named>>

LetGo(k) ==
    /\ file' = [file EXCEPT ![k] = None]
    /\ lost' = [lost EXCEPT ![k] = None]
    /\ record' = [f \in File |-> IF Emptied(k, f) THEN None ELSE record[f]]
    /\ UNCHANGED named

\* k's plan is the one on disk now: every other copy of f lacks it.
Write(k, f) ==
    /\ saved' = saved \cup {f}
    /\ overwrote' = IF k \in older THEN overwrote \cup {f} ELSE overwrote
    /\ older' = (older \ {k}) \cup {j \in Handle \ {k} : session[j] = f}
    /\ outdated' = (outdated \ {k}) \cup {j \in Handle \ {k} : reading[j] = f}

-----------------------------------------------------------------------------
\* A Session is opened on a saved session that nobody here has open.
Read(k, f) ==
    /\ Free(HostOf[k]) /\ k \notin closing /\ f \in saved
    /\ \A j \in Of(HostOf[k]) \ closing : session[j] # f
    /\ session[k] = None \/ "switch" \in Acts
    /\ reading' = [reading EXCEPT ![k] = f]
    /\ UNCHANGED <<up, leases, session, closing, op, starting, by, disk>>

\* loadPlan under the claim: the plan as read is saved, the one held dropped.
Load(k, f) ==
    /\ up[HostOf[k]] = "up" /\ reading[k] = f
    /\ reading' = [reading EXCEPT ![k] = None]
    /\ starting' = starting \ (Loses(k, f) \cup {k})
    /\ Grant(k, f) /\ ~Refuses(HostOf[k], f)
    /\ session' = [session EXCEPT ![k] = f]
    /\ overwrote' = IF k \in outdated THEN overwrote \cup {f} ELSE overwrote
    /\ older' = older \ {k} /\ outdated' = outdated \ {k}
    /\ UNCHANGED <<up, closing, op, by, saved>>

LoadRefused(k, f) ==
    /\ up[HostOf[k]] = "up" /\ reading[k] = f
    /\ Refuses(HostOf[k], f) /\ Refused(k, f)
    /\ reading' = [reading EXCEPT ![k] = None]
    /\ outdated' = outdated \ {k}
    /\ starting' = starting \ Loses(k, f)
    /\ UNCHANGED <<up, session, closing, op, by, saved, older, overwrote>>

\* The disk refuses the load's save: a lease taken for it is let go.
LoadFails(k, f) ==
    /\ "disk" \in Acts
    /\ up[HostOf[k]] = "up" /\ reading[k] = f /\ ~Refuses(HostOf[k], f)
    /\ reading' = [reading EXCEPT ![k] = None]
    /\ outdated' = outdated \ {k}
    /\ file' = [j \in Handle |-> IF j \in Loses(k, f) THEN None ELSE file[j]]
    /\ lost' = [j \in Handle |-> IF j \in Loses(k, f) THEN f ELSE lost[j]]
    /\ record' = [record EXCEPT ![f] = IF HoldersOn(HostOf[k], f) \subseteq Loses(k, f) THEN None ELSE Written(HostOf[k])]
    /\ named' = [named EXCEPT ![f] = @ \cup GroupsOf(HostOf[k])]
    /\ starting' = starting \ Loses(k, f)
    /\ UNCHANGED <<up, session, closing, op, by, saved, older, overwrote>>

\* reset: an id is minted, whose lease is claimed at its first save.
New(k, f) ==
    /\ Free(HostOf[k]) /\ k \notin closing
    /\ session[k] = None \/ "switch" \in Acts
    /\ f \notin saved /\ record[f] = None
    /\ \A j \in Handle : session[j] # f
    /\ \A g \in Group : by[g] # None => by[g].file # f
    /\ session' = [session EXCEPT ![k] = f]
    /\ starting' = starting \ {k}
    /\ older' = older \ {k}
    /\ LetGo(k)
    /\ UNCHANGED <<up, reading, closing, op, by, saved, outdated, overwrote>>

\* persist: a host that does not hold the session saves nothing.
Persist(k) ==
    LET f == session[k]
    IN  /\ starting' = starting \ Loses(k, f)
        /\ \/ Holds(k, f) /\ Grant(k, f) /\ Write(k, f)
           \/ ~Holds(k, f) /\ Refused(k, f) /\ UNCHANGED disk

Save(k) ==
    /\ Open(k) /\ Persist(k)
    /\ UNCHANGED <<up, session, reading, closing, op, by>>

\* A control that awaits (Merge all, a start) begins with the lease held.
BeginOp(k) ==
    /\ "op" \in Acts
    /\ Open(k) /\ k \notin op
    /\ LET f == session[k]
       IN  /\ starting' = starting \ Loses(k, f)
           /\ \/ Holds(k, f) /\ Grant(k, f) /\ op' = op \cup {k}
              \/ ~Holds(k, f) /\ Refused(k, f) /\ UNCHANGED op
    /\ UNCHANGED <<up, session, reading, closing, by, disk>>

\* withSave: its end saves, of a Session closed meanwhile too.
EndOp(k) ==
    /\ Free(HostOf[k]) /\ k \in op
    /\ op' = op \ {k}
    /\ Persist(k)
    /\ UNCHANGED <<up, session, reading, closing, by>>

\* One that throws ends without a save.
FailOp(k) ==
    /\ Free(HostOf[k]) /\ k \in op
    /\ op' = op \ {k}
    /\ UNCHANGED <<up, leases, session, reading, closing, starting, by, disk>>

\* An attempt's workspace is prepared with the lease held.
Prepare(k) ==
    /\ Open(k) /\ k \notin starting
    /\ LET f == session[k]
       IN  \/ Holds(k, f) /\ Grant(k, f) /\ starting' = starting \cup {k}
           \/ ~Holds(k, f) /\ Refused(k, f) /\ starting' = starting \ Loses(k, f)
    /\ UNCHANGED <<up, session, reading, closing, op, by, disk>>

\* Its runner comes up; the lease file names it at the next beat.
Spawn(k, g) ==
    /\ Free(HostOf[k]) /\ k \in starting /\ by[g] = None
    /\ starting' = starting \ {k}
    /\ by' = [by EXCEPT ![g] = [handle |-> k, file |-> session[k], alive |-> TRUE]]
    /\ UNCHANGED <<up, leases, session, reading, closing, op, disk>>

\* A runner ends, or is stopped with its host gone.
GroupEnds(g) ==
    /\ Alive(g)
    /\ by' = [by EXCEPT ![g].alive = FALSE]
    /\ UNCHANGED <<up, leases, session, reading, closing, op, starting, disk>>

\* The lease goes, and no save comes after it.
Gone(k) ==
    /\ session' = [session EXCEPT ![k] = None]
    /\ closing' = closing \ {k} /\ op' = op \ {k} /\ starting' = starting \ {k} /\ older' = older \ {k}
    /\ LetGo(k)

\* Mutant of Close: the lease goes at once, whatever is still winding down.
CloseAtOnce(k) ==
    /\ "close" \in Acts
    /\ Open(k) /\ Gone(k)
    /\ UNCHANGED <<up, reading, by, saved, outdated, overwrote>>

\* destroy: the lease goes once the Session's runners have, and its changes to
\* git. A control past its last change is not waited for.
Close(k) ==
    /\ "close" \in Acts
    /\ Open(k)
    /\ \/ Runners(k) = {} /\ Gone(k)
       \/ /\ Runners(k) # {} \/ k \in op
          /\ closing' = closing \cup {k} /\ starting' = starting \ {k}
          /\ UNCHANGED <<session, op, older, leases>>
    /\ UNCHANGED <<up, reading, by, saved, outdated, overwrote>>

Depart(k) ==
    /\ Free(HostOf[k]) /\ k \in closing /\ Runners(k) = {}
    /\ Gone(k)
    /\ UNCHANGED <<up, reading, by, saved, outdated, overwrote>>

\* Mutant of Beat: a lease another host took is left alone, and nobody told.
BeatTellsNobody(h) ==
    /\ Free(h)
    /\ record' = [f \in File |-> IF HoldersOn(h, f) # {} /\ ~Taken(h, f) THEN Written(h) ELSE record[f]]
    /\ named' = [f \in File |-> IF HoldersOn(h, f) # {} /\ ~Taken(h, f) THEN named[f] \cup GroupsOf(h) ELSE named[f]]
    /\ UNCHANGED <<up, file, lost, session, reading, closing, op, starting, by, disk>>

\* Every lease the host holds is written again; one another took is lost.
Beat(h) ==
    LET gone == {k \in Of(h) : file[k] # None /\ Taken(h, file[k])}
    IN  /\ Free(h)
        /\ record' = [f \in File |-> IF HoldersOn(h, f) # {} /\ ~Taken(h, f) THEN Written(h) ELSE record[f]]
        /\ named' = [f \in File |-> IF HoldersOn(h, f) # {} /\ ~Taken(h, f) THEN named[f] \cup GroupsOf(h) ELSE named[f]]
        /\ file' = [k \in Handle |-> IF k \in gone THEN None ELSE file[k]]
        /\ lost' = [k \in Handle |-> IF k \in gone THEN file[k] ELSE lost[k]]
        /\ starting' = starting \ gone
        /\ UNCHANGED <<up, session, reading, closing, op, by, disk>>

\* The host is killed: its lease files and its runners are what it leaves.
Die(h, how) ==
    /\ "die" \in Acts
    /\ up[h] = "up"
    /\ up' = [up EXCEPT ![h] = how]
    /\ file' = [k \in Handle |-> IF k \in Of(h) THEN None ELSE file[k]]
    /\ lost' = [k \in Handle |-> IF k \in Of(h) THEN None ELSE lost[k]]
    /\ session' = [k \in Handle |-> IF k \in Of(h) THEN None ELSE session[k]]
    /\ reading' = [k \in Handle |-> IF k \in Of(h) THEN None ELSE reading[k]]
    /\ closing' = closing \ Of(h) /\ op' = op \ Of(h) /\ starting' = starting \ Of(h)
    /\ older' = older \ Of(h) /\ outdated' = outdated \ Of(h)
    /\ UNCHANGED <<record, by, named, saved, overwrote>>

\* It is suspended, and goes on later.
Sleep(h) ==
    /\ "sleep" \in Acts
    /\ up[h] = "up" /\ up' = [up EXCEPT ![h] = "asleep"]
    /\ UNCHANGED <<leases, session, reading, closing, op, starting, by, disk>>

Wake(h) ==
    /\ up[h] = "asleep" /\ up' = [up EXCEPT ![h] = "up"]
    /\ UNCHANGED <<leases, session, reading, closing, op, starting, by, disk>>

\* A heartbeat nobody refreshes is past the stale age.
Age(f) ==
    /\ record[f] # None /\ record[f].fresh /\ up[record[f].host] # "up"
    /\ record' = [record EXCEPT ![f].fresh = FALSE]
    /\ UNCHANGED <<up, file, lost, named, session, reading, closing, op, starting, by, disk>>

SessionStep(k) ==
    \/ \E f \in File : Read(k, f) \/ Load(k, f) \/ LoadRefused(k, f) \/ LoadFails(k, f) \/ New(k, f)
    \/ Save(k) \/ BeginOp(k) \/ EndOp(k) \/ FailOp(k) \/ Prepare(k) \/ Close(k) \/ Depart(k)
    \/ \E g \in Group : Spawn(k, g)

HostStep(h) == Beat(h) \/ Sleep(h) \/ Wake(h) \/ \E how \in {"dead", "reused"} : Die(h, how)

Next ==
    \/ \E k \in Handle : SessionStep(k)
    \/ \E h \in Host : HostStep(h)
    \/ \E g \in Group : GroupEnds(g)
    \/ \E f \in File : Age(f)

Spec == Init /\ [][Next]_vars

\* A group whose host has gone is stopped by the shell that watches for that.
Orphaned(g) == by[g] # None /\ up[HostOf[by[g].handle]] \in {"dead", "reused"}

Fairness ==
    /\ \A k \in Handle : WF_vars(\E f \in File : Load(k, f) \/ LoadRefused(k, f))
    /\ \A h \in Host : WF_vars(Beat(h))
    /\ \A g \in Group : WF_vars(Orphaned(g) /\ GroupEnds(g))
    /\ \A f \in File : WF_vars(Age(f))

LiveSpec == Spec /\ Fairness

-----------------------------------------------------------------------------
\* Whoever believes it holds a session is whom the lease file names, so no two
\* hosts hold one at once: while no host is suspended past the stale age, no
\* order of claims, saves, closes and deaths leaves two (ADR-0049, L3 and L4).
HolderIsRecorded == \A k \in Handle : file[k] # None => record[file[k]] # None /\ record[file[k]].host = HostOf[k]

\* Runners of two hosts work on one session at once only if its lease file never
\* came to name those of the first: their host died before its next beat (L3).
OneHostRuns ==
    \A g, j \in Group :
        Alive(g) /\ Alive(j) /\ by[g].file = by[j].file /\ HostOf[by[g].handle] # HostOf[by[j].handle]
            => g \notin named[by[g].file] \/ j \notin named[by[j].file]

\* No plan is saved over a newer one of the same session (persist, L6).
NoWorkLost == overwrote = {}

\* A plan that lacks what another Session saved since is never saved again as
\* it is: a lease lost while its host was suspended is not claimed back, not
\* when the host that took it is gone in its turn (SessionLease.hold, L6).
LostStaysLost == [][\A k \in older : session'[k] = session[k] => k \in older']_vars

\* The session of a host that is gone can be opened in another, once its
\* runners have ended: a pid handed on holds it no longer than the stale age.
TakeoverComes ==
    \A f \in File :
        (record[f] # None /\ up[record[f].host] \in {"dead", "reused"})
            ~> ~\E h \in Host : Refuses(h, f)

\* A Session does not go on in the belief that it holds a lease that names
\* another host, once its own goes on (L6).
Deceived(k) == file[k] # None /\ Taken(HostOf[k], file[k]) /\ up[HostOf[k]] = "up"
LostIsTold == \A k \in Handle : Deceived(k) ~> ~Deceived(k)

\* A lease nobody upholds goes on: from a host that is gone to whoever asks, and
\* from a host that slept to the one that took it, which the first then hears.
LeaseGoesOn == TakeoverComes /\ LostIsTold
=============================================================================
