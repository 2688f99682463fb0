-------------------------- MODULE SessionLeaseProofs --------------------------
(***************************************************************************)
(* Whom a lease file names, whose runners go on under it, and what becomes *)
(* of a plan whose lease was lost, for any hosts, Sessions and sessions.   *)
(*                                                                         *)
(* While no host is suspended, the Sessions that hold a lease are those of *)
(* the host its file names: a holder's host is up, and the heartbeat of a  *)
(* host that is up is fresh, so nobody is granted what it holds. A file    *)
(* that its own host wrote last still names that host's runners, which     *)
(* keeps two hosts from one session. And where hosts are suspended, a plan *)
(* gone out of date is that of a Session that lost its lease, or will hear *)
(* so before it saves.                                                     *)
(***************************************************************************)
EXTENDS SessionLease, TLAPS

NoSleep == "sleep" \notin Acts

LeaseTypes ==
    /\ up \in [Host -> {"up", "dead", "reused"}]
    /\ record \in [File -> Records \cup {None}]
    /\ file \in [Handle -> File \cup {None}]
    /\ session \in [Handle -> File \cup {None}]
    /\ op \subseteq Handle

\* A holder's host is up, and the record of one that is has been refreshed.
HoldersUp == \A k \in Handle : file[k] # None => up[HostOf[k]] = "up"
UpIsFresh == \A f \in File : record[f] # None /\ up[record[f].host] = "up" => record[f].fresh

\* A control under way is one of an open session.
OpsOpen == \A k \in op : session[k] # None

LeaseInv == LeaseTypes /\ HolderIsRecorded /\ HoldersUp /\ UpIsFresh

IInv == LeaseInv /\ OpsOpen

\* A lease file as its host writes it.
LEMMA WrittenIs ==
  ASSUME NEW h \in Host
  PROVE  /\ Written(h) \in Records /\ Written(h) # None
         /\ Written(h).host = h /\ Written(h).fresh
<1>1. Written(h) \in Records
  BY DEF Written, Records, GroupsOf
<1>2. Written(h) # None
  BY <1>1, NoneAssumption
<1> QED
  BY <1>1, <1>2 DEF Written

\* Nobody has lost a lease without being told: a taken one is held by none.
LEMMA NobodyLoses ==
  ASSUME LeaseInv, NEW k \in Handle, NEW f \in File
  PROVE  Loses(k, f) = {}
BY HostAssumption, NoneAssumption DEF LeaseInv, LeaseTypes, HolderIsRecorded, Loses, Taken, HoldersOn, Of

\* Whoever else holds f while h may take it is of h.
LEMMA HeldHere ==
  ASSUME LeaseInv, NEW h \in Host, NEW f \in File, ~Refuses(h, f),
         NEW j \in Handle, file[j] = f
  PROVE  HostOf[j] = h
<1>1. record[f] # None /\ record[f].host = HostOf[j] /\ up[HostOf[j]] = "up"
  BY NoneAssumption DEF LeaseInv, LeaseTypes, HolderIsRecorded, HoldersUp
<1>2. Lives(record[f])
  BY <1>1 DEF LeaseInv, UpIsFresh, Lives
<1> QED
  BY <1>1, <1>2 DEF Refuses, Taken

\* A grant leaves every holder recorded: nobody else held what is granted, and
\* what k lets go of loses its file only with its last holder.
LEMMA GrantKeeps ==
  ASSUME LeaseInv, NEW k \in Handle, NEW f \in File,
         up[HostOf[k]] = "up", ~Refuses(HostOf[k], f), Grant(k, f),
         up' = up, session' \in [Handle -> File \cup {None}], op' \subseteq Handle
  PROVE  LeaseInv'
<1> DEFINE h == HostOf[k]
<1>1. h \in Host
  BY HostAssumption
<1>2. file' = [j \in Handle |-> IF j = k THEN f ELSE file[j]]
  BY NobodyLoses DEF Grant
<1>3. \A g \in File : record'[g] = IF g = f /\ (file[k] # f \/ record[f] = None) THEN Written(h)
                                  ELSE IF g # f /\ Emptied(k, g) THEN None ELSE record[g]
  BY DEF Grant
<1>4. LeaseTypes'
  <2>1. record' \in [File -> Records \cup {None}]
    <3>1. \A g \in File : record'[g] \in Records \cup {None}
      BY <1>1, <1>3, WrittenIs DEF LeaseInv, LeaseTypes
    <3>2. record' = [g \in File |-> IF g = f /\ (file[k] # f \/ record[f] = None) THEN Written(h)
                                    ELSE IF g # f /\ Emptied(k, g) THEN None ELSE record[g]]
      BY DEF Grant
    <3> QED
      BY <3>1, <3>2
  <2>2. file' \in [Handle -> File \cup {None}]
    BY <1>2 DEF LeaseInv, LeaseTypes
  <2> QED
    BY <2>1, <2>2 DEF LeaseInv, LeaseTypes
<1>5. record'[f] # None /\ record'[f].host = h
  <2>1. CASE file[k] # f \/ record[f] = None
    BY <1>1, <1>3, <2>1, WrittenIs
  <2>2. CASE file[k] = f /\ record[f] # None
    BY <1>3, <2>2, NoneAssumption DEF LeaseInv, HolderIsRecorded
  <2> QED
    BY <2>1, <2>2
<1>6. HolderIsRecorded'
  <2> SUFFICES ASSUME NEW j \in Handle, file'[j] # None
               PROVE  record'[file'[j]] # None /\ record'[file'[j]].host = HostOf[j]
    BY DEF HolderIsRecorded
  <2>1. CASE j = k
    BY <1>2, <1>5, <2>1
  <2>2. CASE j # k /\ file[j] = f
    BY <1>1, <1>2, <1>5, <2>2, HeldHere
  <2>3. CASE j # k /\ file[j] # f
    <3>1. file'[j] = file[j] /\ file[j] \in File
      BY <1>2, <2>3 DEF LeaseInv, LeaseTypes
    <3>2. record[file[j]] # None /\ record[file[j]].host = HostOf[j]
      BY <3>1, NoneAssumption DEF LeaseInv, HolderIsRecorded
    <3>3. ~Emptied(k, file[j])
      BY <2>3, <3>1, <3>2 DEF Emptied, HoldersOn, Of
    <3> QED
      BY <1>3, <2>3, <3>1, <3>2, <3>3
  <2> QED
    BY <2>1, <2>2, <2>3
<1>7. HoldersUp'
  BY <1>2 DEF LeaseInv, HoldersUp
<1>8. UpIsFresh'
  <2> SUFFICES ASSUME NEW g \in File, record'[g] # None, up[record'[g].host] = "up"
               PROVE  record'[g].fresh
    BY DEF UpIsFresh
  <2>1. CASE g = f /\ (file[k] # f \/ record[f] = None)
    BY <1>1, <1>3, <2>1, WrittenIs
  <2>2. CASE ~(g = f /\ (file[k] # f \/ record[f] = None))
    BY <1>3, <2>2 DEF LeaseInv, UpIsFresh
  <2> QED
    BY <2>1, <2>2
<1> QED
  BY <1>4, <1>6, <1>7, <1>8 DEF LeaseInv

\* A refusal changes nothing of who holds what.
LEMMA RefusedKeeps ==
  ASSUME LeaseInv, NEW k \in Handle, NEW f \in File, Refused(k, f),
         up' = up, session' \in [Handle -> File \cup {None}], op' \subseteq Handle
  PROVE  LeaseInv'
<1>1. file' = file /\ record' = record
  BY NobodyLoses DEF Refused, LeaseInv, LeaseTypes
<1> QED
  BY <1>1 DEF LeaseInv, LeaseTypes, HolderIsRecorded, HoldersUp, UpIsFresh

\* Letting go leaves the file to whoever of the host still holds it.
LEMMA LetGoKeeps ==
  ASSUME LeaseInv, NEW k \in Handle, LetGo(k),
         up' = up, session' \in [Handle -> File \cup {None}], op' \subseteq Handle
  PROVE  LeaseInv'
<1>1. /\ file' = [file EXCEPT ![k] = None]
      /\ \A f \in File : record'[f] = IF Emptied(k, f) THEN None ELSE record[f]
  BY DEF LetGo
<1>2. LeaseTypes'
  BY DEF LetGo, LeaseInv, LeaseTypes
<1>3. HolderIsRecorded'
  <2> SUFFICES ASSUME NEW j \in Handle, file'[j] # None
               PROVE  record'[file'[j]] # None /\ record'[file'[j]].host = HostOf[j]
    BY DEF HolderIsRecorded
  <2>1. j # k /\ file'[j] = file[j] /\ file[j] \in File
    BY <1>1 DEF LeaseInv, LeaseTypes
  <2>2. record[file[j]] # None /\ record[file[j]].host = HostOf[j]
    BY <2>1, NoneAssumption DEF LeaseInv, HolderIsRecorded
  <2>3. ~Emptied(k, file[j])
    BY <2>1, <2>2 DEF Emptied, HoldersOn, Of
  <2> QED
    BY <1>1, <2>1, <2>2, <2>3
<1>4. HoldersUp' /\ UpIsFresh'
  BY <1>1 DEF LeaseInv, LeaseTypes, HoldersUp, UpIsFresh
<1> QED
  BY <1>2, <1>3, <1>4 DEF LeaseInv

\* A look at the lease before a save or a start, granted or refused.
LEMMA LookKeeps ==
  ASSUME LeaseInv, NEW k \in Handle, session[k] \in File, up[HostOf[k]] = "up",
         \/ Holds(k, session[k]) /\ Grant(k, session[k])
         \/ ~Holds(k, session[k]) /\ Refused(k, session[k]),
         up' = up, session' \in [Handle -> File \cup {None}], op' \subseteq Handle
  PROVE  LeaseInv'
<1>1. CASE Holds(k, session[k]) /\ Grant(k, session[k])
  <2>1. ~Refuses(HostOf[k], session[k])
    BY <1>1 DEF Holds, Refuses
  <2> QED
    BY <1>1, <2>1, GrantKeeps
<1>2. CASE ~Holds(k, session[k]) /\ Refused(k, session[k])
  BY <1>2, RefusedKeeps
<1> QED
  BY <1>1, <1>2

\* A load whose save the disk refuses leaves the lease as it was, or free.
LEMMA LoadFailsKeeps ==
  ASSUME IInv, NEW k \in Handle, NEW f \in File, LoadFails(k, f)
  PROVE  IInv'
<1> DEFINE h == HostOf[k]
<1> USE DEF IInv
<1>1. h \in Host /\ up[h] = "up" /\ ~Refuses(h, f) /\ up' = up /\ session' = session /\ op' = op
  BY HostAssumption DEF LoadFails
<1>2. Loses(k, f) = {}
  BY NobodyLoses
<1>3. file' = file
  BY <1>2 DEF LoadFails, LeaseInv, LeaseTypes
<1>4. record' = [record EXCEPT ![f] = IF HoldersOn(h, f) = {} THEN None ELSE Written(h)]
  BY <1>2 DEF LoadFails
<1>5. LeaseTypes'
  BY <1>1, <1>3, <1>4, WrittenIs DEF LeaseInv, LeaseTypes
<1>6. HolderIsRecorded'
  <2> SUFFICES ASSUME NEW j \in Handle, file[j] # None
               PROVE  record'[file[j]] # None /\ record'[file[j]].host = HostOf[j]
    BY <1>3 DEF HolderIsRecorded
  <2>1. CASE file[j] = f
    <3>1. HostOf[j] = h
      BY <1>1, <2>1, HeldHere
    <3>2. j \in HoldersOn(h, f)
      BY <2>1, <3>1 DEF HoldersOn, Of
    <3>3. record'[f] = Written(h)
      BY <1>4, <3>2 DEF LeaseInv, LeaseTypes
    <3> QED
      BY <1>1, <2>1, <3>1, <3>3, WrittenIs
  <2>2. CASE file[j] # f
    BY <1>4, <2>2 DEF LeaseInv, LeaseTypes, HolderIsRecorded
  <2> QED
    BY <2>1, <2>2
<1>7. HoldersUp'
  BY <1>1, <1>3 DEF LeaseInv, HoldersUp
<1>8. UpIsFresh'
  BY <1>1, <1>4, WrittenIs DEF LeaseInv, LeaseTypes, UpIsFresh
<1> QED
  BY <1>1, <1>5, <1>6, <1>7, <1>8 DEF LeaseInv, OpsOpen

\* A beat writes again what its host holds, which names it already.
LEMMA BeatKeeps ==
  ASSUME IInv, NEW h \in Host, Beat(h)
  PROVE  IInv'
<1> USE DEF IInv
<1>1. up' = up /\ session' = session /\ op' = op
  BY DEF Beat
<1>2. \A k \in Of(h) : file[k] # None => ~Taken(h, file[k])
  BY NoneAssumption DEF LeaseInv, HolderIsRecorded, Taken, Of
<1>3. file' = file
  <2>1. {k \in Of(h) : file[k] # None /\ Taken(h, file[k])} = {}
    BY <1>2
  <2> QED
    BY <2>1 DEF Beat, LeaseInv, LeaseTypes
<1>4. \A f \in File : record'[f] = IF HoldersOn(h, f) # {} /\ ~Taken(h, f) THEN Written(h) ELSE record[f]
  BY DEF Beat
<1>5. record' \in [File -> Records \cup {None}]
  <2>1. \A f \in File : (IF HoldersOn(h, f) # {} /\ ~Taken(h, f) THEN Written(h) ELSE record[f]) \in Records \cup {None}
    BY WrittenIs DEF LeaseInv, LeaseTypes
  <2>2. record' = [f \in File |-> IF HoldersOn(h, f) # {} /\ ~Taken(h, f) THEN Written(h) ELSE record[f]]
    BY DEF Beat
  <2> QED
    BY <2>1, <2>2
<1>6. HolderIsRecorded'
  <2> SUFFICES ASSUME NEW j \in Handle, file[j] # None
               PROVE  record'[file[j]] # None /\ record'[file[j]].host = HostOf[j]
    BY <1>3 DEF HolderIsRecorded
  <2>1. file[j] \in File /\ record[file[j]] # None /\ record[file[j]].host = HostOf[j]
    BY DEF LeaseInv, LeaseTypes, HolderIsRecorded
  <2>2. CASE HoldersOn(h, file[j]) # {} /\ ~Taken(h, file[j])
    <3>1. HostOf[j] = h
      BY <2>1, <2>2 DEF Taken
    <3> QED
      BY <1>4, <2>1, <2>2, <3>1, WrittenIs
  <2>3. CASE ~(HoldersOn(h, file[j]) # {} /\ ~Taken(h, file[j]))
    BY <1>4, <2>1, <2>3
  <2> QED
    BY <2>2, <2>3
<1>7. HoldersUp'
  BY <1>1, <1>3 DEF LeaseInv, HoldersUp
<1>8. UpIsFresh'
  BY <1>1, <1>4, WrittenIs DEF LeaseInv, UpIsFresh
<1> QED
  BY <1>1, <1>3, <1>5, <1>6, <1>7, <1>8 DEF LeaseInv, LeaseTypes, OpsOpen

\* What a killed host leaves is a record nobody is up behind.
LEMMA DieKeeps ==
  ASSUME IInv, NEW h \in Host, NEW how \in {"dead", "reused"}, Die(h, how)
  PROVE  IInv'
<1> USE DEF IInv
<1>1. /\ up' = [up EXCEPT ![h] = how] /\ record' = record
      /\ file' = [k \in Handle |-> IF k \in Of(h) THEN None ELSE file[k]]
      /\ session' = [k \in Handle |-> IF k \in Of(h) THEN None ELSE session[k]]
      /\ op' = op \ Of(h)
  BY DEF Die
<1>2. LeaseTypes'
  BY <1>1 DEF LeaseInv, LeaseTypes
<1>3. HolderIsRecorded'
  BY <1>1 DEF LeaseInv, LeaseTypes, HolderIsRecorded
<1>4. HoldersUp'
  BY <1>1, HostAssumption DEF LeaseInv, LeaseTypes, HoldersUp, Of
<1>5. UpIsFresh'
  BY <1>1 DEF LeaseInv, LeaseTypes, UpIsFresh, Records
<1>6. OpsOpen'
  BY <1>1 DEF LeaseInv, LeaseTypes, OpsOpen
<1> QED
  BY <1>2, <1>3, <1>4, <1>5, <1>6 DEF LeaseInv

\* Closing lets the lease go.
LEMMA GoneKeeps ==
  ASSUME IInv, NEW k \in Handle, Gone(k), up' = up
  PROVE  IInv'
<1>1. session' \in [Handle -> File \cup {None}] /\ op' \subseteq Handle
  BY DEF Gone, IInv, LeaseInv, LeaseTypes
<1>2. LeaseInv'
  BY <1>1, LetGoKeeps DEF IInv, Gone
<1>3. OpsOpen'
  BY DEF Gone, IInv, LeaseInv, LeaseTypes, OpsOpen
<1> QED
  BY <1>2, <1>3 DEF IInv

\* Every step of a Session keeps the invariant.
LEMMA SessionStepKeeps ==
  ASSUME IInv, NEW k \in Handle, SessionStep(k)
  PROVE  IInv'
<1> USE DEF IInv
<1>1. ASSUME NEW f \in File, Read(k, f) PROVE IInv'
  BY <1>1 DEF Read, leases, LeaseInv, LeaseTypes, HolderIsRecorded, HoldersUp, UpIsFresh, OpsOpen
<1>2. ASSUME NEW f \in File, Load(k, f) PROVE IInv'
  <2>1. session' = [session EXCEPT ![k] = f] /\ op' = op /\ up' = up
    BY <1>2 DEF Load
  <2>2. session' \in [Handle -> File \cup {None}] /\ op' \subseteq Handle
    BY <2>1 DEF LeaseInv, LeaseTypes
  <2>3. LeaseInv'
    BY <1>2, <2>1, <2>2, GrantKeeps DEF Load
  <2> QED
    BY <2>1, <2>3, NoneAssumption DEF OpsOpen, LeaseInv, LeaseTypes
<1>3. ASSUME NEW f \in File, LoadRefused(k, f) PROVE IInv'
  <2>1. session' = session /\ op' = op /\ up' = up /\ Refused(k, f)
    BY <1>3 DEF LoadRefused
  <2>2. session' \in [Handle -> File \cup {None}] /\ op' \subseteq Handle
    BY <2>1 DEF LeaseInv, LeaseTypes
  <2>3. LeaseInv'
    BY <2>1, <2>2, RefusedKeeps
  <2> QED
    BY <2>1, <2>3 DEF OpsOpen
<1>4. ASSUME NEW f \in File, LoadFails(k, f) PROVE IInv'
  BY <1>4, LoadFailsKeeps
<1>5. ASSUME NEW f \in File, New(k, f) PROVE IInv'
  <2>1. session' = [session EXCEPT ![k] = f] /\ op' = op /\ up' = up /\ LetGo(k)
    BY <1>5 DEF New
  <2>2. session' \in [Handle -> File \cup {None}] /\ op' \subseteq Handle
    BY <2>1 DEF LeaseInv, LeaseTypes
  <2>3. LeaseInv'
    BY <2>1, <2>2, LetGoKeeps
  <2> QED
    BY <2>1, <2>3, NoneAssumption DEF OpsOpen, LeaseInv, LeaseTypes
<1>6. ASSUME Save(k) \/ EndOp(k) PROVE IInv'
  <2>1. session' = session /\ up' = up /\ op' \subseteq op
    BY <1>6 DEF Save, EndOp
  <2>2. session[k] \in File /\ up[HostOf[k]] = "up"
    BY <1>6 DEF Save, EndOp, Open, Free, OpsOpen, LeaseInv, LeaseTypes
  <2>3. session' \in [Handle -> File \cup {None}] /\ op' \subseteq Handle
    BY <2>1 DEF LeaseInv, LeaseTypes
  <2>4. LeaseInv'
    BY <1>6, <2>1, <2>2, <2>3, LookKeeps DEF Save, EndOp, Persist
  <2> QED
    BY <2>1, <2>4 DEF OpsOpen
<1>7. ASSUME BeginOp(k) \/ Prepare(k) PROVE IInv'
  <2>1. session' = session /\ up' = up /\ op' \subseteq op \cup {k} /\ session[k] # None
    BY <1>7 DEF BeginOp, Prepare, Open
  <2>2. session[k] \in File /\ up[HostOf[k]] = "up"
    BY <1>7, <2>1 DEF BeginOp, Prepare, Open, Free, LeaseInv, LeaseTypes
  <2>3. session' \in [Handle -> File \cup {None}] /\ op' \subseteq Handle
    BY <2>1 DEF LeaseInv, LeaseTypes
  <2>4. LeaseInv'
    BY <1>7, <2>1, <2>2, <2>3, LookKeeps DEF BeginOp, Prepare
  <2> QED
    BY <2>1, <2>4 DEF OpsOpen
<1>8. ASSUME Close(k) PROVE IInv'
  <2>1. up' = up
    BY <1>8 DEF Close
  <2>2. CASE Gone(k)
    BY <2>1, <2>2, GoneKeeps
  <2>3. CASE UNCHANGED <<session, op, older, leases>>
    BY <2>1, <2>3 DEF leases, LeaseInv, LeaseTypes, HolderIsRecorded, HoldersUp, UpIsFresh, OpsOpen
  <2> QED
    BY <1>8, <2>2, <2>3 DEF Close
<1>9. ASSUME Depart(k) PROVE IInv'
  BY <1>9, GoneKeeps DEF Depart
<1>10. ASSUME NEW g \in Group, Spawn(k, g) PROVE IInv'
  BY <1>10 DEF Spawn, leases, LeaseInv, LeaseTypes, HolderIsRecorded, HoldersUp, UpIsFresh, OpsOpen
<1>11. ASSUME FailOp(k) PROVE IInv'
  BY <1>11 DEF FailOp, leases, LeaseInv, LeaseTypes, HolderIsRecorded, HoldersUp, UpIsFresh, OpsOpen
<1> QED
  BY <1>1, <1>2, <1>3, <1>4, <1>5, <1>6, <1>7, <1>8, <1>9, <1>10, <1>11 DEF SessionStep

\* The invariant is inductive.
LEMMA StepKeeps == NoSleep /\ IInv /\ [Next]_vars => IInv'
<1> SUFFICES ASSUME NoSleep, IInv, [Next]_vars PROVE IInv'
  OBVIOUS
<1>1. ASSUME NEW k \in Handle, SessionStep(k) PROVE IInv'
  BY <1>1, SessionStepKeeps
<1>2. ASSUME NEW h \in Host, HostStep(h) PROVE IInv'
  <2>1. CASE Beat(h)
    BY <2>1, BeatKeeps
  <2>2. ASSUME NEW how \in {"dead", "reused"}, Die(h, how) PROVE IInv'
    BY <2>2, DieKeeps
  <2>3. ~Sleep(h) /\ ~Wake(h)
    BY DEF NoSleep, Sleep, Wake, IInv, LeaseInv, LeaseTypes
  <2> QED
    BY <1>2, <2>1, <2>2, <2>3 DEF HostStep
<1>3. ASSUME NEW g \in Group, GroupEnds(g) PROVE IInv'
  BY <1>3 DEF GroupEnds, leases, IInv, LeaseInv, LeaseTypes, HolderIsRecorded, HoldersUp, UpIsFresh, OpsOpen
<1>4. ASSUME NEW f \in File, Age(f) PROVE IInv'
  <2>1. /\ record[f] \in Records /\ record[f] # None /\ up[record[f].host] # "up"
        /\ up' = up /\ file' = file /\ session' = session /\ op' = op
    BY <1>4 DEF Age, IInv, LeaseInv, LeaseTypes
  <2> DEFINE r == [record[f] EXCEPT !.fresh = FALSE]
  <2>2. r \in Records /\ r.host = record[f].host
    BY <2>1 DEF Records
  <2>3. r # None
    BY <2>2, NoneAssumption
  <2>4. record' = [record EXCEPT ![f] = r]
    BY <1>4 DEF Age
  <2> HIDE DEF r
  <2> QED
    BY <2>1, <2>2, <2>3, <2>4 DEF IInv, LeaseInv, LeaseTypes, HolderIsRecorded, HoldersUp, UpIsFresh, OpsOpen
<1>5. CASE UNCHANGED vars
  BY <1>5 DEF vars, IInv, LeaseInv, LeaseTypes, HolderIsRecorded, HoldersUp, UpIsFresh, OpsOpen
<1> QED
  BY <1>1, <1>2, <1>3, <1>4, <1>5 DEF Next

\* The Sessions that hold a session's lease are those of the host its file
\* names, so never of two hosts, whatever the hosts, Sessions and sessions are,
\* as long as no host is suspended past the stale age.
THEOREM HolderRecorded == ASSUME NoSleep PROVE Spec => []HolderIsRecorded
<1>1. Init => IInv
  BY DEF Init, IInv, LeaseInv, LeaseTypes, HolderIsRecorded, HoldersUp, UpIsFresh, OpsOpen
<1>2. IInv /\ [Next]_vars => IInv'
  BY StepKeeps
<1>3. IInv => HolderIsRecorded
  BY DEF IInv, LeaseInv
<1> QED
  BY <1>1, <1>2, <1>3, PTL DEF Spec

-----------------------------------------------------------------------------
NoSwitch == "switch" \notin Acts

\* Without switches a Session opens but one session, and holds no other's lease.
BookTypes ==
    /\ record \in [File -> Records \cup {None}]
    /\ file \in [Handle -> File \cup {None}]
    /\ lost \in [Handle -> File \cup {None}]
    /\ session \in [Handle -> File \cup {None}]
    /\ reading \in [Handle -> File \cup {None}]
ReadsAnew == \A k \in Handle : reading[k] # None => session[k] = None
HoldsItsOwn == \A k \in Handle : file[k] # None => file[k] = session[k]

\* Whoever starts a runner, or has one at work, holds the lease of its session.
RunTypes ==
    /\ starting \subseteq Handle
    /\ by \in [Group -> Runnings \cup {None}]
    /\ named \in [File -> SUBSET Group]
StartersHold == \A k \in starting : session[k] # None /\ file[k] = session[k]
RunnersHold ==
    \A g \in Group : Alive(g) /\ up[HostOf[by[g].handle]] = "up"
        => session[by[g].handle] = by[g].file /\ file[by[g].handle] = by[g].file

\* A lease file names groups of its own host, and a runner its session's file
\* has named is named by it for as long as it lives.
NamedAreKnown == \A f \in File : \A g \in named[f] : by[g] # None
NamesItsOwn ==
    \A f \in File : record[f] # None =>
        \A g \in record[f].groups : by[g] # None /\ HostOf[by[g].handle] = record[f].host
NamedStay ==
    \A f \in File : \A g \in named[f] :
        Alive(g) /\ by[g].file = f => record[f] # None /\ g \in record[f].groups

Booked == BookTypes /\ ReadsAnew /\ HoldsItsOwn
Named == NamedAreKnown /\ NamesItsOwn /\ NamedStay
RunInv == RunTypes /\ StartersHold /\ RunnersHold /\ Named
RunIInv == Booked /\ RunInv

\* Whom a host may take a lease from has no runner the lease file has named.
LEMMA TakesOwnRunners ==
  ASSUME LeaseInv, Booked, RunInv, NEW h \in Host, up[h] = "up",
         NEW f \in File, ~Refuses(h, f),
         NEW g \in named[f] \cup GroupsOf(h), Alive(g), by[g].file = f
  PROVE  g \in GroupsOf(h) /\ HoldersOn(h, f) # {}
<1>1. g \in Group
  BY DEF RunInv, RunTypes, GroupsOf
<1>2. g \in GroupsOf(h)
  <2>1. CASE g \in named[f]
    <3>1. record[f] # None /\ g \in record[f].groups
      BY <2>1 DEF RunInv, Named, NamedStay
    <3>2. HostOf[by[g].handle] = record[f].host
      BY <3>1 DEF RunInv, Named, NamesItsOwn
    <3>3. record[f].host = h
      BY <3>1 DEF Refuses, Taken
    <3> QED
      BY <1>1, <3>2, <3>3 DEF GroupsOf
  <2> QED
    BY <2>1
<1>3. by[g].handle \in Handle /\ HostOf[by[g].handle] = h
  BY <1>1, <1>2 DEF GroupsOf, Alive, RunInv, RunTypes, Runnings
<1>4. file[by[g].handle] = f
  BY <1>1, <1>3 DEF RunInv, RunnersHold
<1> QED
  BY <1>2, <1>3, <1>4 DEF HoldersOn, Of

\* A host writes only the lease files it may take, each naming all its runners,
\* and removes only those it has no holder of: no named runner is forgotten.
LEMMA NamingKeeps ==
  ASSUME LeaseInv, Booked, RunInv, NEW h \in Host, up[h] = "up", by' = by,
         \A f \in File :
            \/ record'[f] = record[f] /\ named'[f] = named[f]
            \/ /\ ~Refuses(h, f)
               /\ named'[f] \subseteq named[f] \cup GroupsOf(h)
               /\ \/ record'[f] = Written(h)
                  \/ record'[f] = None /\ HoldersOn(h, f) = {}
  PROVE  Named'
<1>1. NamedAreKnown'
  BY DEF RunInv, Named, NamedAreKnown, GroupsOf, Alive
<1>2. NamesItsOwn'
  <2> SUFFICES ASSUME NEW f \in File, record'[f] # None, NEW g \in record'[f].groups
               PROVE  by[g] # None /\ HostOf[by[g].handle] = record'[f].host
    BY DEF NamesItsOwn
  <2>1. CASE record'[f] = record[f]
    BY <2>1 DEF RunInv, Named, NamesItsOwn
  <2>2. CASE record'[f] = Written(h)
    BY <2>2 DEF Written, GroupsOf, Alive
  <2> QED
    BY <2>1, <2>2
<1>3. NamedStay'
  <2> SUFFICES ASSUME NEW f \in File, NEW g \in named'[f], Alive(g), by[g].file = f
               PROVE  record'[f] # None /\ g \in record'[f].groups
    BY DEF NamedStay, Alive
  <2>1. CASE record'[f] = record[f] /\ named'[f] = named[f]
    BY <2>1 DEF RunInv, Named, NamedStay
  <2>2. CASE ~Refuses(h, f) /\ named'[f] \subseteq named[f] \cup GroupsOf(h)
             /\ (record'[f] = Written(h) \/ HoldersOn(h, f) = {})
    <3>1. g \in GroupsOf(h) /\ HoldersOn(h, f) # {}
      BY <2>2, TakesOwnRunners
    <3>2. record'[f] = Written(h)
      BY <2>2, <3>1
    <3> QED
      BY <3>1, <3>2, WrittenIs DEF Written
  <2> QED
    BY <2>1, <2>2
<1> QED
  BY <1>1, <1>2, <1>3 DEF Named

\* A grant touches no file but the one it is for, when k held no other.
LEMMA GrantIs ==
  ASSUME BookTypes, NEW k \in Handle, NEW f \in File, file[k] \in {None, f}, Grant(k, f)
  PROVE  /\ \A g \in File \ {f} : record'[g] = record[g]
         /\ record'[f] = IF file[k] # f \/ record[f] = None THEN Written(HostOf[k]) ELSE record[f]
         /\ record' \in [File -> Records \cup {None}]
         /\ file' \in [Handle -> File \cup {None}] /\ lost' \in [Handle -> File \cup {None}]
<1>1. \A g \in File : ~Emptied(k, g) \/ g = f
  BY NoneAssumption DEF Emptied, HoldersOn, Of
<1>2. record' = [g \in File |-> IF g = f /\ (file[k] # f \/ record[f] = None) THEN Written(HostOf[k])
                                ELSE IF g # f /\ Emptied(k, g) THEN None ELSE record[g]]
  BY DEF Grant
<1>3. HostOf[k] \in Host
  BY HostAssumption
<1>4. Written(HostOf[k]) \in Records
  BY <1>3, WrittenIs
<1>5. record' \in [File -> Records \cup {None}]
  BY <1>2, <1>4 DEF BookTypes
<1>6. file' \in [Handle -> File \cup {None}] /\ lost' \in [Handle -> File \cup {None}]
  BY DEF Grant, BookTypes
<1> QED
  BY <1>1, <1>2, <1>5, <1>6

\* So it is a write of that file, which names every runner of the host.
LEMMA GrantNames ==
  ASSUME LeaseInv, Booked, RunInv, NEW k \in Handle, NEW f \in File, file[k] \in {None, f},
         up[HostOf[k]] = "up", ~Refuses(HostOf[k], f), Grant(k, f), by' = by
  PROVE  Named' /\ named' \in [File -> SUBSET Group]
<1> DEFINE h == HostOf[k]
<1>1. h \in Host
  BY HostAssumption
<1>2. named' = IF file[k] # f \/ record[f] = None THEN [named EXCEPT ![f] = @ \cup GroupsOf(h)] ELSE named
  BY DEF Grant
<1>3. /\ \A g \in File \ {f} : record'[g] = record[g]
      /\ record'[f] = IF file[k] # f \/ record[f] = None THEN Written(h) ELSE record[f]
  BY GrantIs DEF Booked
<1>4. named \in [File -> SUBSET Group] /\ GroupsOf(h) \subseteq Group
  BY DEF RunInv, RunTypes, GroupsOf
<1>5. \A g \in File :
        \/ record'[g] = record[g] /\ named'[g] = named[g]
        \/ /\ ~Refuses(h, g)
           /\ named'[g] \subseteq named[g] \cup GroupsOf(h)
           /\ \/ record'[g] = Written(h)
              \/ record'[g] = None /\ HoldersOn(h, g) = {}
  BY <1>2, <1>3, <1>4
<1> HIDE DEF h
<1>6. Named'
  BY <1>1, <1>5, NamingKeeps DEF h
<1> QED
  BY <1>2, <1>4, <1>6

\* A Session's look at its lease, to save or to start, keeps it all.
LEMMA LookRuns ==
  ASSUME LeaseInv, Booked, RunInv, NEW k \in Handle, NEW f \in File, session[k] = f,
         up[HostOf[k]] = "up", up' = up, by' = by, session' = session, reading' = reading,
         \/ Holds(k, f) /\ Grant(k, f) /\ starting' \subseteq starting \cup {k}
         \/ Refused(k, f) /\ starting' \subseteq starting
  PROVE  RunIInv'
<1>0. Loses(k, f) = {} /\ file[k] \in {None, f}
  BY NobodyLoses DEF Booked, HoldsItsOwn
<1>1. CASE Refused(k, f) /\ starting' \subseteq starting
  <2>1. file' = file /\ lost' = lost /\ record' = record /\ named' = named
    BY <1>0, <1>1 DEF Refused, Booked, BookTypes
  <2> QED
    BY <1>1, <2>1 DEF RunIInv, Booked, BookTypes, ReadsAnew, HoldsItsOwn, RunInv, RunTypes, StartersHold,
                      RunnersHold, Named, NamedAreKnown, NamesItsOwn, NamedStay, Alive
<1>2. CASE Holds(k, f) /\ Grant(k, f) /\ starting' \subseteq starting \cup {k}
  <2>1. ~Refuses(HostOf[k], f)
    BY <1>2 DEF Holds, Refuses
  <2>2. file' = [j \in Handle |-> IF j = k THEN f ELSE file[j]]
    BY <1>0, <1>2 DEF Grant
  <2>3. Named' /\ named' \in [File -> SUBSET Group]
    BY <1>0, <1>2, <2>1, GrantNames
  <2>4. Booked'
    BY <1>0, <1>2, <2>2, GrantIs DEF Booked, BookTypes, ReadsAnew, HoldsItsOwn
  <2>5. StartersHold' /\ starting' \subseteq Handle
    BY <1>2, <2>2, NoneAssumption DEF RunInv, RunTypes, StartersHold
  <2>6. RunnersHold'
    BY <2>2 DEF RunInv, RunTypes, Runnings, RunnersHold, Alive
  <2> QED
    BY <2>3, <2>4, <2>5, <2>6 DEF RunIInv, RunInv, RunTypes
<1> QED
  BY <1>1, <1>2

\* One that opens a session had none, and runs nothing.
LEMMA LoadRuns ==
  ASSUME LeaseInv, Booked, RunInv, NEW k \in Handle, NEW f \in File, Load(k, f)
  PROVE  RunIInv'
<1>1. /\ up[HostOf[k]] = "up" /\ reading[k] = f /\ ~Refuses(HostOf[k], f) /\ Grant(k, f)
      /\ session' = [session EXCEPT ![k] = f] /\ reading' = [reading EXCEPT ![k] = None]
      /\ up' = up /\ by' = by /\ starting' \subseteq starting \ {k}
  BY DEF Load
<1>2. session[k] = None /\ file[k] = None
  BY <1>1, NoneAssumption DEF Booked, ReadsAnew, HoldsItsOwn
<1>3. file' = [j \in Handle |-> IF j = k THEN f ELSE file[j]]
  BY <1>1, NobodyLoses DEF Grant
<1>4. Named' /\ named' \in [File -> SUBSET Group]
  BY <1>1, <1>2, GrantNames
<1>5. Booked'
  BY <1>1, <1>2, <1>3, GrantIs DEF Booked, BookTypes, ReadsAnew, HoldsItsOwn
<1>6. StartersHold' /\ starting' \subseteq Handle
  BY <1>1, <1>3 DEF RunInv, RunTypes, StartersHold, Booked, BookTypes
<1>7. RunnersHold'
  <2> SUFFICES ASSUME NEW g \in Group, Alive(g), up[HostOf[by[g].handle]] = "up"
               PROVE  session'[by[g].handle] = by[g].file /\ file'[by[g].handle] = by[g].file
    BY <1>1 DEF RunnersHold, Alive
  <2>1. by[g].handle \in Handle /\ by[g].file \in File
    BY DEF RunInv, RunTypes, Runnings, Alive
  <2>2. session[by[g].handle] = by[g].file /\ file[by[g].handle] = by[g].file
    BY DEF RunInv, RunnersHold
  <2>3. by[g].handle # k
    BY <1>2, <2>1, <2>2, NoneAssumption
  <2> QED
    BY <1>1, <1>3, <2>1, <2>2, <2>3 DEF Booked, BookTypes
<1> QED
  BY <1>1, <1>4, <1>5, <1>6, <1>7 DEF RunIInv, RunInv, RunTypes

\* A load the disk refuses leaves the lease as it was, or to nobody.
LEMMA LoadFailsRuns ==
  ASSUME LeaseInv, Booked, RunInv, NEW k \in Handle, NEW f \in File, LoadFails(k, f)
  PROVE  RunIInv'
<1> DEFINE h == HostOf[k]
<1>0. Loses(k, f) = {} /\ h \in Host /\ Written(h) \in Records
  BY NobodyLoses, HostAssumption, WrittenIs
<1>1. /\ up[h] = "up" /\ ~Refuses(h, f) /\ up' = up /\ by' = by /\ session' = session
      /\ reading' = [reading EXCEPT ![k] = None]
      /\ record' = [record EXCEPT ![f] = IF HoldersOn(h, f) = {} THEN None ELSE Written(h)]
      /\ named' = [named EXCEPT ![f] = @ \cup GroupsOf(h)]
      /\ starting' = starting
  BY <1>0 DEF LoadFails
<1>2. file' = file /\ lost' = lost
  BY <1>0 DEF LoadFails, Booked, BookTypes
<1>3. named \in [File -> SUBSET Group] /\ GroupsOf(h) \subseteq Group
  BY DEF RunInv, RunTypes, GroupsOf
<1>4. \A g \in File :
        \/ record'[g] = record[g] /\ named'[g] = named[g]
        \/ /\ ~Refuses(h, g)
           /\ named'[g] \subseteq named[g] \cup GroupsOf(h)
           /\ \/ record'[g] = Written(h)
              \/ record'[g] = None /\ HoldersOn(h, g) = {}
  BY <1>1, <1>3 DEF Booked, BookTypes
<1> HIDE DEF h
<1>5. Named'
  BY <1>0, <1>1, <1>4, NamingKeeps
<1>6. Booked'
  BY <1>0, <1>1, <1>2 DEF Booked, BookTypes, ReadsAnew, HoldsItsOwn
<1>7. RunTypes' /\ StartersHold' /\ RunnersHold'
  BY <1>1, <1>2, <1>3 DEF RunInv, RunTypes, StartersHold, RunnersHold, Alive
<1> QED
  BY <1>5, <1>6, <1>7 DEF RunIInv, RunInv

\* A heartbeat names every runner of its host in every lease it holds.
LEMMA BeatRuns ==
  ASSUME LeaseInv, Booked, RunInv, NEW h \in Host, Beat(h)
  PROVE  RunIInv'
<1> DEFINE held(f) == HoldersOn(h, f) # {} /\ ~Taken(h, f)
<1>0. \A f \in File : HoldersOn(h, f) # {} => ~Refuses(h, f)
  BY NoneAssumption DEF LeaseInv, HolderIsRecorded, HoldersOn, Of, Refuses, Taken
<1>1. {k \in Of(h) : file[k] # None /\ Taken(h, file[k])} = {}
  BY DEF LeaseInv, HolderIsRecorded, Taken, Of
<1>2. /\ up[h] = "up" /\ up' = up /\ by' = by /\ session' = session /\ reading' = reading
      /\ starting' = starting
      /\ record' = [f \in File |-> IF held(f) THEN Written(h) ELSE record[f]]
      /\ named' = [f \in File |-> IF held(f) THEN named[f] \cup GroupsOf(h) ELSE named[f]]
  BY <1>1 DEF Beat, Free
<1>3. file' = file /\ lost' = lost
  BY <1>1 DEF Beat, Booked, BookTypes
<1>4. \A f \in File :
        \/ record'[f] = record[f] /\ named'[f] = named[f]
        \/ /\ ~Refuses(h, f)
           /\ named'[f] \subseteq named[f] \cup GroupsOf(h)
           /\ \/ record'[f] = Written(h)
              \/ record'[f] = None /\ HoldersOn(h, f) = {}
  BY <1>0, <1>2
<1>5. Named'
  BY <1>2, <1>4, NamingKeeps
<1>6. record' \in [File -> Records \cup {None}] /\ named' \in [File -> SUBSET Group]
  <2>1. Written(h) \in Records
    BY WrittenIs
  <2>2. named \in [File -> SUBSET Group] /\ GroupsOf(h) \subseteq Group
    BY DEF RunInv, RunTypes, GroupsOf
  <2> HIDE DEF held
  <2> QED
    BY <1>2, <2>1, <2>2 DEF Booked, BookTypes
<1>7. Booked'
  BY <1>2, <1>3, <1>6 DEF Booked, BookTypes, ReadsAnew, HoldsItsOwn
<1>8. RunTypes' /\ StartersHold' /\ RunnersHold'
  BY <1>2, <1>3, <1>6 DEF RunInv, RunTypes, StartersHold, RunnersHold, Alive
<1> QED
  BY <1>5, <1>7, <1>8 DEF RunIInv, RunInv

\* A host that dies leaves its lease files as they are.
LEMMA DieRuns ==
  ASSUME LeaseInv, Booked, RunInv, NEW h \in Host, NEW how \in {"dead", "reused"}, Die(h, how)
  PROVE  RunIInv'
<1>1. /\ up' = [up EXCEPT ![h] = how] /\ record' = record /\ by' = by /\ named' = named
      /\ file' = [k \in Handle |-> IF HostOf[k] = h THEN None ELSE file[k]]
      /\ lost' = [k \in Handle |-> IF HostOf[k] = h THEN None ELSE lost[k]]
      /\ session' = [k \in Handle |-> IF HostOf[k] = h THEN None ELSE session[k]]
      /\ reading' = [k \in Handle |-> IF HostOf[k] = h THEN None ELSE reading[k]]
      /\ starting' = starting \ Of(h)
  BY DEF Die, Of
<1>2. Booked'
  BY <1>1 DEF Booked, BookTypes, ReadsAnew, HoldsItsOwn
<1>3. RunTypes' /\ StartersHold'
  BY <1>1 DEF RunInv, RunTypes, StartersHold, Of
<1>4. RunnersHold'
  BY <1>1 DEF RunInv, RunTypes, Runnings, RunnersHold, Alive, LeaseInv, LeaseTypes
<1>5. Named'
  BY <1>1 DEF RunInv, Named, NamedAreKnown, NamesItsOwn, NamedStay, Alive
<1> QED
  BY <1>2, <1>3, <1>4, <1>5 DEF RunIInv, RunInv

\* A Session goes with its runners gone: its lease file, if it goes, names none.
LEMMA GoneRuns ==
  ASSUME LeaseInv, Booked, RunInv, NEW k \in Handle, up[HostOf[k]] = "up", Runners(k) = {},
         Gone(k), up' = up, by' = by, reading' = reading
  PROVE  RunIInv'
<1>1. /\ file' = [file EXCEPT ![k] = None] /\ lost' = [lost EXCEPT ![k] = None] /\ named' = named
      /\ record' = [f \in File |-> IF Emptied(k, f) THEN None ELSE record[f]]
      /\ session' = [session EXCEPT ![k] = None] /\ starting' = starting \ {k}
  BY DEF Gone, LetGo
<1>2. Booked'
  BY <1>1 DEF Booked, BookTypes, ReadsAnew, HoldsItsOwn
<1>3. RunTypes' /\ StartersHold'
  BY <1>1 DEF RunInv, RunTypes, StartersHold, Booked, BookTypes
<1>4. RunnersHold'
  <2> SUFFICES ASSUME NEW g \in Group, Alive(g), up[HostOf[by[g].handle]] = "up"
               PROVE  session'[by[g].handle] = by[g].file /\ file'[by[g].handle] = by[g].file
    BY DEF RunnersHold, Alive
  <2>1. by[g].handle \in Handle \ {k}
    BY DEF RunInv, RunTypes, Runnings, Alive, Runners
  <2> QED
    BY <1>1, <2>1 DEF RunInv, RunnersHold, Booked, BookTypes
<1>5. NamedAreKnown' /\ NamesItsOwn'
  BY <1>1 DEF RunInv, Named, NamedAreKnown, NamesItsOwn
<1>6. NamedStay'
  <2> SUFFICES ASSUME NEW f \in File, NEW g \in named[f], Alive(g), by[g].file = f
               PROVE  record'[f] # None /\ g \in record'[f].groups
    BY <1>1 DEF NamedStay, Alive
  <2>1. record[f] # None /\ g \in record[f].groups
    BY DEF RunInv, Named, NamedStay
  <2>2. ~Emptied(k, f)
    <3> SUFFICES ASSUME Emptied(k, f) PROVE FALSE
      OBVIOUS
    <3>1. g \in Group /\ by[g].handle \in Handle
      BY DEF RunInv, RunTypes, Runnings, Alive
    <3>2. HostOf[by[g].handle] = HostOf[k]
      BY <2>1 DEF Emptied, RunInv, Named, NamesItsOwn
    <3>3. file[by[g].handle] = f
      BY <3>1, <3>2 DEF RunInv, RunnersHold
    <3>4. by[g].handle = k
      BY <3>1, <3>2, <3>3 DEF Emptied, HoldersOn, Of
    <3> QED
      BY <3>1, <3>4 DEF Runners
  <2> QED
    BY <1>1, <2>1, <2>2
<1> QED
  BY <1>2, <1>3, <1>4, <1>5, <1>6 DEF RunIInv, RunInv, Named

\* What a Session does keeps it all, unless it switches.
LEMMA SessionStepRuns ==
  ASSUME NoSwitch, IInv, RunIInv, NEW k \in Handle, SessionStep(k)
  PROVE  RunIInv'
<1> USE DEF RunIInv
<1>0. LeaseInv /\ Booked /\ RunInv
  BY DEF IInv
<1>1. ASSUME NEW f \in File, Read(k, f) PROVE RunIInv'
  <2>1. session[k] = None /\ reading' = [reading EXCEPT ![k] = f]
        /\ UNCHANGED <<up, leases, session, starting, by>>
    BY <1>1 DEF Read, NoSwitch
  <2> QED
    BY <1>0, <2>1 DEF leases, Booked, BookTypes, ReadsAnew, HoldsItsOwn, RunInv, RunTypes, StartersHold,
                      RunnersHold, Named, NamedAreKnown, NamesItsOwn, NamedStay, Alive
<1>2. ASSUME NEW f \in File, Load(k, f) PROVE RunIInv'
  BY <1>0, <1>2, LoadRuns
<1>3. ASSUME NEW f \in File, LoadRefused(k, f) PROVE RunIInv'
  <2>1. Loses(k, f) = {}
    BY <1>0, NobodyLoses
  <2>2. Refused(k, f) /\ UNCHANGED <<up, session, by>>
        /\ reading' = [reading EXCEPT ![k] = None] /\ starting' = starting
    BY <1>3, <2>1 DEF LoadRefused
  <2>3. file' = file /\ lost' = lost /\ record' = record /\ named' = named
    BY <1>0, <2>1, <2>2 DEF Refused, Booked, BookTypes
  <2> QED
    BY <1>0, <2>2, <2>3 DEF Booked, BookTypes, ReadsAnew, HoldsItsOwn, RunInv, RunTypes, StartersHold,
                            RunnersHold, Named, NamedAreKnown, NamesItsOwn, NamedStay, Alive
<1>4. ASSUME NEW f \in File, LoadFails(k, f) PROVE RunIInv'
  BY <1>0, <1>4, LoadFailsRuns
<1>5. ASSUME NEW f \in File, New(k, f) PROVE RunIInv'
  <2>1. /\ session[k] = None /\ file[k] = None
        /\ session' = [session EXCEPT ![k] = f] /\ starting' = starting \ {k}
        /\ LetGo(k) /\ UNCHANGED <<up, reading, by>> /\ reading[k] = None
    BY <1>0, <1>5, HostAssumption DEF New, NoSwitch, Free, Of, Booked, HoldsItsOwn
  <2>2. \A g \in File : ~Emptied(k, g)
    BY <2>1, NoneAssumption DEF Emptied, HoldersOn, Of
  <2>3. file' = file /\ record' = record /\ named' = named /\ lost' \in [Handle -> File \cup {None}]
    BY <1>0, <2>1, <2>2 DEF LetGo, Booked, BookTypes
  <2>4. Booked'
    BY <1>0, <2>1, <2>3 DEF Booked, BookTypes, ReadsAnew, HoldsItsOwn
  <2>5. RunTypes' /\ StartersHold'
    BY <1>0, <2>1, <2>3 DEF RunInv, RunTypes, StartersHold, Booked, BookTypes
  <2>6. RunnersHold'
    <3> SUFFICES ASSUME NEW g \in Group, Alive(g), up[HostOf[by[g].handle]] = "up"
                 PROVE  session'[by[g].handle] = by[g].file /\ file[by[g].handle] = by[g].file
      BY <2>1, <2>3 DEF RunnersHold, Alive
    <3>1. by[g].handle \in Handle /\ by[g].file \in File
      BY <1>0 DEF RunInv, RunTypes, Runnings, Alive
    <3>2. session[by[g].handle] = by[g].file /\ file[by[g].handle] = by[g].file
      BY <1>0 DEF RunInv, RunnersHold
    <3> QED
      BY <1>0, <2>1, <3>1, <3>2, NoneAssumption DEF Booked, BookTypes
  <2>7. Named'
    BY <1>0, <2>1, <2>3 DEF RunInv, Named, NamedAreKnown, NamesItsOwn, NamedStay, Alive
  <2> QED
    BY <2>4, <2>5, <2>6, <2>7 DEF RunInv
<1>6. ASSUME Save(k) \/ EndOp(k) PROVE RunIInv'
  <2>1. session[k] \in File /\ up[HostOf[k]] = "up" /\ Persist(k) /\ UNCHANGED <<up, session, reading, by>>
    BY <1>6 DEF Save, EndOp, Open, Free, IInv, OpsOpen, LeaseInv, LeaseTypes
  <2>2. starting' = starting
    BY <1>0, <2>1, NobodyLoses DEF Persist
  <2> QED
    BY <1>0, <2>1, <2>2, LookRuns DEF Persist
<1>7. ASSUME BeginOp(k) \/ Prepare(k) PROVE RunIInv'
  <2>1. session[k] \in File /\ up[HostOf[k]] = "up" /\ UNCHANGED <<up, session, reading, by>>
    BY <1>7 DEF BeginOp, Prepare, Open, Free, IInv, LeaseInv, LeaseTypes
  <2>2. \/ Holds(k, session[k]) /\ Grant(k, session[k]) /\ starting' \subseteq starting \cup {k}
        \/ Refused(k, session[k]) /\ starting' \subseteq starting
    BY <1>7 DEF BeginOp, Prepare
  <2> QED
    BY <1>0, <2>1, <2>2, LookRuns
<1>8. ASSUME Close(k) \/ Depart(k) PROVE RunIInv'
  <2>1. up[HostOf[k]] = "up" /\ UNCHANGED <<up, reading, by>>
    BY <1>8 DEF Close, Depart, Open, Free
  <2>2. CASE Runners(k) = {} /\ Gone(k)
    BY <1>0, <2>1, <2>2, GoneRuns
  <2>3. CASE starting' = starting \ {k} /\ UNCHANGED <<session, leases>>
    BY <1>0, <2>1, <2>3 DEF leases, Booked, BookTypes, ReadsAnew, HoldsItsOwn, RunInv, RunTypes, StartersHold,
                            RunnersHold, Named, NamedAreKnown, NamesItsOwn, NamedStay, Alive
  <2> QED
    BY <1>8, <2>2, <2>3 DEF Close, Depart
<1>9. ASSUME NEW g \in Group, Spawn(k, g) PROVE RunIInv'
  <2> DEFINE r == [handle |-> k, file |-> session[k], alive |-> TRUE]
  <2>1. /\ k \in starting /\ by[g] = None /\ starting' = starting \ {k} /\ by' = [by EXCEPT ![g] = r]
        /\ UNCHANGED <<up, leases, session, reading>>
    BY <1>9 DEF Spawn
  <2>2. session[k] \in File /\ file[k] = session[k]
    BY <1>0, <2>1 DEF RunInv, StartersHold, Booked, BookTypes
  <2>3. r \in Runnings
        /\ r.handle = k /\ r.file = session[k]
    BY <2>2 DEF Runnings
  <2> HIDE DEF r
  <2>4. /\ by'[g] = r /\ \A j \in Group \ {g} : by'[j] = by[j]
        /\ by' \in [Group -> Runnings \cup {None}]
    BY <1>0, <2>1, <2>3 DEF RunInv, RunTypes
  <2>5. Booked' /\ RunTypes' /\ StartersHold'
    BY <1>0, <2>1, <2>4 DEF leases, Booked, BookTypes, ReadsAnew, HoldsItsOwn, RunInv, RunTypes, StartersHold
  <2>6. RunnersHold'
    BY <1>0, <2>1, <2>2, <2>3, <2>4 DEF leases, RunInv, RunnersHold, Alive
  <2>7. Named'
    <3>1. \A f \in File : \A j \in named[f] : j \in Group \ {g}
      BY <1>0, <2>1 DEF RunInv, RunTypes, Named, NamedAreKnown
    <3>2. \A f \in File : record[f] # None => \A j \in record[f].groups : j \in Group \ {g}
      BY <1>0, <2>1 DEF RunInv, Named, NamesItsOwn, Booked, BookTypes, Records
    <3> QED
      BY <1>0, <2>1, <2>4, <3>1, <3>2 DEF leases, RunInv, Named, NamedAreKnown, NamesItsOwn, NamedStay, Alive
  <2> QED
    BY <2>5, <2>6, <2>7 DEF RunInv
<1>10. ASSUME FailOp(k) PROVE RunIInv'
  BY <1>0, <1>10 DEF FailOp, leases, Booked, BookTypes, ReadsAnew, HoldsItsOwn, RunInv, RunTypes, StartersHold,
                     RunnersHold, Named, NamedAreKnown, NamesItsOwn, NamedStay, Alive
<1> QED
  BY <1>1, <1>2, <1>3, <1>4, <1>5, <1>6, <1>7, <1>8, <1>9, <1>10 DEF SessionStep

\* The invariant of the runners is inductive, beside that of the leases.
LEMMA StepRuns == NoSleep /\ NoSwitch /\ IInv /\ RunIInv /\ [Next]_vars => RunIInv'
<1> SUFFICES ASSUME NoSleep, NoSwitch, IInv, RunIInv, [Next]_vars PROVE RunIInv'
  OBVIOUS
<1> USE DEF RunIInv
<1>0. LeaseInv /\ Booked /\ RunInv
  BY DEF IInv
<1>1. ASSUME NEW k \in Handle, SessionStep(k) PROVE RunIInv'
  BY <1>1, SessionStepRuns
<1>2. ASSUME NEW h \in Host, HostStep(h) PROVE RunIInv'
  <2>1. CASE Beat(h)
    BY <1>0, <2>1, BeatRuns
  <2>2. ASSUME NEW how \in {"dead", "reused"}, Die(h, how) PROVE RunIInv'
    BY <1>0, <2>2, DieRuns
  <2>3. ~Sleep(h) /\ ~Wake(h)
    BY <1>0 DEF NoSleep, Sleep, Wake, LeaseInv, LeaseTypes
  <2> QED
    BY <1>2, <2>1, <2>2, <2>3 DEF HostStep
<1>3. ASSUME NEW g \in Group, GroupEnds(g) PROVE RunIInv'
  <2> DEFINE r == [by[g] EXCEPT !.alive = FALSE]
  <2>1. /\ by[g] # None /\ by' = [by EXCEPT ![g] = r]
        /\ UNCHANGED <<up, leases, session, reading, starting>>
    BY <1>3 DEF GroupEnds, Alive
  <2>2. r \in Runnings /\ ~r.alive /\ r.handle = by[g].handle
    BY <1>0, <2>1 DEF RunInv, RunTypes, Runnings
  <2> HIDE DEF r
  <2>3. r # None
    BY <2>2, NoneAssumption
  <2>4. /\ by'[g] = r /\ \A j \in Group \ {g} : by'[j] = by[j]
        /\ by' \in [Group -> Runnings \cup {None}]
    BY <1>0, <2>1, <2>2 DEF RunInv, RunTypes
  <2>5. Booked' /\ RunTypes' /\ StartersHold' /\ RunnersHold'
    BY <1>0, <2>1, <2>2, <2>4 DEF leases, Booked, BookTypes, ReadsAnew, HoldsItsOwn, RunInv, RunTypes,
                                  StartersHold, RunnersHold, Alive
  <2>7. Named'
    BY <1>0, <2>1, <2>2, <2>3, <2>4 DEF leases, RunInv, RunTypes, Named, NamedAreKnown, NamesItsOwn, NamedStay, Alive
  <2> QED
    BY <2>5, <2>7 DEF RunInv
<1>4. ASSUME NEW f \in File, Age(f) PROVE RunIInv'
  <2> DEFINE r == [record[f] EXCEPT !.fresh = FALSE]
  <2>1. record[f] \in Records /\ record[f] # None /\ record' = [record EXCEPT ![f] = r]
        /\ UNCHANGED <<up, file, lost, named, session, reading, starting, by>>
    BY <1>0, <1>4 DEF Age, Booked, BookTypes
  <2>2. r \in Records /\ r.host = record[f].host /\ r.groups = record[f].groups
    BY <2>1 DEF Records
  <2> HIDE DEF r
  <2>3. r # None
    BY <2>2, NoneAssumption
  <2> QED
    BY <1>0, <2>1, <2>2, <2>3 DEF Booked, BookTypes, ReadsAnew, HoldsItsOwn, RunInv, RunTypes, StartersHold,
                                  RunnersHold, Named, NamedAreKnown, NamesItsOwn, NamedStay, Alive
<1>5. CASE UNCHANGED vars
  BY <1>0, <1>5 DEF vars, Booked, BookTypes, ReadsAnew, HoldsItsOwn, RunInv, RunTypes, StartersHold,
                    RunnersHold, Named, NamedAreKnown, NamesItsOwn, NamedStay, Alive
<1> QED
  BY <1>1, <1>2, <1>3, <1>4, <1>5 DEF Next

\* Runners of two hosts work on one session at once only if its lease file never
\* came to name those of the first, for any hosts, Sessions, sessions and
\* groups, while no host is suspended and no Session switches.
THEOREM RunnersOfOneHost == ASSUME NoSleep, NoSwitch PROVE Spec => []OneHostRuns
<1> DEFINE Inv == IInv /\ RunIInv
<1>1. Init => Inv
  BY DEF Init, IInv, LeaseInv, LeaseTypes, HolderIsRecorded, HoldersUp, UpIsFresh, OpsOpen, RunIInv, Booked,
         BookTypes, ReadsAnew, HoldsItsOwn, RunInv, RunTypes, StartersHold, RunnersHold, Named, NamedAreKnown,
         NamesItsOwn, NamedStay, Alive
<1>2. Inv /\ [Next]_vars => Inv'
  BY StepKeeps, StepRuns
<1>3. Inv => OneHostRuns
  <2> SUFFICES ASSUME RunInv, NEW g \in Group, NEW j \in Group, Alive(g), Alive(j),
                      by[g].file = by[j].file, g \in named[by[g].file], j \in named[by[j].file]
               PROVE  HostOf[by[g].handle] = HostOf[by[j].handle]
    BY DEF OneHostRuns, RunIInv
  <2>1. by[g].file \in File
    BY DEF RunInv, RunTypes, Runnings, Alive
  <2> QED
    BY <2>1 DEF RunInv, Named, NamesItsOwn, NamedStay
<1> HIDE DEF Inv
<1> QED
  BY <1>1, <1>2, <1>3, PTL DEF Spec

-----------------------------------------------------------------------------
StaysOpen == {"close", "switch", "disk"} \cap Acts = {}

LostTypes == closing = {} /\ op \subseteq Handle /\ saved \subseteq File /\ older \subseteq Handle

\* The Sessions of one host have different sessions open, and the one it opens
\* none of them has.
OneReads == \A j, k \in Handle : HostOf[j] = HostOf[k] /\ reading[j] # None /\ reading[k] # None => j = k
ReadsSaved == \A k \in Handle : reading[k] # None => reading[k] \in saved
OneHere ==
    \A j, k \in Handle : HostOf[j] = HostOf[k] =>
        /\ session[j] # None /\ session[j] = session[k] => j = k
        /\ reading[j] # None => session[k] # reading[j]

\* A session not claimed yet is its Session's alone, on no disk.
ClaimedOrNew ==
    \A k \in Handle : session[k] # None =>
        \/ file[k] = session[k] \/ lost[k] = session[k]
        \/ session[k] \notin saved /\ \A j \in Handle \ {k} : session[j] # session[k]

\* A plan that is out of date is that of a Session that lost its lease, or is
\* to be told so.
OlderLost ==
    \A k \in older : session[k] # None /\ \/ lost[k] = session[k]
                                          \/ file[k] = session[k] /\ Taken(HostOf[k], session[k])

LostInv == LostTypes /\ OneReads /\ ReadsSaved /\ OneHere /\ ClaimedOrNew /\ OlderLost /\ OpsOpen
LostIInv == Booked /\ LostInv

\* An older plan, once older, is older while its session is open.
StaysOlder == \A k \in older : session'[k] = session[k] => k \in older'

\* Nobody else of its host holds what a Session has open, or opens.
LEMMA LosesItself ==
  ASSUME LostIInv, NEW k \in Handle, NEW f \in File, session[k] = f \/ reading[k] = f
  PROVE  \A j \in Loses(k, f) : j = k /\ file[k] = f /\ session[k] = f /\ Taken(HostOf[k], f)
<1> SUFFICES ASSUME NEW j \in Loses(k, f)
             PROVE  j = k /\ file[k] = f /\ session[k] = f /\ Taken(HostOf[k], f)
  OBVIOUS
<1>1. j \in Handle /\ HostOf[j] = HostOf[k] /\ file[j] = f /\ Taken(HostOf[k], f)
  BY DEF Loses, HoldersOn, Of
<1>2. session[j] = f
  BY <1>1, NoneAssumption DEF LostIInv, Booked, HoldsItsOwn
<1> QED
  BY <1>1, <1>2, NoneAssumption DEF LostIInv, LostInv, OneHere

\* What another host took is taken still when a third takes it.
LEMMA TakenStays ==
  ASSUME LostIInv, NEW k \in Handle, NEW f \in File, file[k] \in {None, f}, Grant(k, f),
         NEW j \in Handle, NEW g \in File, Taken(HostOf[j], g), g = f => HostOf[j] # HostOf[k]
  PROVE  Taken(HostOf[j], g)'
<1>1. HostOf[k] \in Host
  BY HostAssumption
<1>2. /\ \A i \in File \ {f} : record'[i] = record[i]
      /\ record'[f] = IF file[k] # f \/ record[f] = None THEN Written(HostOf[k]) ELSE record[f]
  BY GrantIs DEF LostIInv, Booked
<1> QED
  BY <1>1, <1>2, WrittenIs DEF Taken

\* A Session that may not take the lease, or has lost it, hears so.
LEMMA RefusedLost ==
  ASSUME LostIInv, NEW k \in Handle, NEW f \in File, session[k] = f \/ reading[k] = f, Refused(k, f),
         session' = session, \A j \in Handle : reading'[j] \in {None, reading[j]},
         reading' \in [Handle -> File \cup {None}],
         closing' = closing, saved' = saved, older' = older, op' \subseteq op
  PROVE  LostIInv' /\ StaysOlder
<1>1. \A j \in Loses(k, f) : j = k /\ file[k] = f /\ session[k] = f /\ Taken(HostOf[k], f)
  BY LosesItself
<1>2. /\ file' = [j \in Handle |-> IF j \in Loses(k, f) THEN None ELSE file[j]]
      /\ lost' = [j \in Handle |-> IF j \in Loses(k, f) THEN f ELSE lost[j]]
      /\ record' = record
  BY DEF Refused
<1>3. Booked'
  BY <1>2 DEF LostIInv, Booked, BookTypes, ReadsAnew, HoldsItsOwn
<1>4. LostTypes' /\ OneReads' /\ ReadsSaved' /\ OneHere' /\ OpsOpen'
  BY DEF LostIInv, LostInv, LostTypes, OneReads, ReadsSaved, OneHere, OpsOpen
<1>5. ClaimedOrNew'
  BY <1>1, <1>2 DEF LostIInv, LostInv, ClaimedOrNew
<1>6. OlderLost'
  BY <1>1, <1>2 DEF LostIInv, LostInv, LostTypes, OlderLost, Taken
<1> QED
  BY <1>3, <1>4, <1>5, <1>6 DEF LostIInv, LostInv, StaysOlder

\* A Session that may hold the lease of its session has a plan that is not
\* older, and saves it over everyone else's.
LEMMA HoldsLost ==
  ASSUME LostIInv, NEW k \in Handle, NEW f \in File, session[k] = f, Holds(k, f), Grant(k, f),
         session' = session, reading' = reading, closing' = closing, op' \subseteq op \cup {k},
         Write(k, f) \/ UNCHANGED disk
  PROVE  LostIInv' /\ StaysOlder
<1>0. file[k] \in {None, f} /\ session[k] # None
  BY NoneAssumption DEF LostIInv, Booked, HoldsItsOwn
<1>1. Loses(k, f) = {}
  BY LosesItself DEF Holds
<1>2. /\ file' = [j \in Handle |-> IF j = k THEN f ELSE file[j]]
      /\ lost' = [j \in Handle |-> IF j = k THEN None ELSE lost[j]]
  BY <1>1 DEF Grant
<1>3. k \notin older
  BY DEF LostIInv, LostInv, OlderLost, Holds
<1>4. /\ saved \subseteq saved' /\ saved' \subseteq saved \cup {f}
      /\ older \subseteq older' /\ k \notin older'
      /\ \A j \in older' \ older : j \in Handle \ {k} /\ session[j] = f /\ f \in saved'
  BY <1>3 DEF Write, disk, LostIInv, LostInv, LostTypes
<1>5. record' \in [File -> Records \cup {None}] /\ record'[f] # None
      /\ (record'[f].host = HostOf[k])
  <2>0. BookTypes
    BY DEF LostIInv, Booked
  <2>1. HostOf[k] \in Host
    BY HostAssumption
  <2>2. /\ record'[f] = IF file[k] # f \/ record[f] = None THEN Written(HostOf[k]) ELSE record[f]
        /\ record' \in [File -> Records \cup {None}]
    BY <1>0, <2>0, GrantIs
  <2>3. CASE file[k] # f \/ record[f] = None
    BY <2>1, <2>2, <2>3, WrittenIs
  <2>4. CASE file[k] = f /\ record[f] # None
    BY <2>2, <2>4 DEF Holds, Taken
  <2> QED
    BY <2>2, <2>3, <2>4
<1>6. Booked'
  BY <1>0, <1>2, <1>5 DEF LostIInv, Booked, BookTypes, ReadsAnew, HoldsItsOwn
<1>7. LostTypes' /\ OneReads' /\ ReadsSaved' /\ OneHere' /\ OpsOpen'
  <2>1. LostTypes'
    BY <1>4 DEF LostIInv, LostInv, LostTypes
  <2>2. OneReads' /\ ReadsSaved' /\ OneHere'
    BY <1>4 DEF LostIInv, LostInv, OneReads, ReadsSaved, OneHere
  <2>3. OpsOpen'
    BY <1>0 DEF LostIInv, LostInv, OpsOpen
  <2> QED
    BY <2>1, <2>2, <2>3
<1>8. ClaimedOrNew'
  <2> SUFFICES ASSUME NEW j \in Handle, session[j] # None
               PROVE  \/ file'[j] = session[j] \/ lost'[j] = session[j]
                      \/ session[j] \notin saved' /\ \A i \in Handle \ {j} : session[i] # session[j]
    BY DEF ClaimedOrNew
  <2>1. CASE j = k
    BY <1>2, <2>1
  <2>2. CASE j # k
    BY <1>2, <1>4, <2>2 DEF LostIInv, LostInv, ClaimedOrNew
  <2> QED
    BY <2>1, <2>2
<1>9. OlderLost'
  <2> SUFFICES ASSUME NEW j \in older'
               PROVE  /\ session[j] # None
                      /\ \/ lost'[j] = session[j]
                         \/ file'[j] = session[j] /\ Taken(HostOf[j], session[j])'
    BY DEF OlderLost, Taken
  <2>0. j \in Handle /\ j # k
    BY <1>4 DEF LostIInv, LostInv, LostTypes
  <2>1. CASE j \in older
    <3>1. session[j] # None /\ (lost[j] = session[j] \/ (file[j] = session[j] /\ Taken(HostOf[j], session[j])))
      BY <2>1 DEF LostIInv, LostInv, OlderLost
    <3>2. session[j] \in File
      BY <2>0, <3>1 DEF LostIInv, Booked, BookTypes
    <3>3. session[j] = f => HostOf[j] # HostOf[k]
      BY <1>0, <2>0, <3>1 DEF LostIInv, LostInv, OneHere
    <3>4. Taken(HostOf[j], session[j]) => Taken(HostOf[j], session[j])'
      BY <1>0, <2>0, <3>2, <3>3, TakenStays DEF Taken
    <3> QED
      BY <1>2, <2>0, <3>1, <3>4
  <2>2. CASE j \notin older
    <3>1. session[j] = f /\ session[j] # None
      BY <1>0, <1>4, <2>2
    <3>2. HostOf[j] # HostOf[k]
      BY <1>0, <2>0, <3>1 DEF LostIInv, LostInv, OneHere
    <3>3. file[j] = f \/ lost[j] = f
      BY <2>0, <3>1 DEF LostIInv, LostInv, ClaimedOrNew
    <3> QED
      BY <1>2, <1>5, <2>0, <3>1, <3>2, <3>3 DEF Taken
  <2> QED
    BY <2>1, <2>2
<1> QED
  BY <1>4, <1>6, <1>7, <1>8, <1>9 DEF LostIInv, LostInv, StaysOlder

\* Whoever opens a session has it as it is on disk, and it alone of its host.
LEMMA LoadLost ==
  ASSUME LostIInv, NEW k \in Handle, NEW f \in File, Load(k, f)
  PROVE  LostIInv' /\ StaysOlder
<1>1. /\ reading[k] = f /\ Grant(k, f) /\ reading' = [reading EXCEPT ![k] = None]
      /\ session' = [session EXCEPT ![k] = f] /\ older' = older \ {k}
      /\ UNCHANGED <<closing, op, saved>>
  BY DEF Load
<1>2. session[k] = None /\ file[k] = None
  BY <1>1, NoneAssumption DEF LostIInv, Booked, ReadsAnew, HoldsItsOwn
<1>3. Loses(k, f) = {}
  BY <1>1, <1>2, LosesItself, NoneAssumption
<1>4. /\ file' = [j \in Handle |-> IF j = k THEN f ELSE file[j]]
      /\ lost' = [j \in Handle |-> IF j = k THEN None ELSE lost[j]]
  BY <1>1, <1>3 DEF Grant
<1>5. BookTypes
  BY DEF LostIInv, Booked
<1>6. record' \in [File -> Records \cup {None}]
  BY <1>1, <1>2, <1>5, GrantIs
<1>7. Booked'
  BY <1>1, <1>4, <1>6 DEF LostIInv, Booked, BookTypes, ReadsAnew, HoldsItsOwn
<1>8. LostTypes' /\ OneReads' /\ ReadsSaved' /\ OpsOpen'
  <2>1. LostTypes' /\ ReadsSaved'
    BY <1>1, <1>5 DEF LostIInv, LostInv, LostTypes, ReadsSaved, BookTypes
  <2>2. OneReads'
    BY <1>1, <1>5 DEF LostIInv, LostInv, OneReads, BookTypes
  <2>3. OpsOpen'
    BY <1>1, <1>2, <1>5 DEF LostIInv, LostInv, OpsOpen, BookTypes
  <2> QED
    BY <2>1, <2>2, <2>3
<1>9. OneHere'
  <2>1. \A j \in Handle \ {k} : HostOf[j] = HostOf[k] => session[j] # f /\ reading[j] = None
    BY <1>1, NoneAssumption DEF LostIInv, LostInv, OneHere, OneReads
  <2> QED
    BY <1>1, <1>5, <2>1 DEF LostIInv, LostInv, OneHere, BookTypes
<1>10. ClaimedOrNew'
  <2>1. f \in saved
    BY <1>1, NoneAssumption DEF LostIInv, LostInv, ReadsSaved
  <2> SUFFICES ASSUME NEW j \in Handle, session'[j] # None
               PROVE  \/ file'[j] = session'[j] \/ lost'[j] = session'[j]
                      \/ session'[j] \notin saved /\ \A i \in Handle \ {j} : session'[i] # session'[j]
    BY <1>1 DEF ClaimedOrNew
  <2>2. CASE j = k
    BY <1>1, <1>4, <1>5, <2>2 DEF BookTypes
  <2>3. CASE j # k
    BY <1>1, <1>4, <1>5, <2>1, <2>3 DEF LostIInv, LostInv, ClaimedOrNew, BookTypes
  <2> QED
    BY <2>2, <2>3
<1>11. OlderLost'
  <2> SUFFICES ASSUME NEW j \in older \ {k}
               PROVE  /\ session[j] # None
                      /\ \/ lost[j] = session[j]
                         \/ file[j] = session[j] /\ Taken(HostOf[j], session[j])'
    BY <1>1, <1>4, <1>5 DEF OlderLost, Taken, BookTypes, LostIInv, LostInv, LostTypes
  <2>1. j \in Handle /\ session[j] # None
        /\ (lost[j] = session[j] \/ (file[j] = session[j] /\ Taken(HostOf[j], session[j])))
    BY DEF LostIInv, LostInv, LostTypes, OlderLost
  <2>2. session[j] \in File
    BY <1>5, <2>1 DEF BookTypes
  <2>3. session[j] = f => HostOf[j] # HostOf[k]
    BY <1>1, NoneAssumption DEF LostIInv, LostInv, LostTypes, OneHere
  <2>4. Taken(HostOf[j], session[j]) => Taken(HostOf[j], session[j])'
    BY <1>1, <1>2, <2>1, <2>2, <2>3, TakenStays DEF Taken
  <2> QED
    BY <2>1, <2>4
<1>12. StaysOlder
  BY <1>1, <1>2, <1>5, NoneAssumption DEF StaysOlder, BookTypes
<1> QED
  BY <1>7, <1>8, <1>9, <1>10, <1>11, <1>12 DEF LostIInv, LostInv

\* A new session is nobody else's.
LEMMA NewLost ==
  ASSUME StaysOpen, LostIInv, NEW k \in Handle, NEW f \in File, New(k, f)
  PROVE  LostIInv' /\ StaysOlder
<1>1. /\ session[k] = None /\ f \notin saved /\ \A j \in Handle : session[j] # f
      /\ \A j \in Handle : HostOf[j] = HostOf[k] => reading[j] = None
      /\ session' = [session EXCEPT ![k] = f] /\ older' = older \ {k} /\ LetGo(k)
      /\ UNCHANGED <<reading, closing, op, saved>>
  BY DEF New, StaysOpen, Free, Of
<1>2. BookTypes /\ file[k] = None
  BY <1>1 DEF LostIInv, Booked, HoldsItsOwn
<1>3. \A g \in File : ~Emptied(k, g)
  BY <1>2, NoneAssumption DEF Emptied, HoldersOn, Of
<1>4. file' = file /\ record' = record /\ lost' = [lost EXCEPT ![k] = None]
  BY <1>1, <1>2, <1>3 DEF LetGo, BookTypes
<1>5. Booked'
  BY <1>1, <1>2, <1>4 DEF LostIInv, Booked, BookTypes, ReadsAnew, HoldsItsOwn
<1>6. LostTypes' /\ OneReads' /\ ReadsSaved' /\ OpsOpen' /\ OneHere'
  <2>1. LostTypes' /\ OneReads' /\ ReadsSaved'
    BY <1>1 DEF LostIInv, LostInv, LostTypes, OneReads, ReadsSaved
  <2>2. OpsOpen'
    BY <1>1, <1>2 DEF LostIInv, LostInv, OpsOpen, BookTypes
  <2>3. OneHere'
    BY <1>1, <1>2 DEF LostIInv, LostInv, OneHere, BookTypes
  <2> QED
    BY <2>1, <2>2, <2>3
<1>7. ClaimedOrNew'
  <2> SUFFICES ASSUME NEW j \in Handle, session'[j] # None
               PROVE  \/ file[j] = session'[j] \/ lost'[j] = session'[j]
                      \/ session'[j] \notin saved /\ \A i \in Handle \ {j} : session'[i] # session'[j]
    BY <1>1, <1>4 DEF ClaimedOrNew
  <2>1. CASE j = k
    BY <1>1, <1>2, <2>1 DEF BookTypes
  <2>2. CASE j # k
    BY <1>1, <1>2, <1>4, <2>2 DEF LostIInv, LostInv, ClaimedOrNew, BookTypes
  <2> QED
    BY <2>1, <2>2
<1>8. OlderLost'
  BY <1>1, <1>2, <1>4 DEF LostIInv, LostInv, LostTypes, OlderLost, Taken, BookTypes
<1>9. StaysOlder
  BY <1>1, <1>2, NoneAssumption DEF StaysOlder, BookTypes
<1> QED
  BY <1>5, <1>6, <1>7, <1>8, <1>9 DEF LostIInv, LostInv

\* A heartbeat tells whoever lost a lease.
LEMMA BeatLost ==
  ASSUME LostIInv, NEW h \in Host, Beat(h)
  PROVE  LostIInv' /\ StaysOlder
<1> DEFINE gone == {k \in Of(h) : file[k] # None /\ Taken(h, file[k])}
           held(f) == HoldersOn(h, f) # {} /\ ~Taken(h, f)
<1>1. /\ record' = [f \in File |-> IF held(f) THEN Written(h) ELSE record[f]]
      /\ file' = [k \in Handle |-> IF k \in gone THEN None ELSE file[k]]
      /\ lost' = [k \in Handle |-> IF k \in gone THEN file[k] ELSE lost[k]]
      /\ UNCHANGED <<session, reading, closing, op, saved, older>>
  BY DEF Beat, disk
<1>2. BookTypes /\ \A k \in gone : file[k] = session[k] /\ file[k] \in File
  BY DEF LostIInv, Booked, BookTypes, HoldsItsOwn, Of
<1>3. Written(h) \in Records /\ Written(h) # None /\ Written(h).host = h
  BY WrittenIs
<1>4. Booked'
  <2>1. record' \in [File -> Records \cup {None}]
    <3> HIDE DEF held
    <3> QED
      BY <1>1, <1>2, <1>3 DEF BookTypes
  <2>2. file' \in [Handle -> File \cup {None}] /\ lost' \in [Handle -> File \cup {None}]
    <3>1. \A k \in gone : file[k] \in File
      BY <1>2
    <3> HIDE DEF gone
    <3> QED
      BY <1>1, <1>2, <3>1 DEF BookTypes
  <2> HIDE DEF gone, held
  <2> QED
    BY <1>1, <1>2, <2>1, <2>2 DEF LostIInv, Booked, BookTypes, ReadsAnew, HoldsItsOwn
<1>5. LostTypes' /\ OneReads' /\ ReadsSaved' /\ OneHere' /\ OpsOpen'
  BY <1>1 DEF LostIInv, LostInv, LostTypes, OneReads, ReadsSaved, OneHere, OpsOpen
<1>6. ClaimedOrNew'
  <2> HIDE DEF gone, held
  <2> QED
    BY <1>1, <1>2 DEF LostIInv, LostInv, ClaimedOrNew
<1>7. OlderLost'
  <2> SUFFICES ASSUME NEW j \in older
               PROVE  /\ session[j] # None
                      /\ \/ lost'[j] = session[j]
                         \/ file'[j] = session[j] /\ Taken(HostOf[j], session[j])'
    BY <1>1 DEF OlderLost, Taken
  <2>1. j \in Handle /\ session[j] # None
        /\ (lost[j] = session[j] \/ (file[j] = session[j] /\ Taken(HostOf[j], session[j])))
    BY DEF LostIInv, LostInv, LostTypes, OlderLost
  <2>2. CASE j \in gone
    BY <1>1, <1>2, <2>1, <2>2
  <2>3. CASE j \notin gone /\ lost[j] = session[j]
    BY <1>1, <2>1, <2>3
  <2>4. CASE j \notin gone /\ file[j] = session[j] /\ Taken(HostOf[j], session[j])
    <3>1. HostOf[j] # h
      BY <2>1, <2>4 DEF Of
    <3>2. session[j] \in File
      BY <1>2, <2>1 DEF BookTypes
    <3>3. record'[session[j]] \in {Written(h), record[session[j]]}
      BY <1>1, <3>2
    <3>4. session' = session
      BY <1>1
    <3>5. Taken(HostOf[j], session[j])'
      BY <1>3, <2>4, <3>1, <3>3, <3>4 DEF Taken
    <3> QED
      BY <1>1, <2>1, <2>4, <3>5
  <2> QED
    BY <2>1, <2>2, <2>3, <2>4
<1>8. StaysOlder
  BY <1>1 DEF StaysOlder
<1> QED
  BY <1>4, <1>5, <1>6, <1>7, <1>8 DEF LostIInv, LostInv

\* A host that dies takes its Sessions with it.
LEMMA DieLost ==
  ASSUME LostIInv, NEW h \in Host, NEW how \in {"dead", "reused"}, Die(h, how)
  PROVE  LostIInv' /\ StaysOlder
<1>1. /\ record' = record /\ saved' = saved
      /\ file' = [k \in Handle |-> IF HostOf[k] = h THEN None ELSE file[k]]
      /\ lost' = [k \in Handle |-> IF HostOf[k] = h THEN None ELSE lost[k]]
      /\ session' = [k \in Handle |-> IF HostOf[k] = h THEN None ELSE session[k]]
      /\ reading' = [k \in Handle |-> IF HostOf[k] = h THEN None ELSE reading[k]]
      /\ closing' = closing \ Of(h) /\ op' = op \ Of(h) /\ older' = older \ Of(h)
  BY DEF Die, Of
<1>2. Booked'
  BY <1>1 DEF LostIInv, Booked, BookTypes, ReadsAnew, HoldsItsOwn
<1>3. LostTypes' /\ OneReads' /\ ReadsSaved' /\ OneHere' /\ OpsOpen'
  BY <1>1 DEF LostIInv, LostInv, LostTypes, OneReads, ReadsSaved, OneHere, OpsOpen, Of
<1>4. ClaimedOrNew'
  BY <1>1 DEF LostIInv, LostInv, ClaimedOrNew
<1>5. OlderLost'
  BY <1>1 DEF LostIInv, LostInv, LostTypes, OlderLost, Taken, Of
<1>6. StaysOlder
  BY <1>1 DEF LostIInv, LostInv, LostTypes, OlderLost, StaysOlder, Of
<1> QED
  BY <1>2, <1>3, <1>4, <1>5, <1>6 DEF LostIInv, LostInv

\* What a Session does keeps it all, unless it closes, switches or fails to load.
LEMMA SessionStepLost ==
  ASSUME StaysOpen, LostIInv, NEW k \in Handle, SessionStep(k)
  PROVE  LostIInv' /\ StaysOlder
<1>1. ASSUME NEW f \in File, Read(k, f) PROVE LostIInv' /\ StaysOlder
  <2>1. /\ session[k] = None /\ f \in saved
        /\ \A j \in Handle : HostOf[j] = HostOf[k] => session[j] # f /\ reading[j] = None
        /\ reading' = [reading EXCEPT ![k] = f]
        /\ UNCHANGED <<leases, session, closing, op, disk>>
    BY <1>1 DEF Read, StaysOpen, Free, Of, LostIInv, LostInv, LostTypes
  <2>2. Booked'
    BY <2>1 DEF leases, LostIInv, Booked, BookTypes, ReadsAnew, HoldsItsOwn
  <2>3. OneReads' /\ ReadsSaved' /\ OneHere'
    BY <2>1 DEF leases, disk, LostIInv, LostInv, Booked, BookTypes, OneReads, ReadsSaved, OneHere
  <2>4. LostTypes' /\ ClaimedOrNew' /\ OlderLost' /\ OpsOpen' /\ StaysOlder
    BY <2>1 DEF leases, disk, LostIInv, LostInv, LostTypes, ClaimedOrNew, OlderLost, OpsOpen, Taken, StaysOlder
  <2> QED
    BY <2>2, <2>3, <2>4 DEF LostIInv, LostInv
<1>2. ASSUME NEW f \in File, Load(k, f) PROVE LostIInv' /\ StaysOlder
  BY <1>2, LoadLost
<1>3. ASSUME NEW f \in File, LoadRefused(k, f) PROVE LostIInv' /\ StaysOlder
  <2>1. /\ reading[k] = f /\ Refused(k, f) /\ reading' = [reading EXCEPT ![k] = None]
        /\ UNCHANGED <<session, closing, op, saved, older>>
    BY <1>3 DEF LoadRefused
  <2>2. reading' \in [Handle -> File \cup {None}] /\ \A j \in Handle : reading'[j] \in {None, reading[j]}
    BY <2>1 DEF LostIInv, Booked, BookTypes
  <2> QED
    BY <2>1, <2>2, RefusedLost
<1>4. ASSUME NEW f \in File, LoadFails(k, f) PROVE FALSE
  BY <1>4 DEF LoadFails, StaysOpen
<1>5. ASSUME NEW f \in File, New(k, f) PROVE LostIInv' /\ StaysOlder
  BY <1>5, NewLost
<1>6. ASSUME Save(k) \/ EndOp(k) PROVE LostIInv' /\ StaysOlder
  <2>1. session[k] \in File /\ Persist(k) /\ op' \subseteq op /\ UNCHANGED <<session, reading, closing>>
    BY <1>6 DEF Save, EndOp, Open, LostIInv, LostInv, Booked, BookTypes, LostTypes, OpsOpen
  <2>2. reading' \in [Handle -> File \cup {None}]
    BY <2>1 DEF LostIInv, Booked, BookTypes
  <2>3. CASE Holds(k, session[k]) /\ Grant(k, session[k]) /\ Write(k, session[k])
    BY <2>1, <2>3, HoldsLost
  <2>4. CASE Refused(k, session[k]) /\ UNCHANGED disk
    BY <2>1, <2>2, <2>4, RefusedLost DEF disk
  <2> QED
    BY <2>1, <2>3, <2>4 DEF Persist
<1>7. ASSUME BeginOp(k) \/ Prepare(k) PROVE LostIInv' /\ StaysOlder
  <2>1. session[k] \in File /\ UNCHANGED <<session, reading, closing, disk>>
    BY <1>7 DEF BeginOp, Prepare, Open, LostIInv, Booked, BookTypes
  <2>2. reading' \in [Handle -> File \cup {None}]
    BY <2>1 DEF LostIInv, Booked, BookTypes
  <2>3. CASE Holds(k, session[k]) /\ Grant(k, session[k]) /\ op' \subseteq op \cup {k}
    BY <2>1, <2>3, HoldsLost
  <2>4. CASE Refused(k, session[k]) /\ op' \subseteq op
    BY <2>1, <2>2, <2>4, RefusedLost DEF disk
  <2> QED
    BY <1>7, <2>3, <2>4 DEF BeginOp, Prepare
<1>8. ~Close(k) /\ ~Depart(k)
  BY DEF Close, Depart, StaysOpen, LostIInv, LostInv, LostTypes
<1>9. ASSUME NEW g \in Group, Spawn(k, g) PROVE LostIInv' /\ StaysOlder
  BY <1>9 DEF Spawn, leases, disk, LostIInv, Booked, BookTypes, ReadsAnew, HoldsItsOwn, LostInv, LostTypes,
              OneReads, ReadsSaved, OneHere, ClaimedOrNew, OlderLost, OpsOpen, Taken, StaysOlder
<1>10. ASSUME FailOp(k) PROVE LostIInv' /\ StaysOlder
  BY <1>10 DEF FailOp, leases, disk, LostIInv, Booked, BookTypes, ReadsAnew, HoldsItsOwn, LostInv, LostTypes,
               OneReads, ReadsSaved, OneHere, ClaimedOrNew, OlderLost, OpsOpen, Taken, StaysOlder
<1> QED
  BY <1>1, <1>2, <1>3, <1>4, <1>5, <1>6, <1>7, <1>8, <1>9, <1>10 DEF SessionStep

\* Neither a step of a host nor of a runner changes that.
LEMMA StepLost == ASSUME StaysOpen, LostIInv, [Next]_vars PROVE LostIInv' /\ StaysOlder
<1>1. ASSUME NEW k \in Handle, SessionStep(k) PROVE LostIInv' /\ StaysOlder
  BY <1>1, SessionStepLost
<1>2. ASSUME NEW h \in Host, HostStep(h) PROVE LostIInv' /\ StaysOlder
  <2>1. CASE Beat(h)
    BY <2>1, BeatLost
  <2>2. ASSUME NEW how \in {"dead", "reused"}, Die(h, how) PROVE LostIInv' /\ StaysOlder
    BY <2>2, DieLost
  <2>3. CASE Sleep(h) \/ Wake(h)
    BY <2>3 DEF Sleep, Wake, leases, disk, LostIInv, Booked, BookTypes, ReadsAnew, HoldsItsOwn, LostInv, LostTypes,
                OneReads, ReadsSaved, OneHere, ClaimedOrNew, OlderLost, OpsOpen, Taken, StaysOlder
  <2> QED
    BY <1>2, <2>1, <2>2, <2>3 DEF HostStep
<1>3. ASSUME NEW g \in Group, GroupEnds(g) PROVE LostIInv' /\ StaysOlder
  BY <1>3 DEF GroupEnds, leases, disk, LostIInv, Booked, BookTypes, ReadsAnew, HoldsItsOwn, LostInv, LostTypes,
              OneReads, ReadsSaved, OneHere, ClaimedOrNew, OlderLost, OpsOpen, Taken, StaysOlder
<1>4. ASSUME NEW f \in File, Age(f) PROVE LostIInv' /\ StaysOlder
  <2> DEFINE r == [record[f] EXCEPT !.fresh = FALSE]
  <2>1. record[f] \in Records /\ record[f] # None /\ record' = [record EXCEPT ![f] = r]
        /\ UNCHANGED <<file, lost, session, reading, closing, op, disk>>
    BY <1>4 DEF Age, LostIInv, Booked, BookTypes
  <2>2. r \in Records /\ r.host = record[f].host
    BY <2>1 DEF Records
  <2> HIDE DEF r
  <2>3. r # None
    BY <2>2, NoneAssumption
  <2> QED
    BY <2>1, <2>2, <2>3 DEF disk, LostIInv, Booked, BookTypes, ReadsAnew, HoldsItsOwn, LostInv, LostTypes,
                            OneReads, ReadsSaved, OneHere, ClaimedOrNew, OlderLost, OpsOpen, Taken, StaysOlder
<1>5. CASE UNCHANGED vars
  BY <1>5 DEF vars, LostIInv, Booked, BookTypes, ReadsAnew, HoldsItsOwn, LostInv, LostTypes,
              OneReads, ReadsSaved, OneHere, ClaimedOrNew, OlderLost, OpsOpen, Taken, StaysOlder
<1> QED
  BY <1>1, <1>2, <1>3, <1>4, <1>5 DEF Next

\* A plan that lacks what another Session saved since is never saved again as it
\* is, for any hosts, Sessions and sessions, whatever hosts are suspended or
\* die, while no Session closes, switches or fails to load.
THEOREM OlderStaysOlder == ASSUME StaysOpen PROVE Spec => LostStaysLost
<1>1. Init => LostIInv
  BY DEF Init, LostIInv, Booked, BookTypes, ReadsAnew, HoldsItsOwn, LostInv, LostTypes,
         OneReads, ReadsSaved, OneHere, ClaimedOrNew, OlderLost, OpsOpen
<1>2. LostIInv /\ [Next]_vars => LostIInv'
  BY StepLost
<1>3. LostIInv /\ [Next]_vars => [StaysOlder]_vars
  BY StepLost
<1> QED
  BY <1>1, <1>2, <1>3, PTL DEF Spec, LostStaysLost, StaysOlder
=============================================================================
