---------------------------- MODULE WriterLeaseProofs --------------------------
(***************************************************************************)
(* Proofs about the maintenance protocol, for any number of commands, jobs *)
(* and maintainers and any number of failures.                             *)
(*                                                                         *)
(* The argument: unless something was over-age, who is in a section has    *)
(* its lock (HoldInv) or a lease that restore sees (LeaseInv).  A command  *)
(* looks at the maintenance lock after it has written its lease, a         *)
(* maintainer at the leases after it has taken that lock, so one of the    *)
(* two sees the other (AloneInv).                                          *)
(***************************************************************************)
EXTENDS WriterLease, TLAPS

Commands == Writers \cup EarlyWriters \cup Jobs
Leased == {"recheck", "rechecking", "openEarly", "work", "closeEarly", "unlease"}

LEMMA LadderFacts ==
  /\ Len(Ladder) = 4
  /\ Ladder[1] = "maintenance" /\ Ladder[2] = "schema"
  /\ Ladder[3] = "backup" /\ Ladder[4] = "consolidate"
  BY DEF Ladder

LEMMA ProbeFacts ==
  /\ DOMAIN ProbeOf = {"probe", "probeLease", "recheck"}
  /\ ProbeOf["probe"] = "probing" /\ ProbeOf["probeLease"] = "probingLease"
  /\ ProbeOf["recheck"] = "rechecking"
  BY DEF ProbeOf

\* Where each kind of process can be.
PlaceInv ==
  /\ \A p \in Maintainers :
       /\ pc[p] \in {"idle", "climb", "descend", "failed", "dead"} \/ Exclusive(p)
       /\ Exclusive(p) => rung[p] = 4
       /\ At(p, "idle") => rung[p] = 0
  /\ \A p \in Commands : pc[p] \notin {"climb", "descend"} /\ ~ Exclusive(p)
  /\ \A p \in Writers :
       pc[p] \notin {"enter", "openEarly", "closeEarly"}
  /\ \A p \in EarlyWriters :
       pc[p] \notin {"open", "prepare", "preparing", "enter", "close"}
  /\ \A p \in Jobs :
       pc[p] \notin (Leased \ {"work"}) \cup {"probeLease", "probingLease", "lease"}

\* Who is in a section holds its lock.
HoldInv ==
  ~ unguarded =>
    /\ \A p \in Maintainers :
         ~ Gone(p) =>
           /\ rung[p] >= 1 => lock["maintenance"] = p
           /\ rung[p] >= 2 => lock["schema"] = p
           /\ rung[p] >= 3 => lock["backup"] = p
           /\ rung[p] >= 4 => lock["consolidate"] = p
    /\ \A p \in Commands :
         /\ pc[p] \in {"probing", "probingLease", "rechecking"} => lock["maintenance"] = p
         /\ At(p, "preparing") => lock["schema"] = p
    /\ \A p \in Jobs : At(p, "work") => lock[JobLock[p]] = p

\* Who has written a lease has one that is not over-age.
LeaseInv ==
  ~ unguarded =>
    \A p \in Writers \cup EarlyWriters :
      pc[p] \in Leased => p \in leases \ oldLeases

\* Nobody else has one, but for those that could not remove it.
LeftInv == \A p \in leases : pc[p] \in Leased \cup {"close", "failed", "dead"}

\* A lock is that of a process at the place where it takes and releases it.
OwnInv ==
  /\ \A p \in Maintainers :
       /\ lock["maintenance"] = p => rung[p] >= 1
       /\ lock["schema"] = p => rung[p] >= 2
       /\ lock["backup"] = p => rung[p] >= 3
       /\ lock["consolidate"] = p => rung[p] >= 4
       /\ \A l \in Locks : lock[l] = p => ~ Gone(p)
  /\ \A p \in Commands, l \in Locks : lock[l] = p =>
       \/ l = "maintenance" /\ pc[p] \in {"probing", "probingLease", "rechecking"}
       \/ l = "schema" /\ At(p, "preparing")
       \/ p \in Jobs /\ l = JobLock[p] /\ At(p, "work")

\* A lock left behind is that of a process that was killed, or of a restore that
\* could not create the schema lock.
DeadInv ==
  \A l \in Locks : lock[l] = Dead =>
    \/ \E p \in Procs : At(p, "dead")
    \/ l = "maintenance" /\ \E p \in Restores : At(p, "failed")

\* A maintainer past its check of the leases meets no command past its check
\* of the maintenance lock.
AloneInv ==
  ~ unguarded =>
    \A m \in Maintainers, p \in Writers \cup EarlyWriters :
      Exclusive(m) => pc[p] \notin {"openEarly", "work", "closeEarly"}

\* A command that takes its lease first has the store open only under it.
OpenInv ==
  \A p \in EarlyWriters : conn[p] # "closed" => pc[p] \in {"work", "closeEarly"}

IInv ==
  /\ TypeOK /\ PlaceInv /\ HoldInv /\ OwnInv /\ DeadInv /\ LeaseInv /\ LeftInv
  /\ AloneInv /\ OpenInv /\ EarlyWriterIsCurrent

--------------------------------------------------------------------------------

LEMMA FaultType ==
  ASSUME faults \in 0..MaxFaults, Fault
  PROVE  faults' \in 0..MaxFaults
  BY FaultsAssumption DEF Fault

LEMMA InitInv == Init => IInv
<1> SUFFICES ASSUME Init
             PROVE  IInv
  OBVIOUS
<1>1. TypeOK
  <2>1. 0 \in 0..MaxFaults /\ 0 \in 0..Len(Ladder)
    BY FaultsAssumption, LadderFacts
  <2> QED
    BY <2>1 DEF Init, TypeOK, Places
<1>2. PlaceInv /\ HoldInv
  BY
  DEF Init, PlaceInv, HoldInv, Exclusive, At, Leased, Commands, Procs,
      Maintainers
<1>3. LeaseInv /\ LeftInv /\ AloneInv /\ OpenInv /\ EarlyWriterIsCurrent
  BY
  DEF Init, LeaseInv, LeftInv, AloneInv, OpenInv, EarlyWriterIsCurrent, Leased,
      Exclusive,
         Procs, Maintainers
<1>4. OwnInv /\ DeadInv
  BY ProcsAssumption DEF Init, OwnInv, DeadInv, Locks, Commands, Procs, Maintainers
<1> QED
  BY <1>1, <1>2, <1>3, <1>4 DEF IInv

\* Every action keeps the types.
LEMMA NextType == IInv /\ [Next]_vars => TypeOK'
<1> SUFFICES ASSUME IInv, [Next]_vars
             PROVE  TypeOK'
  OBVIOUS
<1> USE ProcsAssumption DEF At, Goto, Gone, Commands, Procs, Maintainers
<1>0. TypeOK /\ PlaceInv /\ HoldInv /\ LeaseInv /\ LeftInv /\ AloneInv /\ OpenInv
  BY DEF IInv
<1>1. ASSUME NEW p \in Commands, Begin(p)
      PROVE  TypeOK'
  BY <1>0, <1>1, FaultType, LadderFacts, JobLockAssumption
  DEF TypeOK, Places, PlaceInv, Exclusive, Begin
<1>2. ASSUME NEW p \in Commands, ProbeTake(p)
      PROVE  TypeOK'
  BY <1>0, <1>2, FaultType, LadderFacts, JobLockAssumption, ProbeFacts
  DEF TypeOK, Places, PlaceInv, Exclusive, ProbeTake, Take, Free
<1>3. ASSUME NEW p \in Commands, ProbeDrop(p)
      PROVE  TypeOK'
  <2>1. lock' \in [Locks -> Procs \cup {None, Dead}]
    BY <1>0, <1>3 DEF TypeOK, ProbeDrop, Release
  <2>2. CASE At(p, "probing")
    BY <1>0, <1>3, <2>1, <2>2 DEF TypeOK, Places, ProbeDrop, AfterProbe
  <2>3. CASE At(p, "probingLease")
    BY <1>0, <1>3, <2>1, <2>3 DEF TypeOK, Places, ProbeDrop, AfterProbe
  <2>4. CASE At(p, "rechecking")
    BY <1>0, <1>3, <2>1, <2>4 DEF TypeOK, Places, ProbeDrop, AfterProbe
  <2> QED
    BY <1>3, <2>2, <2>3, <2>4 DEF ProbeDrop
<1>4. ASSUME NEW p \in Commands, ProbeTimeout(p)
      PROVE  TypeOK'
  BY <1>0, <1>4, FaultType, LadderFacts, JobLockAssumption, ProbeFacts
  DEF TypeOK, Places, PlaceInv, Exclusive, ProbeTimeout, Denied, Busy, Fault
<1>5. ASSUME NEW p \in Commands, Open(p)
      PROVE  TypeOK'
  BY <1>0, <1>5, FaultType, LadderFacts, JobLockAssumption
  DEF TypeOK, Places, PlaceInv, Exclusive, Open
<1>6. ASSUME NEW p \in Commands, Prepare(p)
      PROVE  TypeOK'
  BY <1>0, <1>6, FaultType, LadderFacts, JobLockAssumption
  DEF TypeOK, Places, PlaceInv, Exclusive, Prepare, Take, Free
<1>7. ASSUME NEW p \in Commands, PrepareTimeout(p)
      PROVE  TypeOK'
  BY <1>0, <1>7, FaultType, LadderFacts, JobLockAssumption
  DEF TypeOK, Places, PlaceInv, Exclusive, PrepareTimeout, Denied, Busy, Fault
<1>8. ASSUME NEW p \in Commands, Prepared(p)
      PROVE  TypeOK'
  <2>1. lock' \in [Locks -> Procs \cup {None, Dead}]
    BY <1>0, <1>8 DEF TypeOK, Prepared, Release
  <2>2. pc' \in [Procs -> Places]
    BY <1>0, <1>8 DEF TypeOK, Places, Prepared
  <2> QED
    BY <1>0, <1>8, <2>1, <2>2 DEF TypeOK, Prepared
<1>9. ASSUME NEW p \in Commands, Lease(p)
      PROVE  TypeOK'
  BY <1>0, <1>9, FaultType, LadderFacts, JobLockAssumption
  DEF TypeOK, Places, PlaceInv, Exclusive, Lease
<1>10. ASSUME NEW p \in Commands, OpenEarly(p)
       PROVE  TypeOK'
  BY <1>0, <1>10, FaultType, LadderFacts, JobLockAssumption
  DEF TypeOK, Places, PlaceInv, Exclusive, OpenEarly
<1>11. ASSUME NEW p \in Commands, EnterJob(p)
       PROVE  TypeOK'
  BY <1>0, <1>11, FaultType, LadderFacts, JobLockAssumption
  DEF TypeOK, Places, PlaceInv, Exclusive, EnterJob, Take, Free
<1>12. ASSUME NEW p \in Commands, SkipJob(p)
       PROVE  TypeOK'
  BY <1>0, <1>12, FaultType, LadderFacts, JobLockAssumption
  DEF TypeOK, Places, PlaceInv, Exclusive, SkipJob
<1>13. ASSUME NEW p \in Commands, Finish(p)
       PROVE  TypeOK'
  BY <1>0, <1>13, FaultType, LadderFacts, JobLockAssumption
  DEF TypeOK, Places, PlaceInv, Exclusive, Finish, Release
<1>14. ASSUME NEW p \in Commands, Unlease(p)
       PROVE  TypeOK'
  BY <1>0, <1>14, FaultType, LadderFacts, JobLockAssumption
  DEF TypeOK, Places, PlaceInv, Exclusive, Unlease
<1>15. ASSUME NEW p \in Commands, Close(p)
       PROVE  TypeOK'
  BY <1>0, <1>15, FaultType, LadderFacts, JobLockAssumption
  DEF TypeOK, Places, PlaceInv, Exclusive, Close
<1>16. ASSUME NEW p \in Maintainers, BeginMaintenance(p)
       PROVE  TypeOK'
  BY <1>0, <1>16, FaultType, LadderFacts, JobLockAssumption
  DEF TypeOK, Places, PlaceInv, Exclusive, BeginMaintenance
<1>17. ASSUME NEW p \in Maintainers, Climb(p)
       PROVE  TypeOK'
  <2>1. rung[p] \in 0..4 /\ rung[p] < 4
    BY <1>0, <1>17, LadderFacts DEF TypeOK, Climb
  <2>2. rung[p] + 1 \in 1..4
    BY <2>1
  <2>3. Ladder[rung[p] + 1] \in Locks
    BY <2>2, LadderFacts DEF Locks
  <2>4. lock' \in [Locks -> Procs \cup {None, Dead}]
    BY <1>0, <1>17, <2>3 DEF TypeOK, Climb, Take
  <2>5. rung' \in [Maintainers -> 0..Len(Ladder)]
    BY <1>0, <1>17, <2>2, LadderFacts DEF TypeOK, Climb
  <2> QED
    BY <1>0, <1>17, <2>4, <2>5 DEF TypeOK, Climb
<1>18. ASSUME NEW p \in Maintainers, Refuse(p)
       PROVE  TypeOK'
  BY <1>0, <1>18, FaultType, LadderFacts, JobLockAssumption
  DEF TypeOK, Places, PlaceInv, Exclusive, Refuse, Busy
<1>19. ASSUME NEW p \in Maintainers, CheckLeases(p)
       PROVE  TypeOK'
  BY <1>0, <1>19, FaultType, LadderFacts, JobLockAssumption
  DEF TypeOK, Places, PlaceInv, Exclusive, CheckLeases, Checked, Enter
<1>20. ASSUME NEW p \in Maintainers, RestoreFails(p)
       PROVE  TypeOK'
  BY <1>0, <1>20, FaultType, LadderFacts, JobLockAssumption
  DEF TypeOK, Places, PlaceInv, Exclusive, RestoreFails
<1>21. ASSUME NEW p \in Maintainers, Destroy(p)
       PROVE  TypeOK'
  BY <1>0, <1>21, FaultType, LadderFacts, JobLockAssumption
  DEF TypeOK, Places, PlaceInv, Exclusive, Destroy
<1>22. ASSUME NEW p \in Maintainers, Copy(p)
       PROVE  TypeOK'
  BY <1>0, <1>22, FaultType, LadderFacts, JobLockAssumption
  DEF TypeOK, Places, PlaceInv, Exclusive, Copy
<1>23. ASSUME NEW p \in Maintainers, EndMaintenance(p)
       PROVE  TypeOK'
  BY <1>0, <1>23, FaultType, LadderFacts, JobLockAssumption
  DEF TypeOK, Places, PlaceInv, Exclusive, EndMaintenance
<1>24. ASSUME NEW p \in Maintainers, Descend(p)
       PROVE  TypeOK'
  BY <1>0, <1>24, FaultType, LadderFacts, JobLockAssumption
  DEF TypeOK, Places, PlaceInv, Exclusive, Descend, Release
<1>25. ASSUME NEW p \in Procs, Crash(p)
       PROVE  TypeOK'
  BY <1>0, <1>25, FaultType, LadderFacts, JobLockAssumption
  DEF TypeOK, Places, PlaceInv, Exclusive, Crash, Abandon
<1>26. ASSUME NEW p \in Procs, AgeLease(p)
       PROVE  TypeOK'
  <2>1. faults' \in 0..MaxFaults
    BY <1>0, <1>26, FaultType DEF TypeOK, AgeLease
  <2>2. unguarded' \in BOOLEAN
    BY <1>0, <1>26 DEF TypeOK, AgeLease
  <2> QED
    BY <1>0, <1>26, <2>1, <2>2 DEF TypeOK, AgeLease
<1>27. ASSUME NEW l \in Locks, Overrun(l)
       PROVE  TypeOK'
  BY <1>0, <1>27, FaultType, LadderFacts, JobLockAssumption
  DEF TypeOK, Places, PlaceInv, Exclusive, Overrun
<1>29. ASSUME NEW p \in Commands, LeaseStays(p)
      PROVE  TypeOK'
  BY <1>0, <1>29, FaultType, LadderFacts, JobLockAssumption
  DEF TypeOK, Places, PlaceInv, Exclusive, Leased, LeaseStays
<1>30. ASSUME NEW p \in Commands, LeaseFails(p)
      PROVE  TypeOK'
  BY <1>0, <1>30, FaultType, LadderFacts, JobLockAssumption
  DEF TypeOK, Places, PlaceInv, Exclusive, LeaseFails, Fault
<1>31. ASSUME NEW p \in Commands, EnterUnlocked(p)
      PROVE  TypeOK'
  BY <1>0, <1>31, FaultType, LadderFacts, JobLockAssumption
  DEF TypeOK, Places, PlaceInv, Exclusive, EnterUnlocked, Fault
<1>32. ASSUME NEW p \in Commands, UnleaseFails(p)
       PROVE  TypeOK'
  BY <1>0, <1>32, FaultType, LadderFacts, JobLockAssumption
  DEF TypeOK, Places, PlaceInv, Exclusive, UnleaseFails, Fault
<1>33. ASSUME NEW p \in Maintainers, ClimbUnlocked(p)
       PROVE  TypeOK'
  BY <1>0, <1>33, FaultType, LadderFacts, JobLockAssumption
  DEF TypeOK, Places, PlaceInv, Exclusive, ClimbUnlocked, Fault
<1>34. ASSUME NEW p \in Maintainers, ClimbFails(p)
       PROVE  TypeOK'
  BY <1>0, <1>34, FaultType, LadderFacts, JobLockAssumption
  DEF TypeOK, Places, PlaceInv, Exclusive, ClimbFails, Abandon, Fault
<1>35. ASSUME NEW p \in Maintainers, CheckFails(p)
       PROVE  TypeOK'
  BY <1>0, <1>35, FaultType, LadderFacts, JobLockAssumption
  DEF TypeOK, Places, PlaceInv, Exclusive, CheckFails, Checked, Enter, Fault
<1>28. CASE UNCHANGED vars
  BY <1>0, <1>28, FaultType, LadderFacts, JobLockAssumption
  DEF TypeOK, Places, PlaceInv, Exclusive, vars
<1> QED
  BY <1>1, <1>2, <1>3, <1>4, <1>5, <1>6, <1>7, <1>8, <1>9, <1>10,
     <1>11, <1>12, <1>13, <1>14, <1>15, <1>16, <1>17, <1>18, <1>19, <1>20,
     <1>21, <1>22, <1>23, <1>24, <1>25, <1>26, <1>27, <1>28, <1>29, <1>30,
     <1>31, <1>32, <1>33, <1>34, <1>35
  DEF Next, Command, Maintain

\* Processes keep to their own places.
LEMMA NextPlace == IInv /\ [Next]_vars => PlaceInv'
<1> SUFFICES ASSUME IInv, [Next]_vars
             PROVE  PlaceInv'
  OBVIOUS
<1> USE ProcsAssumption DEF At, Goto, Gone, Commands, Procs, Maintainers
<1>0. TypeOK /\ PlaceInv /\ HoldInv /\ LeaseInv /\ LeftInv /\ AloneInv /\ OpenInv
  BY DEF IInv
<1>1. ASSUME NEW p \in Commands, Begin(p)
      PROVE  PlaceInv'
  BY <1>0, <1>1 DEF TypeOK, PlaceInv, Leased, Exclusive, Begin
<1>2. ASSUME NEW p \in Commands, ProbeTake(p)
      PROVE  PlaceInv'
  BY <1>0, <1>2, ProbeFacts
  DEF TypeOK, PlaceInv, Leased, Exclusive, ProbeTake, Take, Free
<1>3. ASSUME NEW p \in Commands, ProbeDrop(p)
      PROVE  PlaceInv'
  BY <1>0, <1>3
  DEF TypeOK, PlaceInv, Leased, Exclusive, ProbeDrop, AfterProbe, Release
<1>4. ASSUME NEW p \in Commands, ProbeTimeout(p)
      PROVE  PlaceInv'
  BY <1>0, <1>4, ProbeFacts
  DEF TypeOK, PlaceInv, Leased, Exclusive, ProbeTimeout, Denied, Busy, Fault
<1>5. ASSUME NEW p \in Commands, Open(p)
      PROVE  PlaceInv'
  BY <1>0, <1>5 DEF TypeOK, PlaceInv, Leased, Exclusive, Open
<1>6. ASSUME NEW p \in Commands, Prepare(p)
      PROVE  PlaceInv'
  BY <1>0, <1>6 DEF TypeOK, PlaceInv, Leased, Exclusive, Prepare, Take, Free
<1>7. ASSUME NEW p \in Commands, PrepareTimeout(p)
      PROVE  PlaceInv'
  BY <1>0, <1>7
  DEF TypeOK, PlaceInv, Leased, Exclusive, PrepareTimeout, Denied, Busy, Fault
<1>8. ASSUME NEW p \in Commands, Prepared(p)
      PROVE  PlaceInv'
  BY <1>0, <1>8 DEF TypeOK, PlaceInv, Leased, Exclusive, Prepared, Release
<1>9. ASSUME NEW p \in Commands, Lease(p)
      PROVE  PlaceInv'
  BY <1>0, <1>9 DEF TypeOK, PlaceInv, Leased, Exclusive, Lease
<1>10. ASSUME NEW p \in Commands, OpenEarly(p)
       PROVE  PlaceInv'
  BY <1>0, <1>10 DEF TypeOK, PlaceInv, Leased, Exclusive, OpenEarly
<1>11. ASSUME NEW p \in Commands, EnterJob(p)
       PROVE  PlaceInv'
  BY <1>0, <1>11 DEF TypeOK, PlaceInv, Leased, Exclusive, EnterJob, Take, Free
<1>12. ASSUME NEW p \in Commands, SkipJob(p)
       PROVE  PlaceInv'
  BY <1>0, <1>12 DEF TypeOK, PlaceInv, Leased, Exclusive, SkipJob
<1>13. ASSUME NEW p \in Commands, Finish(p)
       PROVE  PlaceInv'
  BY <1>0, <1>13 DEF TypeOK, PlaceInv, Leased, Exclusive, Finish, Release
<1>14. ASSUME NEW p \in Commands, Unlease(p)
       PROVE  PlaceInv'
  BY <1>0, <1>14 DEF TypeOK, PlaceInv, Leased, Exclusive, Unlease
<1>15. ASSUME NEW p \in Commands, Close(p)
       PROVE  PlaceInv'
  BY <1>0, <1>15 DEF TypeOK, PlaceInv, Leased, Exclusive, Close
<1>16. ASSUME NEW p \in Maintainers, BeginMaintenance(p)
       PROVE  PlaceInv'
  BY <1>0, <1>16 DEF TypeOK, PlaceInv, Leased, Exclusive, BeginMaintenance
<1>17. ASSUME NEW p \in Maintainers, Climb(p)
       PROVE  PlaceInv'
  BY <1>0, <1>17, LadderFacts
  DEF TypeOK, PlaceInv, Leased, Exclusive, Climb, Take, Free
<1>18. ASSUME NEW p \in Maintainers, Refuse(p)
       PROVE  PlaceInv'
  BY <1>0, <1>18, LadderFacts DEF TypeOK, PlaceInv, Leased, Exclusive, Refuse, Busy
<1>19. ASSUME NEW p \in Maintainers, CheckLeases(p)
       PROVE  PlaceInv'
  BY <1>0, <1>19, LadderFacts
  DEF TypeOK, PlaceInv, Leased, Exclusive, CheckLeases, Checked, Enter
<1>20. ASSUME NEW p \in Maintainers, RestoreFails(p)
       PROVE  PlaceInv'
  BY <1>0, <1>20 DEF TypeOK, PlaceInv, Leased, Exclusive, RestoreFails
<1>21. ASSUME NEW p \in Maintainers, Destroy(p)
       PROVE  PlaceInv'
  BY <1>0, <1>21 DEF TypeOK, PlaceInv, Leased, Exclusive, Destroy
<1>22. ASSUME NEW p \in Maintainers, Copy(p)
       PROVE  PlaceInv'
  BY <1>0, <1>22 DEF TypeOK, PlaceInv, Leased, Exclusive, Copy
<1>23. ASSUME NEW p \in Maintainers, EndMaintenance(p)
       PROVE  PlaceInv'
  BY <1>0, <1>23 DEF TypeOK, PlaceInv, Leased, Exclusive, EndMaintenance
<1>24. ASSUME NEW p \in Maintainers, Descend(p)
       PROVE  PlaceInv'
  BY <1>0, <1>24, LadderFacts
  DEF TypeOK, PlaceInv, Leased, Exclusive, Descend, Release
<1>25. ASSUME NEW p \in Procs, Crash(p)
       PROVE  PlaceInv'
  BY <1>0, <1>25 DEF TypeOK, PlaceInv, Leased, Exclusive, Crash, Abandon, Fault
<1>26. ASSUME NEW p \in Procs, AgeLease(p)
       PROVE  PlaceInv'
  BY <1>0, <1>26 DEF TypeOK, PlaceInv, Leased, Exclusive, AgeLease, Fault
<1>27. ASSUME NEW l \in Locks, Overrun(l)
       PROVE  PlaceInv'
  BY <1>0, <1>27 DEF TypeOK, PlaceInv, Leased, Exclusive, Overrun, Fault
<1>29. ASSUME NEW p \in Commands, LeaseStays(p)
      PROVE  PlaceInv'
  BY <1>0, <1>29 DEF TypeOK, PlaceInv, Leased, Exclusive, LeaseStays, Fault
<1>30. ASSUME NEW p \in Commands, LeaseFails(p)
      PROVE  PlaceInv'
  BY <1>0, <1>30 DEF TypeOK, PlaceInv, Leased, Exclusive, LeaseFails, Fault
<1>31. ASSUME NEW p \in Commands, EnterUnlocked(p)
      PROVE  PlaceInv'
  BY <1>0, <1>31 DEF TypeOK, PlaceInv, Leased, Exclusive, EnterUnlocked, Fault
<1>32. ASSUME NEW p \in Commands, UnleaseFails(p)
       PROVE  PlaceInv'
  BY <1>0, <1>32 DEF TypeOK, PlaceInv, Leased, Exclusive, UnleaseFails, Fault
<1>33. ASSUME NEW p \in Maintainers, ClimbUnlocked(p)
       PROVE  PlaceInv'
  BY <1>0, <1>33, LadderFacts
  DEF TypeOK, PlaceInv, Leased, Exclusive, ClimbUnlocked, Fault
<1>34. ASSUME NEW p \in Maintainers, ClimbFails(p)
       PROVE  PlaceInv'
  BY <1>0, <1>34, LadderFacts
  DEF TypeOK, PlaceInv, Leased, Exclusive, ClimbFails, Abandon, Fault
<1>35. ASSUME NEW p \in Maintainers, CheckFails(p)
       PROVE  PlaceInv'
  BY <1>0, <1>35, LadderFacts
  DEF TypeOK, PlaceInv, Leased, Exclusive, CheckFails, Checked, Enter, Fault
<1>28. CASE UNCHANGED vars
  BY <1>0, <1>28 DEF TypeOK, PlaceInv, Leased, Exclusive, vars
<1> QED
  BY <1>1, <1>2, <1>3, <1>4, <1>5, <1>6, <1>7, <1>8, <1>9, <1>10,
     <1>11, <1>12, <1>13, <1>14, <1>15, <1>16, <1>17, <1>18, <1>19, <1>20,
     <1>21, <1>22, <1>23, <1>24, <1>25, <1>26, <1>27, <1>28, <1>29, <1>30,
     <1>31, <1>32, <1>33, <1>34, <1>35
  DEF Next, Command, Maintain

\* A section is entered with its lock, and left before it is released.
LEMMA NextHold == IInv /\ [Next]_vars => HoldInv'
<1> SUFFICES ASSUME IInv, [Next]_vars
             PROVE  HoldInv'
  OBVIOUS
<1> USE ProcsAssumption DEF At, Goto, Gone, Commands, Procs, Maintainers
<1>0. TypeOK /\ PlaceInv /\ HoldInv /\ LeaseInv /\ LeftInv /\ AloneInv /\ OpenInv
  BY DEF IInv
<1>1. ASSUME NEW p \in Commands, Begin(p)
      PROVE  HoldInv'
  BY <1>0, <1>1, JobLockAssumption
  DEF TypeOK, PlaceInv, Leased, Exclusive, HoldInv, Locks, Begin
<1>2. ASSUME NEW p \in Commands, ProbeTake(p)
      PROVE  HoldInv'
  BY <1>0, <1>2, JobLockAssumption, ProbeFacts
  DEF TypeOK, PlaceInv, Leased, Exclusive, HoldInv, Locks, ProbeTake, Take,
      Free
<1>3. ASSUME NEW p \in Commands, ProbeDrop(p)
      PROVE  HoldInv'
  BY <1>0, <1>3, JobLockAssumption
  DEF TypeOK, PlaceInv, Leased, Exclusive, HoldInv, Locks, ProbeDrop,
      AfterProbe, Release
<1>4. ASSUME NEW p \in Commands, ProbeTimeout(p)
      PROVE  HoldInv'
  BY <1>0, <1>4, JobLockAssumption, ProbeFacts
  DEF TypeOK, PlaceInv, Leased, Exclusive, HoldInv, Locks, ProbeTimeout, Denied,
      Busy, Fault
<1>5. ASSUME NEW p \in Commands, Open(p)
      PROVE  HoldInv'
  BY <1>0, <1>5, JobLockAssumption
  DEF TypeOK, PlaceInv, Leased, Exclusive, HoldInv, Locks, Open
<1>6. ASSUME NEW p \in Commands, Prepare(p)
      PROVE  HoldInv'
  BY <1>0, <1>6, JobLockAssumption
  DEF TypeOK, PlaceInv, Leased, Exclusive, HoldInv, Locks, Prepare, Take, Free
<1>7. ASSUME NEW p \in Commands, PrepareTimeout(p)
      PROVE  HoldInv'
  BY <1>0, <1>7, JobLockAssumption
  DEF TypeOK, PlaceInv, Leased, Exclusive, HoldInv, Locks, PrepareTimeout,
      Denied, Busy, Fault
<1>8. ASSUME NEW p \in Commands, Prepared(p)
      PROVE  HoldInv'
  BY <1>0, <1>8, JobLockAssumption
  DEF TypeOK, PlaceInv, Leased, Exclusive, HoldInv, Locks, Prepared, Release
<1>9. ASSUME NEW p \in Commands, Lease(p)
      PROVE  HoldInv'
  BY <1>0, <1>9, JobLockAssumption
  DEF TypeOK, PlaceInv, Leased, Exclusive, HoldInv, Locks, Lease
<1>10. ASSUME NEW p \in Commands, OpenEarly(p)
       PROVE  HoldInv'
  BY <1>0, <1>10, JobLockAssumption
  DEF TypeOK, PlaceInv, Leased, Exclusive, HoldInv, Locks, OpenEarly
<1>11. ASSUME NEW p \in Commands, EnterJob(p)
       PROVE  HoldInv'
  BY <1>0, <1>11, JobLockAssumption
  DEF TypeOK, PlaceInv, Leased, Exclusive, HoldInv, Locks, EnterJob, Take,
      Free
<1>12. ASSUME NEW p \in Commands, SkipJob(p)
       PROVE  HoldInv'
  BY <1>0, <1>12, JobLockAssumption
  DEF TypeOK, PlaceInv, Leased, Exclusive, HoldInv, Locks, SkipJob
<1>13. ASSUME NEW p \in Commands, Finish(p)
       PROVE  HoldInv'
  BY <1>0, <1>13, JobLockAssumption
  DEF TypeOK, PlaceInv, Leased, Exclusive, HoldInv, Locks, Finish, Release
<1>14. ASSUME NEW p \in Commands, Unlease(p)
       PROVE  HoldInv'
  BY <1>0, <1>14, JobLockAssumption
  DEF TypeOK, PlaceInv, Leased, Exclusive, HoldInv, Locks, Unlease
<1>15. ASSUME NEW p \in Commands, Close(p)
       PROVE  HoldInv'
  BY <1>0, <1>15, JobLockAssumption
  DEF TypeOK, PlaceInv, Leased, Exclusive, HoldInv, Locks, Close
<1>16. ASSUME NEW p \in Maintainers, BeginMaintenance(p)
       PROVE  HoldInv'
  BY <1>0, <1>16, JobLockAssumption
  DEF TypeOK, PlaceInv, Leased, Exclusive, HoldInv, Locks, BeginMaintenance
<1>17. ASSUME NEW p \in Maintainers, Climb(p)
       PROVE  HoldInv'
  BY <1>0, <1>17, JobLockAssumption, LadderFacts
  DEF TypeOK, PlaceInv, Leased, Exclusive, HoldInv, Locks, Climb, Take, Free
<1>18. ASSUME NEW p \in Maintainers, Refuse(p)
       PROVE  HoldInv'
  BY <1>0, <1>18, JobLockAssumption, LadderFacts
  DEF TypeOK, PlaceInv, Leased, Exclusive, HoldInv, Locks, Refuse, Busy
<1>19. ASSUME NEW p \in Maintainers, CheckLeases(p)
       PROVE  HoldInv'
  BY <1>0, <1>19, JobLockAssumption, LadderFacts
  DEF TypeOK, PlaceInv, Leased, Exclusive, HoldInv, Locks, CheckLeases, Checked,
      Enter
<1>20. ASSUME NEW p \in Maintainers, RestoreFails(p)
       PROVE  HoldInv'
  BY <1>0, <1>20, JobLockAssumption
  DEF TypeOK, PlaceInv, Leased, Exclusive, HoldInv, Locks, RestoreFails
<1>21. ASSUME NEW p \in Maintainers, Destroy(p)
       PROVE  HoldInv'
  BY <1>0, <1>21, JobLockAssumption
  DEF TypeOK, PlaceInv, Leased, Exclusive, HoldInv, Locks, Destroy
<1>22. ASSUME NEW p \in Maintainers, Copy(p)
       PROVE  HoldInv'
  BY <1>0, <1>22, JobLockAssumption
  DEF TypeOK, PlaceInv, Leased, Exclusive, HoldInv, Locks, Copy
<1>23. ASSUME NEW p \in Maintainers, EndMaintenance(p)
       PROVE  HoldInv'
  BY <1>0, <1>23, JobLockAssumption
  DEF TypeOK, PlaceInv, Leased, Exclusive, HoldInv, Locks, EndMaintenance
<1>24. ASSUME NEW p \in Maintainers, Descend(p)
       PROVE  HoldInv'
  BY <1>0, <1>24, JobLockAssumption, LadderFacts
  DEF TypeOK, PlaceInv, Leased, Exclusive, HoldInv, Locks, Descend, Release
<1>25. ASSUME NEW p \in Procs, Crash(p)
       PROVE  HoldInv'
  BY <1>0, <1>25, JobLockAssumption
  DEF TypeOK, PlaceInv, Leased, Exclusive, HoldInv, Locks, Crash, Abandon, Fault
<1>26. ASSUME NEW p \in Procs, AgeLease(p)
       PROVE  HoldInv'
  BY <1>0, <1>26, JobLockAssumption
  DEF TypeOK, PlaceInv, Leased, Exclusive, HoldInv, Locks, AgeLease, Fault
<1>27. ASSUME NEW l \in Locks, Overrun(l)
       PROVE  HoldInv'
  BY <1>0, <1>27, JobLockAssumption
  DEF TypeOK, PlaceInv, Leased, Exclusive, HoldInv, Locks, Overrun, Fault
<1>29. ASSUME NEW p \in Commands, LeaseStays(p)
      PROVE  HoldInv'
  BY <1>0, <1>29, JobLockAssumption
  DEF TypeOK, PlaceInv, Leased, Exclusive, HoldInv, Locks, LeaseStays, Fault
<1>30. ASSUME NEW p \in Commands, LeaseFails(p)
      PROVE  HoldInv'
  BY <1>0, <1>30, JobLockAssumption
  DEF TypeOK, PlaceInv, Leased, Exclusive, HoldInv, Locks, LeaseFails, Fault
<1>31. ASSUME NEW p \in Commands, EnterUnlocked(p)
      PROVE  HoldInv'
  BY <1>0, <1>31, JobLockAssumption
  DEF TypeOK, PlaceInv, Leased, Exclusive, HoldInv, Locks, EnterUnlocked, Fault
<1>32. ASSUME NEW p \in Commands, UnleaseFails(p)
       PROVE  HoldInv'
  BY <1>0, <1>32, JobLockAssumption
  DEF TypeOK, PlaceInv, Leased, Exclusive, HoldInv, Locks, UnleaseFails, Fault
<1>33. ASSUME NEW p \in Maintainers, ClimbUnlocked(p)
       PROVE  HoldInv'
  BY <1>0, <1>33, JobLockAssumption, LadderFacts
  DEF TypeOK, PlaceInv, Leased, Exclusive, HoldInv, Locks, ClimbUnlocked, Fault
<1>34. ASSUME NEW p \in Maintainers, ClimbFails(p)
       PROVE  HoldInv'
  BY <1>0, <1>34, JobLockAssumption, LadderFacts
  DEF TypeOK, PlaceInv, Leased, Exclusive, HoldInv, Locks, ClimbFails, Abandon,
      Fault
<1>35. ASSUME NEW p \in Maintainers, CheckFails(p)
       PROVE  HoldInv'
  BY <1>0, <1>35, JobLockAssumption, LadderFacts
  DEF TypeOK, PlaceInv, Leased, Exclusive, HoldInv, Locks, CheckFails, Checked,
      Enter, Fault
<1>28. CASE UNCHANGED vars
  BY <1>0, <1>28, JobLockAssumption
  DEF TypeOK, PlaceInv, Leased, Exclusive, HoldInv, Locks, vars
<1> QED
  BY <1>1, <1>2, <1>3, <1>4, <1>5, <1>6, <1>7, <1>8, <1>9, <1>10,
     <1>11, <1>12, <1>13, <1>14, <1>15, <1>16, <1>17, <1>18, <1>19, <1>20,
     <1>21, <1>22, <1>23, <1>24, <1>25, <1>26, <1>27, <1>28, <1>29, <1>30,
     <1>31, <1>32, <1>33, <1>34, <1>35
  DEF Next, Command, Maintain

\* A process that leaves a section has released its lock.
LEMMA NextOwn == IInv /\ [Next]_vars => OwnInv'
<1> SUFFICES ASSUME IInv, [Next]_vars
             PROVE  OwnInv'
  OBVIOUS
<1> USE ProcsAssumption DEF At, Goto, Gone, Commands, Procs, Maintainers
<1>0. TypeOK /\ PlaceInv /\ OwnInv
  BY DEF IInv
<1>1. ASSUME NEW p \in Commands, Begin(p)
      PROVE  OwnInv'
  BY <1>0, <1>1, JobLockAssumption
  DEF TypeOK, PlaceInv, Leased, Exclusive, OwnInv, Locks, Begin
<1>2. ASSUME NEW p \in Commands, ProbeTake(p)
      PROVE  OwnInv'
  BY <1>0, <1>2, JobLockAssumption, ProbeFacts
  DEF TypeOK, PlaceInv, Leased, Exclusive, OwnInv, Locks, ProbeTake, Take,
      Free
<1>3. ASSUME NEW p \in Commands, ProbeDrop(p)
      PROVE  OwnInv'
  BY <1>0, <1>3, JobLockAssumption
  DEF TypeOK, PlaceInv, Leased, Exclusive, OwnInv, Locks, ProbeDrop,
      AfterProbe, Release
<1>4. ASSUME NEW p \in Commands, ProbeTimeout(p)
      PROVE  OwnInv'
  BY <1>0, <1>4, JobLockAssumption, ProbeFacts
  DEF TypeOK, PlaceInv, Leased, Exclusive, OwnInv, Locks, ProbeTimeout, Denied,
      Busy, Fault
<1>5. ASSUME NEW p \in Commands, Open(p)
      PROVE  OwnInv'
  BY <1>0, <1>5, JobLockAssumption
  DEF TypeOK, PlaceInv, Leased, Exclusive, OwnInv, Locks, Open
<1>6. ASSUME NEW p \in Commands, Prepare(p)
      PROVE  OwnInv'
  BY <1>0, <1>6, JobLockAssumption
  DEF TypeOK, PlaceInv, Leased, Exclusive, OwnInv, Locks, Prepare, Take, Free
<1>7. ASSUME NEW p \in Commands, PrepareTimeout(p)
      PROVE  OwnInv'
  BY <1>0, <1>7, JobLockAssumption
  DEF TypeOK, PlaceInv, Leased, Exclusive, OwnInv, Locks, PrepareTimeout,
      Denied, Busy, Fault
<1>8. ASSUME NEW p \in Commands, Prepared(p)
      PROVE  OwnInv'
  BY <1>0, <1>8, JobLockAssumption
  DEF TypeOK, PlaceInv, Leased, Exclusive, OwnInv, Locks, Prepared, Release
<1>9. ASSUME NEW p \in Commands, Lease(p)
      PROVE  OwnInv'
  BY <1>0, <1>9, JobLockAssumption
  DEF TypeOK, PlaceInv, Leased, Exclusive, OwnInv, Locks, Lease
<1>10. ASSUME NEW p \in Commands, OpenEarly(p)
       PROVE  OwnInv'
  BY <1>0, <1>10, JobLockAssumption
  DEF TypeOK, PlaceInv, Leased, Exclusive, OwnInv, Locks, OpenEarly
<1>11. ASSUME NEW p \in Commands, EnterJob(p)
       PROVE  OwnInv'
  BY <1>0, <1>11, JobLockAssumption
  DEF TypeOK, PlaceInv, Leased, Exclusive, OwnInv, Locks, EnterJob, Take,
      Free
<1>12. ASSUME NEW p \in Commands, SkipJob(p)
       PROVE  OwnInv'
  BY <1>0, <1>12, JobLockAssumption
  DEF TypeOK, PlaceInv, Leased, Exclusive, OwnInv, Locks, SkipJob
<1>13. ASSUME NEW p \in Commands, Finish(p)
       PROVE  OwnInv'
  BY <1>0, <1>13, JobLockAssumption
  DEF TypeOK, PlaceInv, Leased, Exclusive, OwnInv, Locks, Finish, Release
<1>14. ASSUME NEW p \in Commands, Unlease(p)
       PROVE  OwnInv'
  BY <1>0, <1>14, JobLockAssumption
  DEF TypeOK, PlaceInv, Leased, Exclusive, OwnInv, Locks, Unlease
<1>15. ASSUME NEW p \in Commands, Close(p)
       PROVE  OwnInv'
  BY <1>0, <1>15, JobLockAssumption
  DEF TypeOK, PlaceInv, Leased, Exclusive, OwnInv, Locks, Close
<1>16. ASSUME NEW p \in Maintainers, BeginMaintenance(p)
       PROVE  OwnInv'
  BY <1>0, <1>16, JobLockAssumption
  DEF TypeOK, PlaceInv, Leased, Exclusive, OwnInv, Locks, BeginMaintenance
<1>17. ASSUME NEW p \in Maintainers, Climb(p)
       PROVE  OwnInv'
  BY <1>0, <1>17, JobLockAssumption, LadderFacts
  DEF TypeOK, PlaceInv, Leased, Exclusive, OwnInv, Locks, Climb, Take, Free
<1>18. ASSUME NEW p \in Maintainers, Refuse(p)
       PROVE  OwnInv'
  BY <1>0, <1>18, JobLockAssumption, LadderFacts
  DEF TypeOK, PlaceInv, Leased, Exclusive, OwnInv, Locks, Refuse, Busy
<1>19. ASSUME NEW p \in Maintainers, CheckLeases(p)
       PROVE  OwnInv'
  BY <1>0, <1>19, JobLockAssumption, LadderFacts
  DEF TypeOK, PlaceInv, Leased, Exclusive, OwnInv, Locks, CheckLeases, Checked,
      Enter
<1>20. ASSUME NEW p \in Maintainers, RestoreFails(p)
       PROVE  OwnInv'
  BY <1>0, <1>20, JobLockAssumption
  DEF TypeOK, PlaceInv, Leased, Exclusive, OwnInv, Locks, RestoreFails
<1>21. ASSUME NEW p \in Maintainers, Destroy(p)
       PROVE  OwnInv'
  BY <1>0, <1>21, JobLockAssumption
  DEF TypeOK, PlaceInv, Leased, Exclusive, OwnInv, Locks, Destroy
<1>22. ASSUME NEW p \in Maintainers, Copy(p)
       PROVE  OwnInv'
  BY <1>0, <1>22, JobLockAssumption
  DEF TypeOK, PlaceInv, Leased, Exclusive, OwnInv, Locks, Copy
<1>23. ASSUME NEW p \in Maintainers, EndMaintenance(p)
       PROVE  OwnInv'
  BY <1>0, <1>23, JobLockAssumption
  DEF TypeOK, PlaceInv, Leased, Exclusive, OwnInv, Locks, EndMaintenance
<1>24. ASSUME NEW p \in Maintainers, Descend(p)
       PROVE  OwnInv'
  BY <1>0, <1>24, JobLockAssumption, LadderFacts
  DEF TypeOK, PlaceInv, Leased, Exclusive, OwnInv, Locks, Descend, Release
<1>25. ASSUME NEW p \in Procs, Crash(p)
       PROVE  OwnInv'
  BY <1>0, <1>25, JobLockAssumption
  DEF TypeOK, PlaceInv, Leased, Exclusive, OwnInv, Locks, Crash, Abandon, Fault
<1>26. ASSUME NEW p \in Procs, AgeLease(p)
       PROVE  OwnInv'
  BY <1>0, <1>26, JobLockAssumption
  DEF TypeOK, PlaceInv, Leased, Exclusive, OwnInv, Locks, AgeLease, Fault
<1>27. ASSUME NEW l \in Locks, Overrun(l)
       PROVE  OwnInv'
  BY <1>0, <1>27, JobLockAssumption
  DEF TypeOK, PlaceInv, Leased, Exclusive, OwnInv, Locks, Overrun, Fault
<1>29. ASSUME NEW p \in Commands, LeaseStays(p)
      PROVE  OwnInv'
  BY <1>0, <1>29, JobLockAssumption
  DEF TypeOK, PlaceInv, Leased, Exclusive, OwnInv, Locks, LeaseStays, Fault
<1>30. ASSUME NEW p \in Commands, LeaseFails(p)
      PROVE  OwnInv'
  BY <1>0, <1>30, JobLockAssumption
  DEF TypeOK, PlaceInv, Leased, Exclusive, OwnInv, Locks, LeaseFails, Fault
<1>31. ASSUME NEW p \in Commands, EnterUnlocked(p)
      PROVE  OwnInv'
  BY <1>0, <1>31, JobLockAssumption
  DEF TypeOK, PlaceInv, Leased, Exclusive, OwnInv, Locks, EnterUnlocked, Fault
<1>32. ASSUME NEW p \in Commands, UnleaseFails(p)
       PROVE  OwnInv'
  BY <1>0, <1>32, JobLockAssumption
  DEF TypeOK, PlaceInv, Leased, Exclusive, OwnInv, Locks, UnleaseFails, Fault
<1>33. ASSUME NEW p \in Maintainers, ClimbUnlocked(p)
       PROVE  OwnInv'
  BY <1>0, <1>33, JobLockAssumption, LadderFacts
  DEF TypeOK, PlaceInv, Leased, Exclusive, OwnInv, Locks, ClimbUnlocked, Fault
<1>34. ASSUME NEW p \in Maintainers, ClimbFails(p)
       PROVE  OwnInv'
  BY <1>0, <1>34, JobLockAssumption, LadderFacts
  DEF TypeOK, PlaceInv, Leased, Exclusive, OwnInv, Locks, ClimbFails, Abandon,
      Fault
<1>35. ASSUME NEW p \in Maintainers, CheckFails(p)
       PROVE  OwnInv'
  BY <1>0, <1>35, JobLockAssumption, LadderFacts
  DEF TypeOK, PlaceInv, Leased, Exclusive, OwnInv, Locks, CheckFails, Checked,
      Enter, Fault
<1>28. CASE UNCHANGED vars
  BY <1>0, <1>28, JobLockAssumption
  DEF TypeOK, PlaceInv, Leased, Exclusive, OwnInv, Locks, vars
<1> QED
  BY <1>1, <1>2, <1>3, <1>4, <1>5, <1>6, <1>7, <1>8, <1>9, <1>10,
     <1>11, <1>12, <1>13, <1>14, <1>15, <1>16, <1>17, <1>18, <1>19, <1>20,
     <1>21, <1>22, <1>23, <1>24, <1>25, <1>26, <1>27, <1>28, <1>29, <1>30,
     <1>31, <1>32, <1>33, <1>34, <1>35
  DEF Next, Command, Maintain

\* Only a crash and a restore that fails leave a lock behind.
LEMMA NextDead == IInv /\ [Next]_vars => DeadInv'
<1> SUFFICES ASSUME IInv, [Next]_vars
             PROVE  DeadInv'
  OBVIOUS
<1> USE ProcsAssumption DEF At, Goto, Gone, Commands, Procs, Maintainers
<1>0. TypeOK /\ PlaceInv /\ OwnInv /\ DeadInv
  BY DEF IInv
<1>1. ASSUME NEW p \in Commands, Begin(p)
      PROVE  DeadInv'
  BY <1>0, <1>1, JobLockAssumption
  DEF TypeOK, PlaceInv, Leased, Exclusive, OwnInv, DeadInv, Locks, Begin
<1>2. ASSUME NEW p \in Commands, ProbeTake(p)
      PROVE  DeadInv'
  BY <1>0, <1>2, JobLockAssumption, ProbeFacts
  DEF TypeOK, PlaceInv, Leased, Exclusive, OwnInv, DeadInv, Locks, ProbeTake, Take,
      Free
<1>3. ASSUME NEW p \in Commands, ProbeDrop(p)
      PROVE  DeadInv'
  BY <1>0, <1>3, JobLockAssumption
  DEF TypeOK, PlaceInv, Leased, Exclusive, OwnInv, DeadInv, Locks, ProbeDrop,
      AfterProbe, Release
<1>4. ASSUME NEW p \in Commands, ProbeTimeout(p)
      PROVE  DeadInv'
  BY <1>0, <1>4, JobLockAssumption, ProbeFacts
  DEF TypeOK, PlaceInv, Leased, Exclusive, OwnInv, DeadInv, Locks, ProbeTimeout, Denied,
      Busy, Fault
<1>5. ASSUME NEW p \in Commands, Open(p)
      PROVE  DeadInv'
  BY <1>0, <1>5, JobLockAssumption
  DEF TypeOK, PlaceInv, Leased, Exclusive, OwnInv, DeadInv, Locks, Open
<1>6. ASSUME NEW p \in Commands, Prepare(p)
      PROVE  DeadInv'
  BY <1>0, <1>6, JobLockAssumption
  DEF TypeOK, PlaceInv, Leased, Exclusive, OwnInv, DeadInv, Locks, Prepare, Take, Free
<1>7. ASSUME NEW p \in Commands, PrepareTimeout(p)
      PROVE  DeadInv'
  BY <1>0, <1>7, JobLockAssumption
  DEF TypeOK, PlaceInv, Leased, Exclusive, OwnInv, DeadInv, Locks, PrepareTimeout,
      Denied, Busy, Fault
<1>8. ASSUME NEW p \in Commands, Prepared(p)
      PROVE  DeadInv'
  BY <1>0, <1>8, JobLockAssumption
  DEF TypeOK, PlaceInv, Leased, Exclusive, OwnInv, DeadInv, Locks, Prepared, Release
<1>9. ASSUME NEW p \in Commands, Lease(p)
      PROVE  DeadInv'
  BY <1>0, <1>9, JobLockAssumption
  DEF TypeOK, PlaceInv, Leased, Exclusive, OwnInv, DeadInv, Locks, Lease
<1>10. ASSUME NEW p \in Commands, OpenEarly(p)
       PROVE  DeadInv'
  BY <1>0, <1>10, JobLockAssumption
  DEF TypeOK, PlaceInv, Leased, Exclusive, OwnInv, DeadInv, Locks, OpenEarly
<1>11. ASSUME NEW p \in Commands, EnterJob(p)
       PROVE  DeadInv'
  BY <1>0, <1>11, JobLockAssumption
  DEF TypeOK, PlaceInv, Leased, Exclusive, OwnInv, DeadInv, Locks, EnterJob, Take,
      Free
<1>12. ASSUME NEW p \in Commands, SkipJob(p)
       PROVE  DeadInv'
  BY <1>0, <1>12, JobLockAssumption
  DEF TypeOK, PlaceInv, Leased, Exclusive, OwnInv, DeadInv, Locks, SkipJob
<1>13. ASSUME NEW p \in Commands, Finish(p)
       PROVE  DeadInv'
  BY <1>0, <1>13, JobLockAssumption
  DEF TypeOK, PlaceInv, Leased, Exclusive, OwnInv, DeadInv, Locks, Finish, Release
<1>14. ASSUME NEW p \in Commands, Unlease(p)
       PROVE  DeadInv'
  BY <1>0, <1>14, JobLockAssumption
  DEF TypeOK, PlaceInv, Leased, Exclusive, OwnInv, DeadInv, Locks, Unlease
<1>15. ASSUME NEW p \in Commands, Close(p)
       PROVE  DeadInv'
  BY <1>0, <1>15, JobLockAssumption
  DEF TypeOK, PlaceInv, Leased, Exclusive, OwnInv, DeadInv, Locks, Close
<1>16. ASSUME NEW p \in Maintainers, BeginMaintenance(p)
       PROVE  DeadInv'
  BY <1>0, <1>16, JobLockAssumption
  DEF TypeOK, PlaceInv, Leased, Exclusive, OwnInv, DeadInv, Locks, BeginMaintenance
<1>17. ASSUME NEW p \in Maintainers, Climb(p)
       PROVE  DeadInv'
  BY <1>0, <1>17, JobLockAssumption, LadderFacts
  DEF TypeOK, PlaceInv, Leased, Exclusive, OwnInv, DeadInv, Locks, Climb, Take, Free
<1>18. ASSUME NEW p \in Maintainers, Refuse(p)
       PROVE  DeadInv'
  BY <1>0, <1>18, JobLockAssumption, LadderFacts
  DEF TypeOK, PlaceInv, Leased, Exclusive, OwnInv, DeadInv, Locks, Refuse, Busy
<1>19. ASSUME NEW p \in Maintainers, CheckLeases(p)
       PROVE  DeadInv'
  BY <1>0, <1>19, JobLockAssumption, LadderFacts
  DEF TypeOK, PlaceInv, Leased, Exclusive, OwnInv, DeadInv, Locks, CheckLeases, Checked,
      Enter
<1>20. ASSUME NEW p \in Maintainers, RestoreFails(p)
       PROVE  DeadInv'
  BY <1>0, <1>20, JobLockAssumption
  DEF TypeOK, PlaceInv, Leased, Exclusive, OwnInv, DeadInv, Locks, RestoreFails
<1>21. ASSUME NEW p \in Maintainers, Destroy(p)
       PROVE  DeadInv'
  BY <1>0, <1>21, JobLockAssumption
  DEF TypeOK, PlaceInv, Leased, Exclusive, OwnInv, DeadInv, Locks, Destroy
<1>22. ASSUME NEW p \in Maintainers, Copy(p)
       PROVE  DeadInv'
  BY <1>0, <1>22, JobLockAssumption
  DEF TypeOK, PlaceInv, Leased, Exclusive, OwnInv, DeadInv, Locks, Copy
<1>23. ASSUME NEW p \in Maintainers, EndMaintenance(p)
       PROVE  DeadInv'
  BY <1>0, <1>23, JobLockAssumption
  DEF TypeOK, PlaceInv, Leased, Exclusive, OwnInv, DeadInv, Locks, EndMaintenance
<1>24. ASSUME NEW p \in Maintainers, Descend(p)
       PROVE  DeadInv'
  BY <1>0, <1>24, JobLockAssumption, LadderFacts
  DEF TypeOK, PlaceInv, Leased, Exclusive, OwnInv, DeadInv, Locks, Descend, Release
<1>25. ASSUME NEW p \in Procs, Crash(p)
       PROVE  DeadInv'
  BY <1>0, <1>25, JobLockAssumption
  DEF TypeOK, PlaceInv, Leased, Exclusive, OwnInv, DeadInv, Locks, Crash, Abandon, Fault
<1>26. ASSUME NEW p \in Procs, AgeLease(p)
       PROVE  DeadInv'
  BY <1>0, <1>26, JobLockAssumption
  DEF TypeOK, PlaceInv, Leased, Exclusive, OwnInv, DeadInv, Locks, AgeLease, Fault
<1>27. ASSUME NEW l \in Locks, Overrun(l)
       PROVE  DeadInv'
  BY <1>0, <1>27, JobLockAssumption
  DEF TypeOK, PlaceInv, Leased, Exclusive, OwnInv, DeadInv, Locks, Overrun, Fault
<1>29. ASSUME NEW p \in Commands, LeaseStays(p)
      PROVE  DeadInv'
  BY <1>0, <1>29, JobLockAssumption
  DEF TypeOK, PlaceInv, Leased, Exclusive, OwnInv, DeadInv, Locks, LeaseStays, Fault
<1>30. ASSUME NEW p \in Commands, LeaseFails(p)
      PROVE  DeadInv'
  BY <1>0, <1>30, JobLockAssumption
  DEF TypeOK, PlaceInv, Leased, Exclusive, OwnInv, DeadInv, Locks, LeaseFails, Fault
<1>31. ASSUME NEW p \in Commands, EnterUnlocked(p)
      PROVE  DeadInv'
  BY <1>0, <1>31, JobLockAssumption
  DEF TypeOK, PlaceInv, Leased, Exclusive, OwnInv, DeadInv, Locks, EnterUnlocked, Fault
<1>32. ASSUME NEW p \in Commands, UnleaseFails(p)
       PROVE  DeadInv'
  BY <1>0, <1>32, JobLockAssumption
  DEF TypeOK, PlaceInv, Leased, Exclusive, OwnInv, DeadInv, Locks, UnleaseFails, Fault
<1>33. ASSUME NEW p \in Maintainers, ClimbUnlocked(p)
       PROVE  DeadInv'
  BY <1>0, <1>33, JobLockAssumption, LadderFacts
  DEF TypeOK, PlaceInv, Leased, Exclusive, OwnInv, DeadInv, Locks, ClimbUnlocked, Fault
<1>34. ASSUME NEW p \in Maintainers, ClimbFails(p)
       PROVE  DeadInv'
  BY <1>0, <1>34, JobLockAssumption, LadderFacts
  DEF TypeOK, PlaceInv, Leased, Exclusive, OwnInv, DeadInv, Locks, ClimbFails, Abandon,
      Fault
<1>35. ASSUME NEW p \in Maintainers, CheckFails(p)
       PROVE  DeadInv'
  BY <1>0, <1>35, JobLockAssumption, LadderFacts
  DEF TypeOK, PlaceInv, Leased, Exclusive, OwnInv, DeadInv, Locks, CheckFails, Checked,
      Enter, Fault
<1>28. CASE UNCHANGED vars
  BY <1>0, <1>28, JobLockAssumption
  DEF TypeOK, PlaceInv, Leased, Exclusive, OwnInv, DeadInv, Locks, vars
<1> QED
  BY <1>1, <1>2, <1>3, <1>4, <1>5, <1>6, <1>7, <1>8, <1>9, <1>10,
     <1>11, <1>12, <1>13, <1>14, <1>15, <1>16, <1>17, <1>18, <1>19, <1>20,
     <1>21, <1>22, <1>23, <1>24, <1>25, <1>26, <1>27, <1>28, <1>29, <1>30,
     <1>31, <1>32, <1>33, <1>34, <1>35
  DEF Next, Command, Maintain

\* A lease is there for as long as its command may write.
LEMMA NextLease == IInv /\ [Next]_vars => LeaseInv'
<1> SUFFICES ASSUME IInv, [Next]_vars
             PROVE  LeaseInv'
  OBVIOUS
<1> USE ProcsAssumption DEF At, Goto, Gone, Commands, Procs, Maintainers
<1>0. TypeOK /\ PlaceInv /\ HoldInv /\ LeaseInv /\ LeftInv /\ AloneInv /\ OpenInv
  BY DEF IInv
<1>1. ASSUME NEW p \in Commands, Begin(p)
      PROVE  LeaseInv'
  BY <1>0, <1>1 DEF TypeOK, PlaceInv, Leased, Exclusive, LeaseInv, LeftInv, Begin
<1>2. ASSUME NEW p \in Commands, ProbeTake(p)
      PROVE  LeaseInv'
  BY <1>0, <1>2, ProbeFacts
  DEF TypeOK, PlaceInv, Leased, Exclusive, LeaseInv, LeftInv, ProbeTake, Take,
      Free
<1>3. ASSUME NEW p \in Commands, ProbeDrop(p)
      PROVE  LeaseInv'
  BY <1>0, <1>3
  DEF TypeOK, PlaceInv, Leased, Exclusive, LeaseInv, LeftInv, ProbeDrop,
      AfterProbe, Release
<1>4. ASSUME NEW p \in Commands, ProbeTimeout(p)
      PROVE  LeaseInv'
  BY <1>0, <1>4, ProbeFacts
  DEF TypeOK, PlaceInv, Leased, Exclusive, LeaseInv, LeftInv, ProbeTimeout,
      Denied, Busy, Fault
<1>5. ASSUME NEW p \in Commands, Open(p)
      PROVE  LeaseInv'
  BY <1>0, <1>5 DEF TypeOK, PlaceInv, Leased, Exclusive, LeaseInv, LeftInv, Open
<1>6. ASSUME NEW p \in Commands, Prepare(p)
      PROVE  LeaseInv'
  BY <1>0, <1>6
  DEF TypeOK, PlaceInv, Leased, Exclusive, LeaseInv, LeftInv, Prepare, Take,
      Free
<1>7. ASSUME NEW p \in Commands, PrepareTimeout(p)
      PROVE  LeaseInv'
  BY <1>0, <1>7
  DEF TypeOK, PlaceInv, Leased, Exclusive, LeaseInv, LeftInv, PrepareTimeout,
      Denied, Busy, Fault
<1>8. ASSUME NEW p \in Commands, Prepared(p)
      PROVE  LeaseInv'
  BY <1>0, <1>8
  DEF TypeOK, PlaceInv, Leased, Exclusive, LeaseInv, LeftInv, Prepared,
      Release
<1>9. ASSUME NEW p \in Commands, Lease(p)
      PROVE  LeaseInv'
  BY <1>0, <1>9 DEF TypeOK, PlaceInv, Leased, Exclusive, LeaseInv, LeftInv, Lease
<1>10. ASSUME NEW p \in Commands, OpenEarly(p)
       PROVE  LeaseInv'
  BY <1>0, <1>10
  DEF TypeOK, PlaceInv, Leased, Exclusive, LeaseInv, LeftInv, OpenEarly
<1>11. ASSUME NEW p \in Commands, EnterJob(p)
       PROVE  LeaseInv'
  BY <1>0, <1>11
  DEF TypeOK, PlaceInv, Leased, Exclusive, LeaseInv, LeftInv, EnterJob, Take,
      Free
<1>12. ASSUME NEW p \in Commands, SkipJob(p)
       PROVE  LeaseInv'
  BY <1>0, <1>12 DEF TypeOK, PlaceInv, Leased, Exclusive, LeaseInv, LeftInv, SkipJob
<1>13. ASSUME NEW p \in Commands, Finish(p)
       PROVE  LeaseInv'
  BY <1>0, <1>13
  DEF TypeOK, PlaceInv, Leased, Exclusive, LeaseInv, LeftInv, Finish, Release
<1>14. ASSUME NEW p \in Commands, Unlease(p)
       PROVE  LeaseInv'
  BY <1>0, <1>14 DEF TypeOK, PlaceInv, Leased, Exclusive, LeaseInv, LeftInv, Unlease
<1>15. ASSUME NEW p \in Commands, Close(p)
       PROVE  LeaseInv'
  BY <1>0, <1>15 DEF TypeOK, PlaceInv, Leased, Exclusive, LeaseInv, LeftInv, Close
<1>16. ASSUME NEW p \in Maintainers, BeginMaintenance(p)
       PROVE  LeaseInv'
  BY <1>0, <1>16
  DEF TypeOK, PlaceInv, Leased, Exclusive, LeaseInv, LeftInv, BeginMaintenance
<1>17. ASSUME NEW p \in Maintainers, Climb(p)
       PROVE  LeaseInv'
  BY <1>0, <1>17, LadderFacts
  DEF TypeOK, PlaceInv, Leased, Exclusive, LeaseInv, LeftInv, Climb, Take,
      Free
<1>18. ASSUME NEW p \in Maintainers, Refuse(p)
       PROVE  LeaseInv'
  BY <1>0, <1>18, LadderFacts
  DEF TypeOK, PlaceInv, Leased, Exclusive, LeaseInv, LeftInv, Refuse, Busy
<1>19. ASSUME NEW p \in Maintainers, CheckLeases(p)
       PROVE  LeaseInv'
  BY <1>0, <1>19, LadderFacts
  DEF TypeOK, PlaceInv, Leased, Exclusive, LeaseInv, LeftInv, CheckLeases,
      Checked, Enter
<1>20. ASSUME NEW p \in Maintainers, RestoreFails(p)
       PROVE  LeaseInv'
  BY <1>0, <1>20
  DEF TypeOK, PlaceInv, Leased, Exclusive, LeaseInv, LeftInv, RestoreFails
<1>21. ASSUME NEW p \in Maintainers, Destroy(p)
       PROVE  LeaseInv'
  BY <1>0, <1>21 DEF TypeOK, PlaceInv, Leased, Exclusive, LeaseInv, LeftInv, Destroy
<1>22. ASSUME NEW p \in Maintainers, Copy(p)
       PROVE  LeaseInv'
  BY <1>0, <1>22 DEF TypeOK, PlaceInv, Leased, Exclusive, LeaseInv, LeftInv, Copy
<1>23. ASSUME NEW p \in Maintainers, EndMaintenance(p)
       PROVE  LeaseInv'
  BY <1>0, <1>23
  DEF TypeOK, PlaceInv, Leased, Exclusive, LeaseInv, LeftInv, EndMaintenance
<1>24. ASSUME NEW p \in Maintainers, Descend(p)
       PROVE  LeaseInv'
  BY <1>0, <1>24, LadderFacts
  DEF TypeOK, PlaceInv, Leased, Exclusive, LeaseInv, LeftInv, Descend, Release
<1>25. ASSUME NEW p \in Procs, Crash(p)
       PROVE  LeaseInv'
  BY <1>0, <1>25
  DEF TypeOK, PlaceInv, Leased, Exclusive, LeaseInv, LeftInv, Crash, Abandon,
      Fault
<1>26. ASSUME NEW p \in Procs, AgeLease(p)
       PROVE  LeaseInv'
  BY <1>0, <1>26
  DEF TypeOK, PlaceInv, Leased, Exclusive, LeaseInv, LeftInv, AgeLease, Fault
<1>27. ASSUME NEW l \in Locks, Overrun(l)
       PROVE  LeaseInv'
  BY <1>0, <1>27
  DEF TypeOK, PlaceInv, Leased, Exclusive, LeaseInv, LeftInv, Overrun, Fault
<1>29. ASSUME NEW p \in Commands, LeaseStays(p)
      PROVE  LeaseInv'
  BY <1>0, <1>29
  DEF TypeOK, PlaceInv, Leased, Exclusive, LeaseInv, LeftInv, LeaseStays, Fault
<1>30. ASSUME NEW p \in Commands, LeaseFails(p)
      PROVE  LeaseInv'
  BY <1>0, <1>30
  DEF TypeOK, PlaceInv, Leased, Exclusive, LeaseInv, LeftInv, LeaseFails, Fault
<1>31. ASSUME NEW p \in Commands, EnterUnlocked(p)
      PROVE  LeaseInv'
  BY <1>0, <1>31
  DEF TypeOK, PlaceInv, Leased, Exclusive, LeaseInv, LeftInv, EnterUnlocked,
      Fault
<1>32. ASSUME NEW p \in Commands, UnleaseFails(p)
       PROVE  LeaseInv'
  BY <1>0, <1>32
  DEF TypeOK, PlaceInv, Leased, Exclusive, LeaseInv, LeftInv, UnleaseFails,
      Fault
<1>33. ASSUME NEW p \in Maintainers, ClimbUnlocked(p)
       PROVE  LeaseInv'
  BY <1>0, <1>33, LadderFacts
  DEF TypeOK, PlaceInv, Leased, Exclusive, LeaseInv, LeftInv, ClimbUnlocked,
      Fault
<1>34. ASSUME NEW p \in Maintainers, ClimbFails(p)
       PROVE  LeaseInv'
  BY <1>0, <1>34, LadderFacts
  DEF TypeOK, PlaceInv, Leased, Exclusive, LeaseInv, LeftInv, ClimbFails,
      Abandon, Fault
<1>35. ASSUME NEW p \in Maintainers, CheckFails(p)
       PROVE  LeaseInv'
  BY <1>0, <1>35, LadderFacts
  DEF TypeOK, PlaceInv, Leased, Exclusive, LeaseInv, LeftInv, CheckFails,
      Checked, Enter, Fault
<1>28. CASE UNCHANGED vars
  BY <1>0, <1>28 DEF TypeOK, PlaceInv, Leased, Exclusive, LeaseInv, LeftInv, vars
<1> QED
  BY <1>1, <1>2, <1>3, <1>4, <1>5, <1>6, <1>7, <1>8, <1>9, <1>10,
     <1>11, <1>12, <1>13, <1>14, <1>15, <1>16, <1>17, <1>18, <1>19, <1>20,
     <1>21, <1>22, <1>23, <1>24, <1>25, <1>26, <1>27, <1>28, <1>29, <1>30,
     <1>31, <1>32, <1>33, <1>34, <1>35
  DEF Next, Command, Maintain

\* A lease is the lease of a command that will give it back.
LEMMA NextLeft == IInv /\ [Next]_vars => LeftInv'
<1> SUFFICES ASSUME IInv, [Next]_vars
             PROVE  LeftInv'
  OBVIOUS
<1> USE ProcsAssumption DEF At, Goto, Gone, Commands, Procs, Maintainers
<1>0. TypeOK /\ PlaceInv /\ HoldInv /\ LeaseInv /\ LeftInv /\ AloneInv /\ OpenInv
  BY DEF IInv
<1>1. ASSUME NEW p \in Commands, Begin(p)
      PROVE  LeftInv'
  BY <1>0, <1>1 DEF TypeOK, PlaceInv, Leased, Exclusive, LeftInv, Begin
<1>2. ASSUME NEW p \in Commands, ProbeTake(p)
      PROVE  LeftInv'
  BY <1>0, <1>2, ProbeFacts
  DEF TypeOK, PlaceInv, Leased, Exclusive, LeftInv, ProbeTake, Take, Free
<1>3. ASSUME NEW p \in Commands, ProbeDrop(p)
      PROVE  LeftInv'
  BY <1>0, <1>3
  DEF TypeOK, PlaceInv, Leased, Exclusive, LeftInv, ProbeDrop, AfterProbe,
      Release
<1>4. ASSUME NEW p \in Commands, ProbeTimeout(p)
      PROVE  LeftInv'
  BY <1>0, <1>4, ProbeFacts
  DEF TypeOK, PlaceInv, Leased, Exclusive, LeftInv, ProbeTimeout, Denied, Busy,
      Fault
<1>5. ASSUME NEW p \in Commands, Open(p)
      PROVE  LeftInv'
  BY <1>0, <1>5 DEF TypeOK, PlaceInv, Leased, Exclusive, LeftInv, Open
<1>6. ASSUME NEW p \in Commands, Prepare(p)
      PROVE  LeftInv'
  BY <1>0, <1>6
  DEF TypeOK, PlaceInv, Leased, Exclusive, LeftInv, Prepare, Take, Free
<1>7. ASSUME NEW p \in Commands, PrepareTimeout(p)
      PROVE  LeftInv'
  BY <1>0, <1>7
  DEF TypeOK, PlaceInv, Leased, Exclusive, LeftInv, PrepareTimeout, Denied,
      Busy, Fault
<1>8. ASSUME NEW p \in Commands, Prepared(p)
      PROVE  LeftInv'
  BY <1>0, <1>8 DEF TypeOK, PlaceInv, Leased, Exclusive, LeftInv, Prepared, Release
<1>9. ASSUME NEW p \in Commands, Lease(p)
      PROVE  LeftInv'
  BY <1>0, <1>9 DEF TypeOK, PlaceInv, Leased, Exclusive, LeftInv, Lease
<1>10. ASSUME NEW p \in Commands, OpenEarly(p)
       PROVE  LeftInv'
  BY <1>0, <1>10 DEF TypeOK, PlaceInv, Leased, Exclusive, LeftInv, OpenEarly
<1>11. ASSUME NEW p \in Commands, EnterJob(p)
       PROVE  LeftInv'
  BY <1>0, <1>11
  DEF TypeOK, PlaceInv, Leased, Exclusive, LeftInv, EnterJob, Take, Free
<1>12. ASSUME NEW p \in Commands, SkipJob(p)
       PROVE  LeftInv'
  BY <1>0, <1>12 DEF TypeOK, PlaceInv, Leased, Exclusive, LeftInv, SkipJob
<1>13. ASSUME NEW p \in Commands, Finish(p)
       PROVE  LeftInv'
  BY <1>0, <1>13 DEF TypeOK, PlaceInv, Leased, Exclusive, LeftInv, Finish, Release
<1>14. ASSUME NEW p \in Commands, Unlease(p)
       PROVE  LeftInv'
  BY <1>0, <1>14 DEF TypeOK, PlaceInv, Leased, Exclusive, LeftInv, Unlease
<1>15. ASSUME NEW p \in Commands, Close(p)
       PROVE  LeftInv'
  BY <1>0, <1>15 DEF TypeOK, PlaceInv, Leased, Exclusive, LeftInv, Close
<1>16. ASSUME NEW p \in Maintainers, BeginMaintenance(p)
       PROVE  LeftInv'
  BY <1>0, <1>16 DEF TypeOK, PlaceInv, Leased, Exclusive, LeftInv, BeginMaintenance
<1>17. ASSUME NEW p \in Maintainers, Climb(p)
       PROVE  LeftInv'
  BY <1>0, <1>17, LadderFacts
  DEF TypeOK, PlaceInv, Leased, Exclusive, LeftInv, Climb, Take, Free
<1>18. ASSUME NEW p \in Maintainers, Refuse(p)
       PROVE  LeftInv'
  BY <1>0, <1>18, LadderFacts
  DEF TypeOK, PlaceInv, Leased, Exclusive, LeftInv, Refuse, Busy
<1>19. ASSUME NEW p \in Maintainers, CheckLeases(p)
       PROVE  LeftInv'
  BY <1>0, <1>19, LadderFacts
  DEF TypeOK, PlaceInv, Leased, Exclusive, LeftInv, CheckLeases, Checked, Enter
<1>20. ASSUME NEW p \in Maintainers, RestoreFails(p)
       PROVE  LeftInv'
  BY <1>0, <1>20 DEF TypeOK, PlaceInv, Leased, Exclusive, LeftInv, RestoreFails
<1>21. ASSUME NEW p \in Maintainers, Destroy(p)
       PROVE  LeftInv'
  BY <1>0, <1>21 DEF TypeOK, PlaceInv, Leased, Exclusive, LeftInv, Destroy
<1>22. ASSUME NEW p \in Maintainers, Copy(p)
       PROVE  LeftInv'
  BY <1>0, <1>22 DEF TypeOK, PlaceInv, Leased, Exclusive, LeftInv, Copy
<1>23. ASSUME NEW p \in Maintainers, EndMaintenance(p)
       PROVE  LeftInv'
  BY <1>0, <1>23 DEF TypeOK, PlaceInv, Leased, Exclusive, LeftInv, EndMaintenance
<1>24. ASSUME NEW p \in Maintainers, Descend(p)
       PROVE  LeftInv'
  BY <1>0, <1>24, LadderFacts
  DEF TypeOK, PlaceInv, Leased, Exclusive, LeftInv, Descend, Release
<1>25. ASSUME NEW p \in Procs, Crash(p)
       PROVE  LeftInv'
  BY <1>0, <1>25
  DEF TypeOK, PlaceInv, Leased, Exclusive, LeftInv, Crash, Abandon, Fault
<1>26. ASSUME NEW p \in Procs, AgeLease(p)
       PROVE  LeftInv'
  BY <1>0, <1>26 DEF TypeOK, PlaceInv, Leased, Exclusive, LeftInv, AgeLease, Fault
<1>27. ASSUME NEW l \in Locks, Overrun(l)
       PROVE  LeftInv'
  BY <1>0, <1>27 DEF TypeOK, PlaceInv, Leased, Exclusive, LeftInv, Overrun, Fault
<1>29. ASSUME NEW p \in Commands, LeaseStays(p)
      PROVE  LeftInv'
  BY <1>0, <1>29
  DEF TypeOK, PlaceInv, Leased, Exclusive, LeftInv, LeaseStays, Fault
<1>30. ASSUME NEW p \in Commands, LeaseFails(p)
      PROVE  LeftInv'
  BY <1>0, <1>30
  DEF TypeOK, PlaceInv, Leased, Exclusive, LeftInv, LeaseFails, Fault
<1>31. ASSUME NEW p \in Commands, EnterUnlocked(p)
      PROVE  LeftInv'
  BY <1>0, <1>31
  DEF TypeOK, PlaceInv, Leased, Exclusive, LeftInv, EnterUnlocked, Fault
<1>32. ASSUME NEW p \in Commands, UnleaseFails(p)
       PROVE  LeftInv'
  BY <1>0, <1>32
  DEF TypeOK, PlaceInv, Leased, Exclusive, LeftInv, UnleaseFails, Fault
<1>33. ASSUME NEW p \in Maintainers, ClimbUnlocked(p)
       PROVE  LeftInv'
  BY <1>0, <1>33, LadderFacts
  DEF TypeOK, PlaceInv, Leased, Exclusive, LeftInv, ClimbUnlocked, Fault
<1>34. ASSUME NEW p \in Maintainers, ClimbFails(p)
       PROVE  LeftInv'
  BY <1>0, <1>34, LadderFacts
  DEF TypeOK, PlaceInv, Leased, Exclusive, LeftInv, ClimbFails, Abandon, Fault
<1>35. ASSUME NEW p \in Maintainers, CheckFails(p)
       PROVE  LeftInv'
  BY <1>0, <1>35, LadderFacts
  DEF TypeOK, PlaceInv, Leased, Exclusive, LeftInv, CheckFails, Checked, Enter,
      Fault
<1>28. CASE UNCHANGED vars
  BY <1>0, <1>28 DEF TypeOK, PlaceInv, Leased, Exclusive, LeftInv, vars
<1> QED
  BY <1>1, <1>2, <1>3, <1>4, <1>5, <1>6, <1>7, <1>8, <1>9, <1>10,
     <1>11, <1>12, <1>13, <1>14, <1>15, <1>16, <1>17, <1>18, <1>19, <1>20,
     <1>21, <1>22, <1>23, <1>24, <1>25, <1>26, <1>27, <1>28, <1>29, <1>30,
     <1>31, <1>32, <1>33, <1>34, <1>35
  DEF Next, Command, Maintain

\* Of a command and a maintainer one sees the other.
LEMMA NextAlone == IInv /\ [Next]_vars => AloneInv'
<1> SUFFICES ASSUME IInv, [Next]_vars
             PROVE  AloneInv'
  OBVIOUS
<1> USE ProcsAssumption DEF At, Goto, Gone, Commands, Procs, Maintainers
<1>0. TypeOK /\ PlaceInv /\ HoldInv /\ LeaseInv /\ LeftInv /\ AloneInv /\ OpenInv
  BY DEF IInv
<1>1. ASSUME NEW p \in Commands, Begin(p)
      PROVE  AloneInv'
  BY <1>0, <1>1
  DEF TypeOK, PlaceInv, Leased, Exclusive, HoldInv, LeaseInv, AloneInv, Begin
<1>2. ASSUME NEW p \in Commands, ProbeTake(p)
      PROVE  AloneInv'
  BY <1>0, <1>2, ProbeFacts
  DEF TypeOK, PlaceInv, Leased, Exclusive, HoldInv, LeaseInv, AloneInv,
      ProbeTake, Take, Free
<1>3. ASSUME NEW p \in Commands, ProbeDrop(p)
      PROVE  AloneInv'
  BY <1>0, <1>3
  DEF TypeOK, PlaceInv, Leased, Exclusive, HoldInv, LeaseInv, AloneInv,
      ProbeDrop, AfterProbe, Release
<1>4. ASSUME NEW p \in Commands, ProbeTimeout(p)
      PROVE  AloneInv'
  BY <1>0, <1>4, ProbeFacts
  DEF TypeOK, PlaceInv, Leased, Exclusive, HoldInv, LeaseInv, AloneInv,
      ProbeTimeout, Denied, Busy, Fault
<1>5. ASSUME NEW p \in Commands, Open(p)
      PROVE  AloneInv'
  BY <1>0, <1>5
  DEF TypeOK, PlaceInv, Leased, Exclusive, HoldInv, LeaseInv, AloneInv, Open
<1>6. ASSUME NEW p \in Commands, Prepare(p)
      PROVE  AloneInv'
  BY <1>0, <1>6
  DEF TypeOK, PlaceInv, Leased, Exclusive, HoldInv, LeaseInv, AloneInv,
      Prepare, Take, Free
<1>7. ASSUME NEW p \in Commands, PrepareTimeout(p)
      PROVE  AloneInv'
  BY <1>0, <1>7
  DEF TypeOK, PlaceInv, Leased, Exclusive, HoldInv, LeaseInv, AloneInv,
      PrepareTimeout, Denied, Busy, Fault
<1>8. ASSUME NEW p \in Commands, Prepared(p)
      PROVE  AloneInv'
  BY <1>0, <1>8
  DEF TypeOK, PlaceInv, Leased, Exclusive, HoldInv, LeaseInv, AloneInv,
      Prepared, Release
<1>9. ASSUME NEW p \in Commands, Lease(p)
      PROVE  AloneInv'
  BY <1>0, <1>9
  DEF TypeOK, PlaceInv, Leased, Exclusive, HoldInv, LeaseInv, AloneInv, Lease
<1>10. ASSUME NEW p \in Commands, OpenEarly(p)
       PROVE  AloneInv'
  BY <1>0, <1>10
  DEF TypeOK, PlaceInv, Leased, Exclusive, HoldInv, LeaseInv, AloneInv,
      OpenEarly
<1>11. ASSUME NEW p \in Commands, EnterJob(p)
       PROVE  AloneInv'
  BY <1>0, <1>11
  DEF TypeOK, PlaceInv, Leased, Exclusive, HoldInv, LeaseInv, AloneInv,
      EnterJob, Take, Free
<1>12. ASSUME NEW p \in Commands, SkipJob(p)
       PROVE  AloneInv'
  BY <1>0, <1>12
  DEF TypeOK, PlaceInv, Leased, Exclusive, HoldInv, LeaseInv, AloneInv,
      SkipJob
<1>13. ASSUME NEW p \in Commands, Finish(p)
       PROVE  AloneInv'
  BY <1>0, <1>13
  DEF TypeOK, PlaceInv, Leased, Exclusive, HoldInv, LeaseInv, AloneInv, Finish,
      Release
<1>14. ASSUME NEW p \in Commands, Unlease(p)
       PROVE  AloneInv'
  BY <1>0, <1>14
  DEF TypeOK, PlaceInv, Leased, Exclusive, HoldInv, LeaseInv, AloneInv,
      Unlease
<1>15. ASSUME NEW p \in Commands, Close(p)
       PROVE  AloneInv'
  BY <1>0, <1>15
  DEF TypeOK, PlaceInv, Leased, Exclusive, HoldInv, LeaseInv, AloneInv, Close
<1>16. ASSUME NEW p \in Maintainers, BeginMaintenance(p)
       PROVE  AloneInv'
  BY <1>0, <1>16
  DEF TypeOK, PlaceInv, Leased, Exclusive, HoldInv, LeaseInv, AloneInv,
      BeginMaintenance
<1>17. ASSUME NEW p \in Maintainers, Climb(p)
       PROVE  AloneInv'
  BY <1>0, <1>17, LadderFacts
  DEF TypeOK, PlaceInv, Leased, Exclusive, HoldInv, LeaseInv, AloneInv, Climb,
      Take, Free
<1>18. ASSUME NEW p \in Maintainers, Refuse(p)
       PROVE  AloneInv'
  BY <1>0, <1>18, LadderFacts
  DEF TypeOK, PlaceInv, Leased, Exclusive, HoldInv, LeaseInv, AloneInv, Refuse,
      Busy
<1>19. ASSUME NEW p \in Maintainers, CheckLeases(p)
       PROVE  AloneInv'
  BY <1>0, <1>19, LadderFacts
  DEF TypeOK, PlaceInv, Leased, Exclusive, HoldInv, LeaseInv, AloneInv,
      CheckLeases, Checked, Enter
<1>20. ASSUME NEW p \in Maintainers, RestoreFails(p)
       PROVE  AloneInv'
  BY <1>0, <1>20
  DEF TypeOK, PlaceInv, Leased, Exclusive, HoldInv, LeaseInv, AloneInv,
      RestoreFails
<1>21. ASSUME NEW p \in Maintainers, Destroy(p)
       PROVE  AloneInv'
  BY <1>0, <1>21
  DEF TypeOK, PlaceInv, Leased, Exclusive, HoldInv, LeaseInv, AloneInv,
      Destroy
<1>22. ASSUME NEW p \in Maintainers, Copy(p)
       PROVE  AloneInv'
  BY <1>0, <1>22
  DEF TypeOK, PlaceInv, Leased, Exclusive, HoldInv, LeaseInv, AloneInv, Copy
<1>23. ASSUME NEW p \in Maintainers, EndMaintenance(p)
       PROVE  AloneInv'
  BY <1>0, <1>23
  DEF TypeOK, PlaceInv, Leased, Exclusive, HoldInv, LeaseInv, AloneInv,
      EndMaintenance
<1>24. ASSUME NEW p \in Maintainers, Descend(p)
       PROVE  AloneInv'
  BY <1>0, <1>24, LadderFacts
  DEF TypeOK, PlaceInv, Leased, Exclusive, HoldInv, LeaseInv, AloneInv,
      Descend, Release
<1>25. ASSUME NEW p \in Procs, Crash(p)
       PROVE  AloneInv'
  BY <1>0, <1>25
  DEF TypeOK, PlaceInv, Leased, Exclusive, HoldInv, LeaseInv, AloneInv, Crash,
      Abandon, Fault
<1>26. ASSUME NEW p \in Procs, AgeLease(p)
       PROVE  AloneInv'
  BY <1>0, <1>26
  DEF TypeOK, PlaceInv, Leased, Exclusive, HoldInv, LeaseInv, AloneInv,
      AgeLease, Fault
<1>27. ASSUME NEW l \in Locks, Overrun(l)
       PROVE  AloneInv'
  BY <1>0, <1>27
  DEF TypeOK, PlaceInv, Leased, Exclusive, HoldInv, LeaseInv, AloneInv,
      Overrun, Fault
<1>29. ASSUME NEW p \in Commands, LeaseStays(p)
      PROVE  AloneInv'
  BY <1>0, <1>29
  DEF TypeOK, PlaceInv, Leased, Exclusive, HoldInv, LeaseInv, AloneInv,
      LeaseStays, Fault
<1>30. ASSUME NEW p \in Commands, LeaseFails(p)
      PROVE  AloneInv'
  BY <1>0, <1>30
  DEF TypeOK, PlaceInv, Leased, Exclusive, HoldInv, LeaseInv, AloneInv,
      LeaseFails, Fault
<1>31. ASSUME NEW p \in Commands, EnterUnlocked(p)
      PROVE  AloneInv'
  BY <1>0, <1>31
  DEF TypeOK, PlaceInv, Leased, Exclusive, HoldInv, LeaseInv, AloneInv,
      EnterUnlocked, Fault
<1>32. ASSUME NEW p \in Commands, UnleaseFails(p)
       PROVE  AloneInv'
  BY <1>0, <1>32
  DEF TypeOK, PlaceInv, Leased, Exclusive, HoldInv, LeaseInv, AloneInv,
      UnleaseFails, Fault
<1>33. ASSUME NEW p \in Maintainers, ClimbUnlocked(p)
       PROVE  AloneInv'
  BY <1>0, <1>33, LadderFacts
  DEF TypeOK, PlaceInv, Leased, Exclusive, HoldInv, LeaseInv, AloneInv,
      ClimbUnlocked, Fault
<1>34. ASSUME NEW p \in Maintainers, ClimbFails(p)
       PROVE  AloneInv'
  BY <1>0, <1>34, LadderFacts
  DEF TypeOK, PlaceInv, Leased, Exclusive, HoldInv, LeaseInv, AloneInv,
      ClimbFails, Abandon, Fault
<1>35. ASSUME NEW p \in Maintainers, CheckFails(p)
       PROVE  AloneInv'
  <2>1. PICK live \in {{}, leases \ oldLeases} :
          /\ Checked(p, live)
          /\ unguarded' = (unguarded \/ live # leases \ oldLeases)
    BY <1>35 DEF CheckFails
  <2>2. CASE live = leases \ oldLeases
    BY <1>0, <1>35, <2>1, <2>2, LadderFacts
    DEF TypeOK, PlaceInv, Leased, Exclusive, HoldInv, LeaseInv, AloneInv,
        CheckFails, Checked, Enter
  <2>3. CASE live # leases \ oldLeases
    BY <2>1, <2>3 DEF AloneInv
  <2> QED
    BY <2>2, <2>3
<1>28. CASE UNCHANGED vars
  BY <1>0, <1>28
  DEF TypeOK, PlaceInv, Leased, Exclusive, HoldInv, LeaseInv, AloneInv, vars
<1> QED
  BY <1>1, <1>2, <1>3, <1>4, <1>5, <1>6, <1>7, <1>8, <1>9, <1>10,
     <1>11, <1>12, <1>13, <1>14, <1>15, <1>16, <1>17, <1>18, <1>19, <1>20,
     <1>21, <1>22, <1>23, <1>24, <1>25, <1>26, <1>27, <1>28, <1>29, <1>30,
     <1>31, <1>32, <1>33, <1>34, <1>35
  DEF Next, Command, Maintain

\* The store is open only under the lease.
LEMMA NextOpen == IInv /\ [Next]_vars => OpenInv'
<1> SUFFICES ASSUME IInv, [Next]_vars
             PROVE  OpenInv'
  OBVIOUS
<1> USE ProcsAssumption DEF At, Goto, Gone, Commands, Procs, Maintainers
<1>0. TypeOK /\ PlaceInv /\ HoldInv /\ LeaseInv /\ LeftInv /\ AloneInv /\ OpenInv
  BY DEF IInv
<1>1. ASSUME NEW p \in Commands, Begin(p)
      PROVE  OpenInv'
  BY <1>0, <1>1 DEF TypeOK, PlaceInv, Leased, Exclusive, OpenInv, Begin
<1>2. ASSUME NEW p \in Commands, ProbeTake(p)
      PROVE  OpenInv'
  BY <1>0, <1>2, ProbeFacts
  DEF TypeOK, PlaceInv, Leased, Exclusive, OpenInv, ProbeTake, Take, Free
<1>3. ASSUME NEW p \in Commands, ProbeDrop(p)
      PROVE  OpenInv'
  BY <1>0, <1>3
  DEF TypeOK, PlaceInv, Leased, Exclusive, OpenInv, ProbeDrop, AfterProbe,
      Release
<1>4. ASSUME NEW p \in Commands, ProbeTimeout(p)
      PROVE  OpenInv'
  BY <1>0, <1>4, ProbeFacts
  DEF TypeOK, PlaceInv, Leased, Exclusive, OpenInv, ProbeTimeout, Denied, Busy,
      Fault
<1>5. ASSUME NEW p \in Commands, Open(p)
      PROVE  OpenInv'
  BY <1>0, <1>5 DEF TypeOK, PlaceInv, Leased, Exclusive, OpenInv, Open
<1>6. ASSUME NEW p \in Commands, Prepare(p)
      PROVE  OpenInv'
  BY <1>0, <1>6
  DEF TypeOK, PlaceInv, Leased, Exclusive, OpenInv, Prepare, Take, Free
<1>7. ASSUME NEW p \in Commands, PrepareTimeout(p)
      PROVE  OpenInv'
  BY <1>0, <1>7
  DEF TypeOK, PlaceInv, Leased, Exclusive, OpenInv, PrepareTimeout, Denied,
      Busy, Fault
<1>8. ASSUME NEW p \in Commands, Prepared(p)
      PROVE  OpenInv'
  BY <1>0, <1>8 DEF TypeOK, PlaceInv, Leased, Exclusive, OpenInv, Prepared, Release
<1>9. ASSUME NEW p \in Commands, Lease(p)
      PROVE  OpenInv'
  BY <1>0, <1>9 DEF TypeOK, PlaceInv, Leased, Exclusive, OpenInv, Lease
<1>10. ASSUME NEW p \in Commands, OpenEarly(p)
       PROVE  OpenInv'
  BY <1>0, <1>10 DEF TypeOK, PlaceInv, Leased, Exclusive, OpenInv, OpenEarly
<1>11. ASSUME NEW p \in Commands, EnterJob(p)
       PROVE  OpenInv'
  BY <1>0, <1>11
  DEF TypeOK, PlaceInv, Leased, Exclusive, OpenInv, EnterJob, Take, Free
<1>12. ASSUME NEW p \in Commands, SkipJob(p)
       PROVE  OpenInv'
  BY <1>0, <1>12 DEF TypeOK, PlaceInv, Leased, Exclusive, OpenInv, SkipJob
<1>13. ASSUME NEW p \in Commands, Finish(p)
       PROVE  OpenInv'
  BY <1>0, <1>13 DEF TypeOK, PlaceInv, Leased, Exclusive, OpenInv, Finish, Release
<1>14. ASSUME NEW p \in Commands, Unlease(p)
       PROVE  OpenInv'
  BY <1>0, <1>14 DEF TypeOK, PlaceInv, Leased, Exclusive, OpenInv, Unlease
<1>15. ASSUME NEW p \in Commands, Close(p)
       PROVE  OpenInv'
  BY <1>0, <1>15 DEF TypeOK, PlaceInv, Leased, Exclusive, OpenInv, Close
<1>16. ASSUME NEW p \in Maintainers, BeginMaintenance(p)
       PROVE  OpenInv'
  BY <1>0, <1>16 DEF TypeOK, PlaceInv, Leased, Exclusive, OpenInv, BeginMaintenance
<1>17. ASSUME NEW p \in Maintainers, Climb(p)
       PROVE  OpenInv'
  BY <1>0, <1>17, LadderFacts
  DEF TypeOK, PlaceInv, Leased, Exclusive, OpenInv, Climb, Take, Free
<1>18. ASSUME NEW p \in Maintainers, Refuse(p)
       PROVE  OpenInv'
  BY <1>0, <1>18, LadderFacts
  DEF TypeOK, PlaceInv, Leased, Exclusive, OpenInv, Refuse, Busy
<1>19. ASSUME NEW p \in Maintainers, CheckLeases(p)
       PROVE  OpenInv'
  BY <1>0, <1>19, LadderFacts
  DEF TypeOK, PlaceInv, Leased, Exclusive, OpenInv, CheckLeases, Checked, Enter
<1>20. ASSUME NEW p \in Maintainers, RestoreFails(p)
       PROVE  OpenInv'
  BY <1>0, <1>20 DEF TypeOK, PlaceInv, Leased, Exclusive, OpenInv, RestoreFails
<1>21. ASSUME NEW p \in Maintainers, Destroy(p)
       PROVE  OpenInv'
  BY <1>0, <1>21 DEF TypeOK, PlaceInv, Leased, Exclusive, OpenInv, Destroy
<1>22. ASSUME NEW p \in Maintainers, Copy(p)
       PROVE  OpenInv'
  BY <1>0, <1>22 DEF TypeOK, PlaceInv, Leased, Exclusive, OpenInv, Copy
<1>23. ASSUME NEW p \in Maintainers, EndMaintenance(p)
       PROVE  OpenInv'
  BY <1>0, <1>23 DEF TypeOK, PlaceInv, Leased, Exclusive, OpenInv, EndMaintenance
<1>24. ASSUME NEW p \in Maintainers, Descend(p)
       PROVE  OpenInv'
  BY <1>0, <1>24, LadderFacts
  DEF TypeOK, PlaceInv, Leased, Exclusive, OpenInv, Descend, Release
<1>25. ASSUME NEW p \in Procs, Crash(p)
       PROVE  OpenInv'
  BY <1>0, <1>25
  DEF TypeOK, PlaceInv, Leased, Exclusive, OpenInv, Crash, Abandon, Fault
<1>26. ASSUME NEW p \in Procs, AgeLease(p)
       PROVE  OpenInv'
  BY <1>0, <1>26 DEF TypeOK, PlaceInv, Leased, Exclusive, OpenInv, AgeLease, Fault
<1>27. ASSUME NEW l \in Locks, Overrun(l)
       PROVE  OpenInv'
  BY <1>0, <1>27 DEF TypeOK, PlaceInv, Leased, Exclusive, OpenInv, Overrun, Fault
<1>29. ASSUME NEW p \in Commands, LeaseStays(p)
      PROVE  OpenInv'
  BY <1>0, <1>29
  DEF TypeOK, PlaceInv, Leased, Exclusive, OpenInv, LeaseStays, Fault
<1>30. ASSUME NEW p \in Commands, LeaseFails(p)
      PROVE  OpenInv'
  BY <1>0, <1>30
  DEF TypeOK, PlaceInv, Leased, Exclusive, OpenInv, LeaseFails, Fault
<1>31. ASSUME NEW p \in Commands, EnterUnlocked(p)
      PROVE  OpenInv'
  BY <1>0, <1>31
  DEF TypeOK, PlaceInv, Leased, Exclusive, OpenInv, EnterUnlocked, Fault
<1>32. ASSUME NEW p \in Commands, UnleaseFails(p)
       PROVE  OpenInv'
  BY <1>0, <1>32
  DEF TypeOK, PlaceInv, Leased, Exclusive, OpenInv, UnleaseFails, Fault
<1>33. ASSUME NEW p \in Maintainers, ClimbUnlocked(p)
       PROVE  OpenInv'
  BY <1>0, <1>33, LadderFacts
  DEF TypeOK, PlaceInv, Leased, Exclusive, OpenInv, ClimbUnlocked, Fault
<1>34. ASSUME NEW p \in Maintainers, ClimbFails(p)
       PROVE  OpenInv'
  BY <1>0, <1>34, LadderFacts
  DEF TypeOK, PlaceInv, Leased, Exclusive, OpenInv, ClimbFails, Abandon, Fault
<1>35. ASSUME NEW p \in Maintainers, CheckFails(p)
       PROVE  OpenInv'
  BY <1>0, <1>35, LadderFacts
  DEF TypeOK, PlaceInv, Leased, Exclusive, OpenInv, CheckFails, Checked, Enter,
      Fault
<1>28. CASE UNCHANGED vars
  BY <1>0, <1>28 DEF TypeOK, PlaceInv, Leased, Exclusive, OpenInv, vars
<1> QED
  BY <1>1, <1>2, <1>3, <1>4, <1>5, <1>6, <1>7, <1>8, <1>9, <1>10,
     <1>11, <1>12, <1>13, <1>14, <1>15, <1>16, <1>17, <1>18, <1>19, <1>20,
     <1>21, <1>22, <1>23, <1>24, <1>25, <1>26, <1>27, <1>28, <1>29, <1>30,
     <1>31, <1>32, <1>33, <1>34, <1>35
  DEF Next, Command, Maintain

\* No restore replaces a store open under a lease.
LEMMA NextCurrent == IInv /\ [Next]_vars => EarlyWriterIsCurrent'
<1> SUFFICES ASSUME IInv, [Next]_vars
             PROVE  EarlyWriterIsCurrent'
  OBVIOUS
<1> USE ProcsAssumption DEF At, Goto, Gone, Commands, Procs, Maintainers
<1>0. /\ TypeOK /\ PlaceInv /\ HoldInv /\ LeaseInv /\ LeftInv /\ AloneInv /\ OpenInv
      /\ EarlyWriterIsCurrent
  BY DEF IInv
<1>1. ASSUME NEW p \in Commands, Begin(p)
      PROVE  EarlyWriterIsCurrent'
  BY <1>0, <1>1
  DEF TypeOK, PlaceInv, Leased, Exclusive, AloneInv, OpenInv,
      EarlyWriterIsCurrent, Begin
<1>2. ASSUME NEW p \in Commands, ProbeTake(p)
      PROVE  EarlyWriterIsCurrent'
  BY <1>0, <1>2, ProbeFacts
  DEF TypeOK, PlaceInv, Leased, Exclusive, AloneInv, OpenInv,
      EarlyWriterIsCurrent, ProbeTake, Take, Free
<1>3. ASSUME NEW p \in Commands, ProbeDrop(p)
      PROVE  EarlyWriterIsCurrent'
  BY <1>0, <1>3
  DEF TypeOK, PlaceInv, Leased, Exclusive, AloneInv, OpenInv,
      EarlyWriterIsCurrent, ProbeDrop, AfterProbe, Release
<1>4. ASSUME NEW p \in Commands, ProbeTimeout(p)
      PROVE  EarlyWriterIsCurrent'
  BY <1>0, <1>4, ProbeFacts
  DEF TypeOK, PlaceInv, Leased, Exclusive, AloneInv, OpenInv,
      EarlyWriterIsCurrent, ProbeTimeout, Denied, Busy, Fault
<1>5. ASSUME NEW p \in Commands, Open(p)
      PROVE  EarlyWriterIsCurrent'
  BY <1>0, <1>5
  DEF TypeOK, PlaceInv, Leased, Exclusive, AloneInv, OpenInv,
      EarlyWriterIsCurrent, Open
<1>6. ASSUME NEW p \in Commands, Prepare(p)
      PROVE  EarlyWriterIsCurrent'
  BY <1>0, <1>6
  DEF TypeOK, PlaceInv, Leased, Exclusive, AloneInv, OpenInv,
      EarlyWriterIsCurrent, Prepare, Take, Free
<1>7. ASSUME NEW p \in Commands, PrepareTimeout(p)
      PROVE  EarlyWriterIsCurrent'
  BY <1>0, <1>7
  DEF TypeOK, PlaceInv, Leased, Exclusive, AloneInv, OpenInv,
      EarlyWriterIsCurrent, PrepareTimeout, Denied, Busy, Fault
<1>8. ASSUME NEW p \in Commands, Prepared(p)
      PROVE  EarlyWriterIsCurrent'
  BY <1>0, <1>8
  DEF TypeOK, PlaceInv, Leased, Exclusive, AloneInv, OpenInv,
      EarlyWriterIsCurrent, Prepared, Release
<1>9. ASSUME NEW p \in Commands, Lease(p)
      PROVE  EarlyWriterIsCurrent'
  BY <1>0, <1>9
  DEF TypeOK, PlaceInv, Leased, Exclusive, AloneInv, OpenInv,
      EarlyWriterIsCurrent, Lease
<1>10. ASSUME NEW p \in Commands, OpenEarly(p)
       PROVE  EarlyWriterIsCurrent'
  BY <1>0, <1>10
  DEF TypeOK, PlaceInv, Leased, Exclusive, AloneInv, OpenInv,
      EarlyWriterIsCurrent, OpenEarly
<1>11. ASSUME NEW p \in Commands, EnterJob(p)
       PROVE  EarlyWriterIsCurrent'
  BY <1>0, <1>11
  DEF TypeOK, PlaceInv, Leased, Exclusive, AloneInv, OpenInv,
      EarlyWriterIsCurrent, EnterJob, Take, Free
<1>12. ASSUME NEW p \in Commands, SkipJob(p)
       PROVE  EarlyWriterIsCurrent'
  BY <1>0, <1>12
  DEF TypeOK, PlaceInv, Leased, Exclusive, AloneInv, OpenInv,
      EarlyWriterIsCurrent, SkipJob
<1>13. ASSUME NEW p \in Commands, Finish(p)
       PROVE  EarlyWriterIsCurrent'
  BY <1>0, <1>13
  DEF TypeOK, PlaceInv, Leased, Exclusive, AloneInv, OpenInv,
      EarlyWriterIsCurrent, Finish, Release
<1>14. ASSUME NEW p \in Commands, Unlease(p)
       PROVE  EarlyWriterIsCurrent'
  BY <1>0, <1>14
  DEF TypeOK, PlaceInv, Leased, Exclusive, AloneInv, OpenInv,
      EarlyWriterIsCurrent, Unlease
<1>15. ASSUME NEW p \in Commands, Close(p)
       PROVE  EarlyWriterIsCurrent'
  BY <1>0, <1>15
  DEF TypeOK, PlaceInv, Leased, Exclusive, AloneInv, OpenInv,
      EarlyWriterIsCurrent, Close
<1>16. ASSUME NEW p \in Maintainers, BeginMaintenance(p)
       PROVE  EarlyWriterIsCurrent'
  BY <1>0, <1>16
  DEF TypeOK, PlaceInv, Leased, Exclusive, AloneInv, OpenInv,
      EarlyWriterIsCurrent, BeginMaintenance
<1>17. ASSUME NEW p \in Maintainers, Climb(p)
       PROVE  EarlyWriterIsCurrent'
  BY <1>0, <1>17, LadderFacts
  DEF TypeOK, PlaceInv, Leased, Exclusive, AloneInv, OpenInv,
      EarlyWriterIsCurrent, Climb, Take, Free
<1>18. ASSUME NEW p \in Maintainers, Refuse(p)
       PROVE  EarlyWriterIsCurrent'
  BY <1>0, <1>18, LadderFacts
  DEF TypeOK, PlaceInv, Leased, Exclusive, AloneInv, OpenInv,
      EarlyWriterIsCurrent, Refuse, Busy
<1>19. ASSUME NEW p \in Maintainers, CheckLeases(p)
       PROVE  EarlyWriterIsCurrent'
  BY <1>0, <1>19, LadderFacts
  DEF TypeOK, PlaceInv, Leased, Exclusive, AloneInv, OpenInv,
      EarlyWriterIsCurrent, CheckLeases, Checked, Enter
<1>20. ASSUME NEW p \in Maintainers, RestoreFails(p)
       PROVE  EarlyWriterIsCurrent'
  BY <1>0, <1>20
  DEF TypeOK, PlaceInv, Leased, Exclusive, AloneInv, OpenInv,
      EarlyWriterIsCurrent, RestoreFails
<1>21. ASSUME NEW p \in Maintainers, Destroy(p)
       PROVE  EarlyWriterIsCurrent'
  BY <1>0, <1>21
  DEF TypeOK, PlaceInv, Leased, Exclusive, AloneInv, OpenInv,
      EarlyWriterIsCurrent, Destroy
<1>22. ASSUME NEW p \in Maintainers, Copy(p)
       PROVE  EarlyWriterIsCurrent'
  BY <1>0, <1>22
  DEF TypeOK, PlaceInv, Leased, Exclusive, AloneInv, OpenInv,
      EarlyWriterIsCurrent, Copy
<1>23. ASSUME NEW p \in Maintainers, EndMaintenance(p)
       PROVE  EarlyWriterIsCurrent'
  BY <1>0, <1>23
  DEF TypeOK, PlaceInv, Leased, Exclusive, AloneInv, OpenInv,
      EarlyWriterIsCurrent, EndMaintenance
<1>24. ASSUME NEW p \in Maintainers, Descend(p)
       PROVE  EarlyWriterIsCurrent'
  BY <1>0, <1>24, LadderFacts
  DEF TypeOK, PlaceInv, Leased, Exclusive, AloneInv, OpenInv,
      EarlyWriterIsCurrent, Descend, Release
<1>25. ASSUME NEW p \in Procs, Crash(p)
       PROVE  EarlyWriterIsCurrent'
  BY <1>0, <1>25
  DEF TypeOK, PlaceInv, Leased, Exclusive, AloneInv, OpenInv,
      EarlyWriterIsCurrent, Crash, Abandon, Fault
<1>26. ASSUME NEW p \in Procs, AgeLease(p)
       PROVE  EarlyWriterIsCurrent'
  BY <1>0, <1>26
  DEF TypeOK, PlaceInv, Leased, Exclusive, AloneInv, OpenInv,
      EarlyWriterIsCurrent, AgeLease, Fault
<1>27. ASSUME NEW l \in Locks, Overrun(l)
       PROVE  EarlyWriterIsCurrent'
  BY <1>0, <1>27
  DEF TypeOK, PlaceInv, Leased, Exclusive, AloneInv, OpenInv,
      EarlyWriterIsCurrent, Overrun, Fault
<1>29. ASSUME NEW p \in Commands, LeaseStays(p)
      PROVE  EarlyWriterIsCurrent'
  BY <1>0, <1>29
  DEF TypeOK, PlaceInv, Leased, Exclusive, AloneInv, OpenInv,
      EarlyWriterIsCurrent, LeaseStays, Fault
<1>30. ASSUME NEW p \in Commands, LeaseFails(p)
      PROVE  EarlyWriterIsCurrent'
  BY <1>0, <1>30
  DEF TypeOK, PlaceInv, Leased, Exclusive, AloneInv, OpenInv,
      EarlyWriterIsCurrent, LeaseFails, Fault
<1>31. ASSUME NEW p \in Commands, EnterUnlocked(p)
      PROVE  EarlyWriterIsCurrent'
  BY <1>0, <1>31
  DEF TypeOK, PlaceInv, Leased, Exclusive, AloneInv, OpenInv,
      EarlyWriterIsCurrent, EnterUnlocked, Fault
<1>32. ASSUME NEW p \in Commands, UnleaseFails(p)
       PROVE  EarlyWriterIsCurrent'
  BY <1>0, <1>32
  DEF TypeOK, PlaceInv, Leased, Exclusive, AloneInv, OpenInv,
      EarlyWriterIsCurrent, UnleaseFails, Fault
<1>33. ASSUME NEW p \in Maintainers, ClimbUnlocked(p)
       PROVE  EarlyWriterIsCurrent'
  BY <1>0, <1>33, LadderFacts
  DEF TypeOK, PlaceInv, Leased, Exclusive, AloneInv, OpenInv,
      EarlyWriterIsCurrent, ClimbUnlocked, Fault
<1>34. ASSUME NEW p \in Maintainers, ClimbFails(p)
       PROVE  EarlyWriterIsCurrent'
  BY <1>0, <1>34, LadderFacts
  DEF TypeOK, PlaceInv, Leased, Exclusive, AloneInv, OpenInv,
      EarlyWriterIsCurrent, ClimbFails, Abandon, Fault
<1>35. ASSUME NEW p \in Maintainers, CheckFails(p)
       PROVE  EarlyWriterIsCurrent'
  BY <1>0, <1>35, LadderFacts
  DEF TypeOK, PlaceInv, Leased, Exclusive, AloneInv, OpenInv,
      EarlyWriterIsCurrent, CheckFails, Checked, Enter, Fault
<1>28. CASE UNCHANGED vars
  BY <1>0, <1>28
  DEF TypeOK, PlaceInv, Leased, Exclusive, AloneInv, OpenInv,
      EarlyWriterIsCurrent, vars
<1> QED
  BY <1>1, <1>2, <1>3, <1>4, <1>5, <1>6, <1>7, <1>8, <1>9, <1>10,
     <1>11, <1>12, <1>13, <1>14, <1>15, <1>16, <1>17, <1>18, <1>19, <1>20,
     <1>21, <1>22, <1>23, <1>24, <1>25, <1>26, <1>27, <1>28, <1>29, <1>30,
     <1>31, <1>32, <1>33, <1>34, <1>35
  DEF Next, Command, Maintain

--------------------------------------------------------------------------------

LEMMA NextInv == IInv /\ [Next]_vars => IInv'
  BY NextType, NextPlace, NextHold, NextOwn, NextDead, NextLease, NextLeft, NextAlone, NextOpen, NextCurrent
  DEF IInv

\* The inductive invariant holds in every reachable state.
THEOREM Invariance == Spec => []IInv
<1> QED
  BY InitInv, NextInv, PTL DEF Spec

\* Every variable keeps its type.
THEOREM TypeCorrect == Spec => []TypeOK
<1>1. IInv => TypeOK
  BY DEF IInv
<1> QED
  BY <1>1, Invariance, PTL

\* While restore or purge changes the store, nobody else is in a section that
\* a lock or a lease protects.
THEOREM MaintenanceAlone == Spec => []MaintenanceIsAlone
<1>1. IInv => MaintenanceIsAlone
  <2> SUFFICES ASSUME IInv, ~ unguarded, NEW p \in Procs, NEW q \in Procs,
                      Exclusive(p), Guarded(q)
               PROVE  p = q
    BY DEF MaintenanceIsAlone
  <2>1. /\ p \in Maintainers
        /\ lock["maintenance"] = p /\ lock["schema"] = p
        /\ lock["backup"] = p /\ lock["consolidate"] = p
    BY DEF IInv, PlaceInv, HoldInv, Exclusive, Gone, Commands, Procs
  <2>2. CASE Exclusive(q)
    BY <2>1, <2>2 DEF IInv, PlaceInv, HoldInv, Exclusive, Gone, Commands, Procs
  <2>3. CASE At(q, "preparing")
    BY <2>1, <2>3 DEF IInv, PlaceInv, HoldInv, Exclusive, Commands, Procs, At
  <2>4. CASE At(q, "work")
    <3>1. CASE q \in Jobs
      BY <2>1, <2>4, <3>1, JobLockAssumption DEF IInv, HoldInv
    <3>2. CASE q \notin Jobs
      BY <2>1, <2>4, <3>2
  DEF IInv, PlaceInv, AloneInv, Exclusive, At, Commands, Procs
    <3> QED
      BY <3>1, <3>2
  <2> QED
    BY <2>2, <2>3, <2>4 DEF Guarded, At
<1> QED
  BY <1>1, Invariance, PTL

\* No command that ends leaves a lock or a lease behind, but for one that was
\* killed, one whose lease could not be written or removed, and a restore that
\* could not create the schema lock.
THEOREM NothingIsLeftBehind == Spec => []NothingLeftBehind
<1>1. IInv => NothingLeftBehind
  <2> SUFFICES ASSUME IInv PROVE NothingLeftBehind
    OBVIOUS
  <2>1. \A p \in leases : Gone(p) \/ pc[p] \in
          {"recheck", "rechecking", "openEarly", "work", "closeEarly", "unlease", "close"}
    BY DEF IInv, LeftInv, Leased, Gone
  <2>2. ASSUME NEW l \in Locks, NEW p \in Commands, lock[l] = p
        PROVE  ~ Gone(p) /\ pc[p] \notin {"idle", "open", "close"}
    BY <2>2 DEF IInv, OwnInv, At, Gone
  <2>3. ASSUME NEW l \in Locks, NEW p \in Maintainers, lock[l] = p
        PROVE  ~ Gone(p) /\ pc[p] \notin {"idle", "open", "close"}
    <3>1. rung[p] >= 1 /\ ~ Gone(p)
      BY <2>3 DEF IInv, OwnInv, TypeOK, Locks
    <3>2. rung[p] # 0
      BY <3>1
    <3> QED
      BY <3>1, <3>2 DEF IInv, PlaceInv, Exclusive, At, Gone
  <2>4. DeadInv
    BY DEF IInv
  <2> QED
    BY <2>1, <2>2, <2>3, <2>4 DEF NothingLeftBehind, DeadInv, Commands, Procs
<1> QED
  BY <1>1, Invariance, PTL

\* A command that takes its lease first works on the current store.
THEOREM EarlyWritersAreCurrent == Spec => []EarlyWriterIsCurrent
<1>1. IInv => EarlyWriterIsCurrent
  BY DEF IInv
<1> QED
  BY <1>1, Invariance, PTL
================================================================================
