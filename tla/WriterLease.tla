------------------------------ MODULE WriterLease ------------------------------
(***************************************************************************)
(* Who may touch the store when: commands that write (storelib/cli.py),    *)
(* single-flight jobs, restore (storelib/backup.py) and purge              *)
(* (storelib/purge.py), over the maintenance probe and the writer leases   *)
(* of storelib/schema.py and the named locks of scripts/host.py.           *)
(*                                                                         *)
(* A named lock is taken and released in one step here; HostLock models    *)
(* the system calls of a step and shows when that is justified.            *)
(***************************************************************************)
EXTENDS Naturals, Sequences, FiniteSets

CONSTANTS
  Writers,      \* commands of the shared dispatch: open, then take the lease
  EarlyWriters, \* commands that take the lease, then open the store
  Jobs,         \* backup and consolidate: open, then take a lock of their own
  JobLock,      \* the lock of a job
  Restores, Purges,
  None, Dead,
  MaxFaults     \* crashes, failing file operations, and locks and leases that
                \* get over-age while in use

Maintainers == Restores \cup Purges
Procs == Writers \cup EarlyWriters \cup Jobs \cup Maintainers
Locks == {"maintenance", "schema", "backup", "consolidate"}

ASSUME ProcsAssumption ==
  /\ None \notin Procs /\ Dead \notin Procs /\ None # Dead
  /\ Writers \cap EarlyWriters = {} /\ Writers \cap Jobs = {}
  /\ EarlyWriters \cap Jobs = {} /\ Restores \cap Purges = {}
  /\ (Writers \cup EarlyWriters \cup Jobs) \cap Maintainers = {}
ASSUME JobLockAssumption == JobLock \in [Jobs -> {"backup", "consolidate"}]
ASSUME FaultsAssumption == MaxFaults \in Nat

VARIABLES
  lock,         \* the holder of each lock, Dead when it was killed
  leases,       \* the processes whose lease file exists
  oldLeases,    \* those over WRITER_LEASE_STALE_SECONDS
  conn,         \* what a process has open: the store, or one since replaced
  pc,
  rung,         \* how many locks of the ladder a maintainer holds
  faults,
  unguarded     \* ghost: a lock or a lease got over-age while its owner was
                \* alive, or a process went on without one

vars == <<lock, leases, oldLeases, conn, pc, rung, faults, unguarded>>

Ladder == <<"maintenance", "schema", "backup", "consolidate">>

Places ==
  {"idle", "probe", "probing", "open", "prepare", "preparing", "enter",
   "probeLease", "probingLease", "lease", "recheck", "rechecking", "openEarly",
   "work", "unlease", "close", "closeEarly", "climb", "destroy", "copy",
   "verify", "purge", "descend", "failed", "dead"}

TypeOK ==
  /\ lock \in [Locks -> Procs \cup {None, Dead}]
  /\ leases \in SUBSET (Writers \cup EarlyWriters)
  /\ oldLeases \in SUBSET leases
  /\ conn \in [Procs -> {"closed", "current", "replaced"}]
  /\ pc \in [Procs -> Places]
  /\ rung \in [Maintainers -> 0..Len(Ladder)]
  /\ faults \in 0..MaxFaults
  /\ unguarded \in BOOLEAN

Init ==
  /\ lock = [l \in Locks |-> None]
  /\ leases = {} /\ oldLeases = {}
  /\ conn = [p \in Procs |-> "closed"]
  /\ pc = [p \in Procs |-> "idle"]
  /\ rung = [p \in Maintainers |-> 0]
  /\ faults = 0 /\ unguarded = FALSE

--------------------------------------------------------------------------------
(* Locks. *)

At(p, here) == pc[p] = here
Goto(p, there) == pc' = [pc EXCEPT ![p] = there]

Fault == faults < MaxFaults /\ faults' = faults + 1

\* A process ended by itself and left something behind, or was killed.
Gone(p) == pc[p] \in {"failed", "dead"}

\* A dead holder's lock is broken: at once when its pid is looked at, and when
\* it is over-age otherwise.
Free(l) == lock[l] \in {None, Dead}

\* The lock is held, or a dead holder's lock cannot be broken yet.
Busy(l) == lock[l] # None

Take(p, l) == Free(l) /\ lock' = [lock EXCEPT ![l] = p]

\* release_lock leaves another's lock alone.
Release(p, l) == lock' = [lock EXCEPT ![l] = IF @ = p THEN None ELSE @]

\* A process that is gone leaves its locks behind.
Abandon(p) == lock' = [l \in Locks |-> IF lock[l] = p THEN Dead ELSE lock[l]]

\* A wait for l is over, or its file cannot be created: _strict_acquire_lock
\* answers None or raises, and the command fails either way.
Denied(l) == \/ Busy(l) /\ UNCHANGED faults
             \/ Fault

--------------------------------------------------------------------------------
(* Commands.  The maintenance probe takes the lock and releases it. *)

ProbeOf == [probe |-> "probing", probeLease |-> "probingLease",
            recheck |-> "rechecking"]

\* main: the first thing a command does.
Begin(p) ==
  /\ p \in Writers \cup EarlyWriters \cup Jobs /\ At(p, "idle")
  /\ Goto(p, "probe")
  /\ UNCHANGED <<lock, leases, oldLeases, conn, rung, faults, unguarded>>

ProbeTake(p) ==
  /\ pc[p] \in DOMAIN ProbeOf
  /\ Take(p, "maintenance")
  /\ Goto(p, ProbeOf[pc[p]])
  /\ UNCHANGED <<leases, oldLeases, conn, rung, faults, unguarded>>

\* What follows a probe that found no maintenance.
AfterProbe(p) ==
  CASE At(p, "probing") -> IF p \in EarlyWriters THEN "probeLease" ELSE "open"
    [] At(p, "probingLease") -> "lease"
    [] At(p, "rechecking") -> IF p \in EarlyWriters THEN "openEarly" ELSE "work"

ProbeDrop(p) ==
  /\ pc[p] \in {"probing", "probingLease", "rechecking"}
  /\ Release(p, "maintenance")
  /\ Goto(p, AfterProbe(p))
  /\ UNCHANGED <<leases, oldLeases, conn, rung, faults, unguarded>>

\* Variant: the lease of a command that gives up stays behind.
ProbeTimeoutKeepingLease(p) ==
  /\ pc[p] \in DOMAIN ProbeOf /\ Denied("maintenance")
  /\ conn' = [conn EXCEPT ![p] = "closed"]
  /\ Goto(p, "idle")
  /\ UNCHANGED <<lock, leases, oldLeases, rung, unguarded>>

\* MAINTENANCE_WAIT_SECONDS are over: the command fails; a lease is withdrawn.
ProbeTimeout(p) ==
  /\ pc[p] \in DOMAIN ProbeOf /\ Denied("maintenance")
  /\ leases' = leases \ {p} /\ oldLeases' = oldLeases \ {p}
  /\ conn' = [conn EXCEPT ![p] = "closed"]
  /\ Goto(p, "idle")
  /\ UNCHANGED <<lock, rung, unguarded>>

\* The lease was written and the second probe failed, or the file was made and
\* its text was not; it cannot be removed, or is not.
LeaseStays(p) ==
  /\ pc[p] \in {"lease", "recheck"} /\ Fault
  /\ leases' = leases \cup {p}
  /\ conn' = [conn EXCEPT ![p] = "closed"]
  /\ Goto(p, "failed")
  /\ UNCHANGED <<lock, oldLeases, rung, unguarded>>

\* The file of the lease cannot be made.
LeaseFails(p) ==
  /\ At(p, "lease") /\ Fault
  /\ conn' = [conn EXCEPT ![p] = "closed"]
  /\ Goto(p, "idle")
  /\ UNCHANGED <<lock, leases, oldLeases, rung, unguarded>>

Open(p) ==
  /\ At(p, "open")
  /\ conn' = [conn EXCEPT ![p] = "current"]
  /\ Goto(p, "prepare")
  /\ UNCHANGED <<lock, leases, oldLeases, rung, faults, unguarded>>

\* _prepare_store: initialisation and migration under the schema lock.
Prepare(p) ==
  /\ At(p, "prepare")
  /\ Take(p, "schema")
  /\ Goto(p, "preparing")
  /\ UNCHANGED <<leases, oldLeases, conn, rung, faults, unguarded>>

PrepareTimeout(p) ==
  /\ At(p, "prepare") /\ Denied("schema")
  /\ conn' = [conn EXCEPT ![p] = "closed"]
  /\ Goto(p, "idle")
  /\ UNCHANGED <<lock, leases, oldLeases, rung, unguarded>>

Prepared(p) ==
  /\ At(p, "preparing")
  /\ Release(p, "schema")
  /\ Goto(p, IF p \in Jobs THEN "enter" ELSE "probeLease")
  /\ UNCHANGED <<leases, oldLeases, conn, rung, faults, unguarded>>

\* Variant: the second probe is left out.
LeaseUnchecked(p) ==
  /\ At(p, "lease")
  /\ leases' = leases \cup {p}
  /\ Goto(p, IF p \in EarlyWriters THEN "openEarly" ELSE "work")
  /\ UNCHANGED <<lock, oldLeases, conn, rung, faults, unguarded>>

\* _acquire_writer_lease, between its two probes.
Lease(p) ==
  /\ At(p, "lease")
  /\ leases' = leases \cup {p}
  /\ Goto(p, "recheck")
  /\ UNCHANGED <<lock, oldLeases, conn, rung, faults, unguarded>>

OpenEarly(p) ==
  /\ At(p, "openEarly")
  /\ conn' = [conn EXCEPT ![p] = "current"]
  /\ Goto(p, "work")
  /\ UNCHANGED <<lock, leases, oldLeases, rung, faults, unguarded>>

\* Single-flight: a job whose lock is taken is skipped.
EnterJob(p) ==
  /\ At(p, "enter")
  /\ Take(p, JobLock[p])
  /\ Goto(p, "work")
  /\ UNCHANGED <<leases, oldLeases, conn, rung, faults, unguarded>>

\* acquire_lock answers "unlocked" when the file cannot be created.
EnterUnlocked(p) ==
  /\ At(p, "enter") /\ Fault
  /\ Goto(p, "work")
  /\ unguarded' = TRUE
  /\ UNCHANGED <<lock, leases, oldLeases, conn, rung>>

SkipJob(p) ==
  /\ At(p, "enter") /\ Busy(JobLock[p])
  /\ Goto(p, "close")
  /\ UNCHANGED <<lock, leases, oldLeases, conn, rung, faults, unguarded>>

\* The transactions of the command are over.
Finish(p) ==
  /\ At(p, "work")
  /\ \/ p \in Jobs /\ Release(p, JobLock[p]) /\ Goto(p, "close")
     \/ p \in Writers /\ Goto(p, "unlease") /\ UNCHANGED lock
     \/ p \in EarlyWriters /\ Goto(p, "closeEarly") /\ UNCHANGED lock
  /\ UNCHANGED <<leases, oldLeases, conn, rung, faults, unguarded>>

\* The shared dispatch gives the lease back before it closes, the others after.
Unlease(p) ==
  /\ At(p, "unlease")
  /\ leases' = leases \ {p} /\ oldLeases' = oldLeases \ {p}
  /\ Goto(p, IF p \in EarlyWriters THEN "idle" ELSE "close")
  /\ UNCHANGED <<lock, conn, rung, faults, unguarded>>

\* The lease cannot be removed; the command goes on as if it were.
UnleaseFails(p) ==
  /\ At(p, "unlease") /\ Fault
  /\ Goto(p, IF p \in EarlyWriters THEN "failed" ELSE "close")
  /\ UNCHANGED <<lock, leases, oldLeases, conn, rung, unguarded>>

Close(p) ==
  /\ pc[p] \in {"close", "closeEarly"}
  /\ conn' = [conn EXCEPT ![p] = "closed"]
  /\ Goto(p, IF At(p, "closeEarly") THEN "unlease"
             ELSE IF p \in leases THEN "failed" ELSE "idle")
  /\ UNCHANGED <<lock, leases, oldLeases, rung, faults, unguarded>>

--------------------------------------------------------------------------------
(* cmd_restore and cmd_purge. *)

BeginMaintenance(p) ==
  /\ p \in Maintainers /\ At(p, "idle")
  /\ Goto(p, "climb")
  /\ UNCHANGED <<lock, leases, oldLeases, conn, rung, faults, unguarded>>

\* The next lock of the ladder.
Climb(p) ==
  /\ At(p, "climb") /\ rung[p] < Len(Ladder)
  /\ Take(p, Ladder[rung[p] + 1])
  /\ rung' = [rung EXCEPT ![p] = @ + 1]
  /\ UNCHANGED <<leases, oldLeases, conn, pc, faults, unguarded>>

\* backup and consolidate: acquire_lock answers "unlocked" when the file cannot
\* be created, which is as good as the lock.
ClimbUnlocked(p) ==
  /\ At(p, "climb") /\ rung[p] \in {2, 3} /\ Fault
  /\ rung' = [rung EXCEPT ![p] = @ + 1]
  /\ unguarded' = TRUE
  /\ UNCHANGED <<lock, leases, oldLeases, conn, pc>>

\* maintenance and schema: _strict_acquire_lock raises.  cmd_purge releases what
\* it has in its finally; cmd_restore has not entered its try yet and ends with
\* the maintenance lock in place.
ClimbFails(p) ==
  /\ At(p, "climb") /\ rung[p] \in {0, 1} /\ Fault
  /\ \/ /\ rung[p] = 0 \/ p \in Purges
        /\ Goto(p, "descend")
        /\ UNCHANGED lock
     \/ /\ rung[p] = 1 /\ p \in Restores
        /\ Goto(p, "failed")
        /\ Abandon(p)
  /\ UNCHANGED <<leases, oldLeases, conn, rung, unguarded>>

\* REFUSED: what was taken is released.
Refuse(p) ==
  /\ At(p, "climb") /\ rung[p] < Len(Ladder) /\ Busy(Ladder[rung[p] + 1])
  /\ Goto(p, "descend")
  /\ UNCHANGED <<lock, leases, oldLeases, conn, rung, faults, unguarded>>

\* Purge opens the store.
Enter(p) ==
  /\ Goto(p, IF p \in Purges THEN "purge" ELSE "destroy")
  /\ conn' = IF p \in Purges THEN [conn EXCEPT ![p] = "current"] ELSE conn

\* A live lease refuses the command.
Checked(p, live) ==
  \/ live = {} /\ Enter(p)
  \/ live # {} /\ Goto(p, "descend") /\ UNCHANGED conn

\* Variant: restore cleans up the leases and does not look at those left.
CheckNoLeases(p) ==
  /\ At(p, "climb") /\ rung[p] = Len(Ladder)
  /\ leases' = leases \ oldLeases /\ oldLeases' = {}
  /\ Enter(p)
  /\ UNCHANGED <<lock, rung, faults, unguarded>>

\* _cleanup_stale_writer_leases.
CheckLeases(p) ==
  /\ At(p, "climb") /\ rung[p] = Len(Ladder)
  /\ leases' = leases \ oldLeases /\ oldLeases' = {}
  /\ Checked(p, leases')
  /\ UNCHANGED <<lock, rung, faults, unguarded>>

\* Leases that cannot be listed or looked at count as none; an over-age one
\* that cannot be removed stays.
CheckFails(p) ==
  /\ At(p, "climb") /\ rung[p] = Len(Ladder) /\ Fault
  /\ \E live \in {{}, leases \ oldLeases} :
       /\ Checked(p, live)
       /\ unguarded' = (unguarded \/ live # leases \ oldLeases)
  /\ UNCHANGED <<lock, leases, oldLeases, rung>>

\* _restore_locked fails before it has touched the destination.
RestoreFails(p) ==
  /\ At(p, "destroy")
  /\ Goto(p, "descend")
  /\ UNCHANGED <<lock, leases, oldLeases, conn, rung, faults, unguarded>>

\* The sidecars are removed: whoever has the store open has lost it.
Destroy(p) ==
  /\ At(p, "destroy")
  /\ conn' = [q \in Procs |-> IF conn[q] = "current" THEN "replaced" ELSE conn[q]]
  /\ \/ Goto(p, "copy")
     \/ Goto(p, "descend")    \* a sidecar could not be removed
  /\ UNCHANGED <<lock, leases, oldLeases, rung, faults, unguarded>>

Copy(p) ==
  /\ At(p, "copy")
  /\ conn' = [q \in Procs |-> IF conn[q] = "current" THEN "replaced" ELSE conn[q]]
  /\ \/ Goto(p, "verify")
     \/ Goto(p, "descend")    \* the copy failed
  /\ UNCHANGED <<lock, leases, oldLeases, rung, faults, unguarded>>

\* The restored store is verified; the rows of a purge are gone.
EndMaintenance(p) ==
  /\ pc[p] \in {"verify", "purge"}
  /\ Goto(p, "descend")
  /\ conn' = [conn EXCEPT ![p] = "closed"]
  /\ UNCHANGED <<lock, leases, oldLeases, rung, faults, unguarded>>

\* The locks are released from the last to the first.
Descend(p) ==
  /\ At(p, "descend")
  /\ \/ /\ rung[p] > 0
        /\ Release(p, Ladder[rung[p]])
        /\ rung' = [rung EXCEPT ![p] = @ - 1]
        /\ UNCHANGED pc
     \/ /\ rung[p] = 0
        /\ Goto(p, "idle")
        /\ UNCHANGED <<lock, rung>>
  /\ UNCHANGED <<leases, oldLeases, conn, faults, unguarded>>

--------------------------------------------------------------------------------
(* Death and time. *)

\* A killed process leaves its locks and its lease behind.
Crash(p) ==
  /\ ~ At(p, "idle") /\ ~ Gone(p) /\ Fault
  /\ Abandon(p)
  /\ conn' = [conn EXCEPT ![p] = "closed"]
  /\ Goto(p, "dead")
  /\ UNCHANGED <<leases, oldLeases, rung, unguarded>>

\* A holder that runs longer than the stale time loses its lock.
Overrun(l) ==
  /\ lock[l] \in Procs /\ Fault
  /\ lock' = [lock EXCEPT ![l] = None]
  /\ unguarded' = TRUE
  /\ UNCHANGED <<leases, oldLeases, conn, pc, rung>>

\* A lease is never refreshed: that of a long command gets over-age too.
AgeLease(p) ==
  /\ p \in leases \ oldLeases
  /\ \/ Gone(p) /\ UNCHANGED <<faults, unguarded>>
     \/ ~ Gone(p) /\ Fault /\ unguarded' = TRUE
  /\ oldLeases' = oldLeases \cup {p}
  /\ UNCHANGED <<lock, leases, conn, pc, rung>>

Command(p) ==
  \/ Begin(p) \/ ProbeTake(p) \/ ProbeDrop(p) \/ ProbeTimeout(p)
  \/ Open(p) \/ Prepare(p) \/ PrepareTimeout(p) \/ Prepared(p)
  \/ Lease(p) \/ LeaseStays(p) \/ LeaseFails(p) \/ OpenEarly(p)
  \/ EnterJob(p) \/ EnterUnlocked(p) \/ SkipJob(p)
  \/ Finish(p) \/ Unlease(p) \/ UnleaseFails(p) \/ Close(p)

Maintain(p) ==
  \/ BeginMaintenance(p) \/ Climb(p) \/ ClimbUnlocked(p) \/ ClimbFails(p)
  \/ Refuse(p) \/ CheckLeases(p) \/ CheckFails(p) \/ RestoreFails(p)
  \/ Destroy(p) \/ Copy(p) \/ EndMaintenance(p) \/ Descend(p)

Next ==
  \/ \E p \in Writers \cup EarlyWriters \cup Jobs : Command(p)
  \/ \E p \in Maintainers : Maintain(p)
  \/ \E p \in Procs : Crash(p) \/ AgeLease(p)
  \/ \E l \in Locks : Overrun(l)

Spec == Init /\ [][Next]_vars

--------------------------------------------------------------------------------

\* The maintainers that passed the last check of the ladder, until they are done.
Exclusive(p) == pc[p] \in {"destroy", "copy", "verify", "purge"}

\* The processes inside a section a lock or a lease protects.
Guarded(p) == Exclusive(p) \/ pc[p] \in {"preparing", "work"}

\* Unless a process lost its lock or its lease to age, went on without a lock it
\* could not create, or could not list the leases, nobody prepares the store, works on
\* it under a lease or a lock, or maintains it, while restore or purge do
\* (backup.py:641-645, purge.py:1147-1150).
MaintenanceIsAlone ==
  ~ unguarded => \A p, q \in Procs : Exclusive(p) /\ Guarded(q) => p = q

\* A command that takes its lease first has the current store open, whatever
\* is restored meanwhile (rescan-secrets, reclassify-entities, cli.py:4266-4370).
EarlyWriterIsCurrent ==
  ~ unguarded => \A p \in EarlyWriters : conn[p] # "replaced"

\* No command that ends, whatever refused it, leaves a lock or a lease of its own
\* in place, but for three ends: it was killed, its lease could not be written
\* or removed, or a restore could not create the schema lock, which leaves the
\* maintenance lock of a process that is gone (backup.py:666-677).
NothingLeftBehind ==
  /\ \A p \in leases : Gone(p) \/ pc[p] \in
       {"recheck", "rechecking", "openEarly", "work", "closeEarly", "unlease", "close"}
  /\ \A l \in Locks, p \in Procs :
       lock[l] = p => ~ Gone(p) /\ pc[p] \notin {"idle", "open", "close"}
  /\ \A l \in Locks : lock[l] = Dead =>
       \/ \E p \in Procs : At(p, "dead")
       \/ l = "maintenance" /\ \E p \in Restores : At(p, "failed")

\* backup.py:641-645: a writer in flight carries a live lease, and restore
\* refuses while there is one, so that it never replaces an open store.
RestoreMeetsNoWriter ==
  ~ unguarded =>
    \A p \in Restores, q \in Writers :
      pc[p] \in {"destroy", "copy"} => conn[q] = "closed"
================================================================================
