------------------------------- MODULE HostLock --------------------------------
(***************************************************************************)
(* The advisory file lock of scripts/host.py: acquire_lock, the break of a *)
(* stale or phantom lock under a break claim, and release_lock.  One       *)
(* action is one system call on the lock or the claim; the files a process *)
(* renames aside have private names, so what it does to them afterwards    *)
(* needs no step of its own.                                               *)
(*                                                                         *)
(* A lock file is an instance: its identity is what st_mtime_ns and the    *)
(* owner's token tell apart.  Instances that nothing refers to any more    *)
(* are used again, so a behaviour may hold any number of acquisitions.     *)
(***************************************************************************)
EXTENDS Naturals, FiniteSets

CONSTANTS
  Procs, Instances,
  None,
  MaxFaults     \* crashes and failed system calls, in all

ASSUME NoneAssumption == None \notin Instances \cup Procs
ASSUME FaultsAssumption == MaxFaults \in Nat

VARIABLES
  path,         \* the instance at the lock's path
  empty,        \* instances whose token is not written
  old,          \* instances over their stale age
  dead,         \* instances whose recorded pid no longer exists
  claim,        \* the creator of the claim file (None: no such file)
  claimOld,     \* the claim is over _BREAK_CLAIM_STALE_SECONDS
  pc,
  mine,         \* the instance a process created for its acquisition
  judged,       \* the instance a breaker wants to remove
  aside,        \* the instance a process renamed to its private name
  claimed,      \* the process took the claim (_CLAIM_ACQUIRED)
  phantom,      \* it runs break_phantom_lock, not _break_stale_lock
  same,         \* the claim is still the one the process stat'ed
  faults,
  residual      \* ghost: one of the windows the code documents has opened

fileVars == <<path, empty, old, dead>>
claimVars == <<claim, claimOld, same>>
breakVars == <<judged, claimed, phantom>>
vars == <<fileVars, claimVars, breakVars, pc, mine, aside, faults, residual>>

Maybe(S) == S \cup {None}

Places ==
  {"idle", "write", "rewrite", "held", "unlocked", "stat", "claim", "claimStat",
   "claimRecheck", "claimUnlink", "reclaim", "check", "rename", "confirm",
   "putBack", "won", "lost", "create", "relRename", "relConfirm", "relPutBack"}
Owning == {"write", "rewrite", "held", "relRename", "relConfirm", "relPutBack"}
Moving == {"confirm", "putBack", "relConfirm", "relPutBack"}
Breaking == {"check", "rename", "confirm", "putBack", "won", "lost"}

\* Where a process has a lock file, a file aside, or the claim.
Phases ==
  \A p \in Procs :
    /\ mine[p] # None <=> pc[p] \in Owning
    /\ aside[p] # None <=> pc[p] \in Moving
    /\ claimed[p] => pc[p] \in Breaking

TypeOK ==
  /\ path \in Maybe(Instances)
  /\ empty \in SUBSET Instances
  /\ old \in SUBSET Instances
  /\ dead \in SUBSET Instances
  /\ claim \in Maybe(Procs)
  /\ claimOld \in BOOLEAN
  /\ pc \in [Procs -> Places]
  /\ mine \in [Procs -> Maybe(Instances)]
  /\ judged \in [Procs -> Maybe(Instances)]
  /\ aside \in [Procs -> Maybe(Instances)]
  /\ claimed \in [Procs -> BOOLEAN]
  /\ phantom \in [Procs -> BOOLEAN]
  /\ same \in [Procs -> BOOLEAN]
  /\ faults \in 0..MaxFaults
  /\ residual \in BOOLEAN
  /\ Phases

Init ==
  /\ path = None /\ empty = {} /\ old = {} /\ dead = {}
  /\ claim = None /\ claimOld = FALSE
  /\ pc = [p \in Procs |-> "idle"]
  /\ mine = [p \in Procs |-> None]
  /\ judged = [p \in Procs |-> None]
  /\ aside = [p \in Procs |-> None]
  /\ claimed = [p \in Procs |-> FALSE]
  /\ phantom = [p \in Procs |-> FALSE]
  /\ same = [p \in Procs |-> FALSE]
  /\ faults = 0 /\ residual = FALSE

--------------------------------------------------------------------------------

Fault == faults < MaxFaults /\ faults' = faults + 1

At(p, here) == pc[p] = here

Goto(p, there) == pc' = [pc EXCEPT ![p] = there]

\* The lock file and the files renamed aside; the rest is gone, with all that
\* was known of it.
Files == {path} \cup {aside[p] : p \in Procs}

ForgetRemoved ==
  /\ empty' = empty \cap Files'
  /\ old' = old \cap Files'
  /\ dead' = dead \cap Files'

\* Instances no file and no process stands for.
Fresh ==
  {i \in Instances :
     i # path /\ \A p \in Procs : i # mine[p] /\ i # judged[p] /\ i # aside[p]}

\* The process has made the lock and not yet given it up.
Live(p) == pc[p] \in {"write", "rewrite", "held", "relRename"}

\* os.open(O_CREAT | O_EXCL) on the path succeeds.
CreateFile(p, writing) ==
  /\ path = None
  /\ \E i \in Fresh :
       /\ path' = i
       /\ mine' = [mine EXCEPT ![p] = i]
       /\ empty' = empty \cup {i}
  /\ UNCHANGED <<old, dead>>
  /\ Goto(p, writing)

\* The process keeps nothing of the call that returns.
Return(p, there) ==
  /\ Goto(p, there)
  /\ mine' = [mine EXCEPT ![p] = None]
  /\ judged' = [judged EXCEPT ![p] = None]
  /\ phantom' = [phantom EXCEPT ![p] = FALSE]

\* acquire_lock: the uncontended try.
Acquire(p) ==
  /\ At(p, "idle")
  /\ \/ CreateFile(p, "write")
     \/ /\ path # None /\ Goto(p, "stat")
        /\ UNCHANGED <<fileVars, mine>>
  /\ UNCHANGED <<claimVars, breakVars, aside, faults, residual>>

\* The lock directory or the create fails: the caller goes on without the lock.
AcquireFails(p) ==
  /\ At(p, "idle") /\ Fault /\ Goto(p, "unlocked")
  /\ UNCHANGED <<fileVars, claimVars, breakVars, mine, aside, residual>>

WriteToken(p) ==
  /\ pc[p] \in {"write", "rewrite"}
  /\ empty' = empty \ {mine[p]}
  /\ Goto(p, "held")
  /\ UNCHANGED <<path, old, dead, claimVars, breakVars, mine, aside, faults,
                 residual>>

\* The token cannot be written: whatever is at the path is unlinked.
WriteFails(p) ==
  /\ pc[p] \in {"write", "rewrite"} /\ Fault
  /\ path' = None
  /\ Return(p, IF pc[p] = "write" THEN "unlocked" ELSE "idle")
  /\ UNCHANGED <<claimVars, claimed, aside, residual>>
  /\ ForgetRemoved

\* The existing lock vanished, is live, or is to be broken.
Stat(p) ==
  /\ At(p, "stat")
  /\ \/ path = None /\ Goto(p, "create") /\ UNCHANGED judged
     \/ path # None /\ path \notin old /\ Goto(p, "idle") /\ UNCHANGED judged
     \/ path \in old /\ Goto(p, "claim") /\ judged' = [judged EXCEPT ![p] = path]
  /\ UNCHANGED <<fileVars, claimVars, claimed, phantom, mine, aside, faults,
                 residual>>

StatFails(p) ==
  /\ At(p, "stat") /\ Fault /\ Goto(p, "idle")
  /\ UNCHANGED <<fileVars, claimVars, breakVars, mine, aside, residual>>

\* The second and last try: anything but success is None.
CreateAgain(p) ==
  /\ At(p, "create")
  /\ \/ CreateFile(p, "rewrite") /\ UNCHANGED <<judged, phantom>>
     \/ path # None /\ Return(p, "idle") /\ UNCHANGED fileVars
  /\ UNCHANGED <<claimVars, claimed, aside, faults, residual>>

\* What the lock file holds: its owner's token, or nothing yet.
Token(i) == IF i \in empty THEN None ELSE i

\* _inspect_lock_phantom: the holder is dead, or the file empty for too long.
InspectPhantom(p) ==
  /\ At(p, "idle")
  /\ path \in (dead \ empty) \cup (empty \cap old)
  /\ judged' = [judged EXCEPT ![p] = Token(path)]
  /\ phantom' = [phantom EXCEPT ![p] = TRUE]
  /\ Goto(p, "claim")
  /\ UNCHANGED <<fileVars, claimVars, claimed, mine, aside, faults, residual>>

--------------------------------------------------------------------------------
(* The break claim. *)

\* A try of _create_break_claim; a second one does not look further.
CreateClaim(p) ==
  /\ pc[p] \in {"claim", "reclaim"}
  /\ \/ /\ claim = None
        /\ claim' = p /\ claimOld' = FALSE
        /\ claimed' = [claimed EXCEPT ![p] = TRUE]
        /\ Goto(p, "check")
        /\ UNCHANGED <<judged, phantom, mine>>
     \/ /\ claim # None /\ At(p, "claim")
        /\ Goto(p, "claimStat")
        /\ UNCHANGED <<claim, claimOld, breakVars, mine>>
     \/ /\ claim # None /\ At(p, "reclaim")
        /\ Return(p, "idle")
        /\ UNCHANGED <<claim, claimOld, claimed>>
  /\ UNCHANGED <<fileVars, same, aside, faults, residual>>

\* Variant: a claim is never too old.
ClaimStatForever(p) ==
  /\ At(p, "claimStat")
  /\ \/ /\ claim = None
        /\ Goto(p, "reclaim") /\ UNCHANGED <<judged, phantom, mine>>
     \/ /\ claim # None
        /\ Return(p, "idle")
  /\ UNCHANGED <<fileVars, claimVars, claimed, aside, faults, residual>>

ClaimStat(p) ==
  /\ At(p, "claimStat")
  /\ \/ /\ claim = None
        /\ Goto(p, "reclaim") /\ UNCHANGED <<same, judged, phantom, mine>>
     \/ /\ claim # None /\ claimOld
        /\ same' = [same EXCEPT ![p] = TRUE]
        /\ Goto(p, "claimRecheck") /\ UNCHANGED <<judged, phantom, mine>>
     \/ /\ claim # None /\ ~ claimOld
        /\ Return(p, "idle") /\ UNCHANGED same
  /\ UNCHANGED <<fileVars, claim, claimOld, claimed, aside, faults, residual>>

ClaimRecheck(p) ==
  /\ At(p, "claimRecheck")
  /\ \/ /\ claim = None
        /\ Goto(p, "reclaim") /\ UNCHANGED <<judged, phantom, mine>>
     \/ /\ claim # None /\ same[p]
        /\ Goto(p, "claimUnlink") /\ UNCHANGED <<judged, phantom, mine>>
     \/ /\ claim # None /\ ~ same[p]
        /\ Return(p, "idle")
  /\ UNCHANGED <<fileVars, claimVars, claimed, aside, faults, residual>>

RemoveClaim ==
  /\ claim' = None /\ claimOld' = FALSE
  /\ same' = [q \in Procs |-> FALSE]

\* The unlink may hit the claim of whoever reclaimed it in between.
ClaimUnlink(p) ==
  /\ At(p, "claimUnlink")
  /\ RemoveClaim
  /\ residual' = (residual \/ (claim # None /\ ~ same[p]))
  /\ Goto(p, "reclaim")
  /\ UNCHANGED <<fileVars, breakVars, mine, aside, faults>>

\* The claim cannot be used: the break goes on unserialized.
ClaimUnavailable(p) ==
  /\ pc[p] \in {"claim", "claimStat", "claimRecheck", "claimUnlink", "reclaim"}
  /\ Fault
  /\ residual' = TRUE
  /\ Goto(p, IF phantom[p] THEN "check" ELSE "rename")
  /\ UNCHANGED <<fileVars, claimVars, breakVars, mine, aside>>

--------------------------------------------------------------------------------
(* The break. *)

\* The lock is still the stale one, or the phantom, once the claim is held.
StillBreakable(p) ==
  IF phantom[p]
  THEN path # None /\ Token(path) = judged[p] /\ (path \in empty => path \in old)
  ELSE path \in old

\* Variant: what was judged before the claim was taken is not looked at again.
CheckNothing(p) ==
  /\ At(p, "check") /\ Goto(p, "rename")
  /\ UNCHANGED <<fileVars, claimVars, breakVars, mine, aside, faults, residual>>

Check(p) ==
  /\ At(p, "check")
  /\ \/ /\ StillBreakable(p)
        /\ judged' = [judged EXCEPT ![p] = IF phantom[p] THEN @ ELSE path]
        /\ Goto(p, "rename")
     \/ /\ ~ StillBreakable(p)
        /\ Goto(p, "lost") /\ UNCHANGED judged
  /\ UNCHANGED <<fileVars, claimVars, claimed, phantom, mine, aside, faults,
                 residual>>

CheckFails(p) ==
  /\ At(p, "check") /\ Fault /\ Goto(p, "lost")
  /\ UNCHANGED <<fileVars, claimVars, breakVars, mine, aside, residual>>

\* os.rename to a private name moves whatever is at the path.
MoveAside(p, moved, gone) ==
  /\ \/ /\ path # None
        /\ aside' = [aside EXCEPT ![p] = path]
        /\ path' = None
        /\ Goto(p, moved)
        /\ UNCHANGED <<judged, phantom, mine>>
     \/ /\ path = None
        /\ gone /\ UNCHANGED <<path, aside>>
  /\ UNCHANGED <<empty, old, dead, claimVars, claimed, faults, residual>>

BreakRename(p) ==
  /\ At(p, "rename")
  /\ MoveAside(p, "confirm", Goto(p, "lost") /\ UNCHANGED <<judged, phantom, mine>>)

Confirmed(p) ==
  judged[p] = IF phantom[p] THEN Token(aside[p]) ELSE aside[p]

Confirm(p) ==
  /\ At(p, "confirm")
  /\ \/ /\ Confirmed(p)
        /\ aside' = [aside EXCEPT ![p] = None]
        /\ judged' = [judged EXCEPT ![p] = None]
        /\ Goto(p, "won")
     \/ /\ ~ Confirmed(p)
        /\ Goto(p, "putBack") /\ UNCHANGED <<aside, judged>>
  /\ UNCHANGED <<path, claimVars, claimed, phantom, mine, faults, residual>>
  /\ ForgetRemoved

\* The moved file cannot be read: it counts as another's.
ConfirmFails(p) ==
  /\ pc[p] \in {"confirm", "relConfirm"} /\ Fault
  /\ Goto(p, IF At(p, "confirm") THEN "putBack" ELSE "relPutBack")
  /\ UNCHANGED <<fileVars, claimVars, breakVars, mine, aside, residual>>

\* _rename_noreplace; the file is dropped when the path is taken.
Restore(p) ==
  /\ path' = IF path = None THEN aside[p] ELSE path
  /\ aside' = [aside EXCEPT ![p] = None]

PutBack(p) ==
  /\ \/ At(p, "putBack") /\ Goto(p, "lost") /\ UNCHANGED <<judged, phantom, mine>>
     \/ At(p, "relPutBack") /\ Return(p, "idle")
  /\ Restore(p)
  /\ UNCHANGED <<claimVars, claimed, faults, residual>>
  /\ ForgetRemoved

\* No hard links: a plain rename, which replaces the lock at the path.
PutBackReplaces(p) ==
  /\ \/ At(p, "putBack") /\ Goto(p, "lost") /\ UNCHANGED <<judged, phantom, mine>>
     \/ At(p, "relPutBack") /\ Return(p, "idle")
  /\ path # None /\ Fault
  /\ path' = aside[p]
  /\ aside' = [aside EXCEPT ![p] = None]
  /\ residual' = TRUE
  /\ UNCHANGED <<claimVars, claimed>>
  /\ ForgetRemoved

\* The claim is unlinked, whoever's it is by now.
Unclaim(p) ==
  /\ pc[p] \in {"won", "lost"}
  /\ IF claimed[p] THEN RemoveClaim ELSE UNCHANGED claimVars
  /\ claimed' = [claimed EXCEPT ![p] = FALSE]
  /\ \/ At(p, "won") /\ ~ phantom[p] /\ Goto(p, "create")
        /\ UNCHANGED <<judged, phantom, mine>>
     \/ (At(p, "lost") \/ phantom[p]) /\ Return(p, "idle")
  /\ UNCHANGED <<fileVars, aside, faults, residual>>

--------------------------------------------------------------------------------
(* release_lock. *)

\* The owner reads the file; another's token, or none, ends the release.
ReleaseRead(p) ==
  /\ At(p, "held")
  /\ \/ path = mine[p] /\ Goto(p, "relRename") /\ UNCHANGED <<judged, phantom, mine>>
     \/ path # mine[p] /\ Return(p, "idle")
  /\ UNCHANGED <<fileVars, claimVars, claimed, aside, faults, residual>>

\* The file cannot be read or moved: the lock stays behind.
ReleaseFails(p) ==
  /\ pc[p] \in {"held", "relRename"} /\ Fault
  /\ Return(p, "idle")
  /\ UNCHANGED <<fileVars, claimVars, claimed, aside, residual>>

ReleaseRename(p) ==
  /\ At(p, "relRename")
  /\ MoveAside(p, "relConfirm", Return(p, "idle"))

\* Variant: a read and an unlink, without a look at what was moved.
ReleaseAnything(p) ==
  /\ At(p, "relConfirm")
  /\ aside' = [aside EXCEPT ![p] = None]
  /\ Return(p, "idle")
  /\ UNCHANGED <<path, claimVars, claimed, faults, residual>>
  /\ ForgetRemoved

ReleaseConfirm(p) ==
  /\ At(p, "relConfirm")
  /\ \/ /\ aside[p] = mine[p]
        /\ aside' = [aside EXCEPT ![p] = None]
        /\ Return(p, "idle")
     \/ /\ aside[p] # mine[p]
        /\ Goto(p, "relPutBack") /\ UNCHANGED <<aside, judged, phantom, mine>>
  /\ UNCHANGED <<path, claimVars, claimed, faults, residual>>
  /\ ForgetRemoved

\* Work without the lock ends.
FinishUnlocked(p) ==
  /\ At(p, "unlocked") /\ Goto(p, "idle")
  /\ UNCHANGED <<fileVars, claimVars, breakVars, mine, aside, faults, residual>>

--------------------------------------------------------------------------------
(* Death and time. *)

\* A killed process leaves its files; another one runs in its place.
Crash(p) ==
  /\ ~ At(p, "idle") /\ Fault
  /\ Return(p, "idle")
  /\ aside' = [aside EXCEPT ![p] = None]
  /\ claimed' = [claimed EXCEPT ![p] = FALSE]
  /\ UNCHANGED <<path, claimVars, residual>>
  /\ empty' = empty \cap Files'
  /\ old' = old \cap Files'
  /\ dead' = (dead \cup {mine[p]}) \cap (Files' \ {None})

\* The lock at the path gets over-age; its holder may only be slow.
AgeLock ==
  /\ path \in Instances \ old
  /\ old' = old \cup {path}
  /\ residual' = (residual \/ \E p \in Procs : Live(p) /\ mine[p] = path)
  /\ UNCHANGED <<path, empty, dead, claimVars, breakVars, pc, mine, aside, faults>>

\* The claim gets over-age; its breaker may only be slow.
AgeClaim ==
  /\ claim # None /\ ~ claimOld
  /\ claimOld' = TRUE
  /\ residual' = (residual \/ \E p \in Procs : claimed[p])
  /\ UNCHANGED <<fileVars, claim, same, breakVars, pc, mine, aside, faults>>

\* What the code of process p does when no call fails.
Step(p) ==
  \/ WriteToken(p) \/ Stat(p) \/ CreateAgain(p)
  \/ CreateClaim(p) \/ ClaimStat(p) \/ ClaimRecheck(p) \/ ClaimUnlink(p)
  \/ Check(p) \/ BreakRename(p) \/ Confirm(p) \/ PutBack(p) \/ Unclaim(p)
  \/ ReleaseRead(p) \/ ReleaseRename(p) \/ ReleaseConfirm(p)
  \/ FinishUnlocked(p)

Failure(p) ==
  \/ AcquireFails(p) \/ WriteFails(p) \/ StatFails(p) \/ ClaimUnavailable(p)
  \/ CheckFails(p) \/ ConfirmFails(p) \/ PutBackReplaces(p) \/ ReleaseFails(p)
  \/ Crash(p)

Next ==
  \/ \E p \in Procs :
       Acquire(p) \/ InspectPhantom(p) \/ Step(p) \/ Failure(p)
  \/ AgeLock \/ AgeClaim

Spec == Init /\ [][Next]_vars

\* Processes finish what they began and take the lock again and again; an
\* abandoned file gets over-age.
FairSpec ==
  /\ Spec
  /\ \A p \in Procs : WF_vars(Step(p)) /\ WF_vars(Acquire(p))
  /\ WF_vars(AgeLock) /\ WF_vars(AgeClaim)

--------------------------------------------------------------------------------

\* Two processes hold the lock at once only after a window the comment at
\* host.py:790-812 documents has opened: a live holder or breaker over its
\* age, a claim reclaimed twice, a break without a claim.
AtMostOneHolder ==
  ~ residual => \A p, q \in Procs : At(p, "held") /\ At(q, "held") => p = q

\* The lock file of instance i is at the path, or with a process that may
\* still put it back.
Kept(i) == path = i \/ \E q \in Procs : aside[q] = i

\* Whatever windows have opened, a step in which nothing fails destroys the
\* lock of a holder only if that lock is over-age, or if the path has been
\* taken by another lock while it was aside (_break_confirmed_instance and
\* release_lock put back what is not theirs).
LiveLockKept ==
  [][\A p \in Procs :
       /\ At(p, "held") /\ At(p, "held")' /\ faults' = faults
       /\ Kept(mine[p]) /\ ~ Kept(mine[p])'
       => mine[p] \in old \/ path \notin {None, mine[p]}]_vars

\* The file a dead holder left behind, and a claim a dead breaker left behind,
\* do not keep the lock from being taken: the file goes away.
StaleLockReplaced ==
  \A i \in Instances :
    (path = i /\ \A p \in Procs : mine[p] # i) ~> path # i
================================================================================
