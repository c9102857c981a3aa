----------------------------- MODULE DeliveryLedger ----------------------------
(***************************************************************************)
(* The delivery ledger of one session (storelib/delivery_ledger.py): calls *)
(* that admit rows and publish them as segments, the compaction that       *)
(* merges segments into the base file, PreCompact's clear and the terminal *)
(* clear of a session, over the delivery-state lock.                       *)
(*                                                                         *)
(* A file of entries is a function from row ids to the time of the newest  *)
(* entry, 0 when there is none: the upsert law of _entry_replaces makes a  *)
(* merge the pointwise maximum.  The cap on entries is not modelled.       *)
(***************************************************************************)
EXTENDS Naturals, FiniteSets, FiniteSetsExt

CONSTANTS
  Ids, Segs,
  Recorders,    \* processes in record_undelivered
  Clearers,     \* processes in clear or end_delivery_state
  None, Dead,
  Window, MaxTime,
  MaxFaults     \* kills, failed writes, calls that wait for the lock in vain,
                \* locks that get over-age in use, and instants that pass

Procs == Recorders \cup Clearers

ASSUME ProcsAssumption ==
  /\ Recorders \cap Clearers = {}
  /\ None \notin Procs /\ Dead \notin Procs /\ None # Dead
ASSUME NumbersAssumption ==
  Window \in Nat /\ MaxTime \in Nat \ {0} /\ MaxFaults \in Nat

VARIABLES
  base,         \* the base file
  isFile,       \* it exists
  seg,          \* the segments; an absent one has no entries
  marker,       \* the terminal marker is there and younger than its TTL
  lock,         \* the holder of .delivery-state.lock, Dead when it was killed
  lockOld,      \* the lock file is over its stale age
  now,
  pc,
  at,           \* the time of a call
  want,         \* the rows a call delivers
  refresh,      \* it refreshes rows already delivered
  view,         \* what a call has read of the ledger
  lists,        \* the entries of the segments a compaction has read
  merged,       \* what it is about to write
  inputs,       \* the segments it has read
  stat,         \* the identity of the base file it last looked at
  defer,        \* it must not unlink
  op,           \* what a clearing process does: "clear" or "end"
  faults,
  recorded,     \* ghost: what was published and neither cleared nor dropped
  late,         \* ghost: an admission ran without the lock
  slow,         \* ghost: a lock got over-age while its holder changed the files
  gap           \* ghost: the base changed between a last look at it and a write

lockVars == <<lock, lockOld>>
fileVars == <<base, isFile, seg>>
callVars == <<at, want, refresh, view>>
mergeVars == <<lists, merged, inputs, stat, defer>>
ghostVars == <<recorded, late, slow, gap>>
vars == <<fileVars, marker, lockVars, now, pc, callVars, mergeVars, op, faults,
          ghostVars>>

Entries == [Ids -> 0..MaxTime]
Nothing == [i \in Ids |-> 0]

Critical == {"segs", "base", "publish"}
Compacting == {"merge", "revalidate", "write", "verify", "rewrite", "unlink"}
Clearing == {"mark", "clearBase", "clearSegs"}

Init ==
  /\ base = Nothing /\ isFile = FALSE
  /\ seg = [s \in Segs |-> Nothing]
  /\ marker = FALSE /\ lock = None /\ lockOld = FALSE
  /\ now = 1
  /\ pc = [p \in Procs |-> "idle"]
  /\ at = [p \in Recorders |-> 0]
  /\ want = [p \in Recorders |-> {}]
  /\ refresh = [p \in Recorders |-> FALSE]
  /\ view = [p \in Recorders |-> Nothing]
  /\ lists = [p \in Recorders |-> Nothing]
  /\ merged = [p \in Recorders |-> Nothing]
  /\ inputs = [p \in Recorders |-> {}]
  /\ stat = [p \in Recorders |-> "none"]
  /\ defer = [p \in Recorders |-> FALSE]
  /\ op = [p \in Clearers |-> "clear"]
  /\ faults = 0 /\ recorded = Nothing /\ late = FALSE /\ slow = FALSE /\ gap = FALSE

--------------------------------------------------------------------------------

At(p, here) == pc[p] = here
Goto(p, there) == pc' = [pc EXCEPT ![p] = there]
\* Bound: MaxFaults, on faults and on the instants that pass, together.
Room == faults + (now - 1) < MaxFaults
Fault == Room /\ faults' = faults + 1

Live == {s \in Segs : seg[s] # Nothing}

Newest(S) == [i \in Ids |-> Max({0} \cup {e[i] : e \in S})]

InWindow(ts, time) == ts > 0 /\ ts + Window >= time

\* _reduce_entries.
Reduce(b, l, time) ==
  [i \in Ids |-> LET ts == Newest({b, l})[i] IN IF InWindow(ts, time) THEN ts ELSE 0]

\* What delivered() returns when nothing else happens.
View == Reduce(base, Newest({seg[s] : s \in Segs}), now)

\* _delivery_state_lock: an over-age or a dead holder's lock is broken.
Acquirable == lock \in {None, Dead} \/ lockOld
Acquire(p, there) ==
  /\ Acquirable
  /\ lock' = p /\ lockOld' = FALSE
  /\ Goto(p, there)

\* _DELIVERY_LOCK_TIMEOUT_S is over.
TimesOut == lock # None

\* release_lock leaves another's lock alone.
Release(p) ==
  /\ lock' = IF lock = p THEN None ELSE lock
  /\ lockOld' = (lockOld /\ lock # p)

--------------------------------------------------------------------------------
(* record_undelivered. *)

\* Bound: no call that may need a segment begins, and no time passes, unless each
\* call at work can have one.
Spare == Cardinality(Segs \ Live) > Cardinality({p \in Recorders : ~ At(p, "idle")})

Record(p) ==
  /\ At(p, "idle")
  /\ \E W \in SUBSET Ids \ {{}}, r \in BOOLEAN :
       /\ Spare \/ (~ r /\ \A i \in W : View[i] > 0)
       /\ want' = [want EXCEPT ![p] = W]
       /\ refresh' = [refresh EXCEPT ![p] = r]
  /\ at' = [at EXCEPT ![p] = now]
  /\ view' = [view EXCEPT ![p] = Nothing]
  /\ Goto(p, "record")
  /\ UNCHANGED <<fileVars, marker, lockVars, now, mergeVars, op, faults, ghostVars>>

Enter(p) ==
  /\ At(p, "record") /\ Acquire(p, "segs")
  /\ UNCHANGED <<fileVars, marker, now, callVars, mergeVars, op, faults, ghostVars>>

\* Two seconds without the lock: the call goes on without it.
EnterUnlocked(p) ==
  /\ At(p, "record") /\ TimesOut /\ Fault
  /\ late' = TRUE
  /\ Goto(p, "segs")
  /\ UNCHANGED <<fileVars, marker, lockVars, now, callVars, mergeVars, op, recorded,
                 slow, gap>>

\* Variant: delivered() reads the base first.
PartsBaseFirst == [segs |-> base, base |-> Newest({seg[s] : s \in Segs})]

\* What the two steps of delivered() read, the segments before the base.
Parts == [segs |-> Newest({seg[s] : s \in Segs}), base |-> base]

ReadPart(p) ==
  /\ pc[p] \in DOMAIN Parts
  /\ view' = [view EXCEPT ![p] = Reduce(Parts[pc[p]], @, at[p])]
  /\ Goto(p, IF At(p, "segs") THEN "base" ELSE "publish")
  /\ UNCHANGED <<fileVars, marker, lockVars, now, at, want, refresh, mergeVars, op,
                 faults, ghostVars>>

\* The rows this call delivers first, and those it refreshes.
Fresh(p) == {i \in want[p] : view[p][i] = 0}
Refreshed(p) == {i \in want[p] : refresh[p] /\ at[p] >= view[p][i]}

\* The call needs its rows and its view no more.
Admitted(p) ==
  /\ Goto(p, "recorded")
  /\ want' = [want EXCEPT ![p] = {}]
  /\ refresh' = [refresh EXCEPT ![p] = FALSE]
  /\ view' = [view EXCEPT ![p] = Nothing]

\* _publish_segment.  A name is new to all who may still refer to one.
Publish(p) ==
  /\ At(p, "publish")
  /\ LET kept == Fresh(p) \cup Refreshed(p)
         entries == [i \in Ids |-> IF i \in kept THEN at[p] ELSE 0] IN
     \/ /\ kept = {} /\ UNCHANGED <<seg, recorded>>
     \/ /\ kept # {}
        /\ \E s \in Segs \ Live :
             /\ \A q \in Recorders : s \notin inputs[q]
             /\ seg' = [seg EXCEPT ![s] = entries]
        /\ recorded' = Newest({recorded, entries})
  /\ Admitted(p)
  /\ UNCHANGED <<base, isFile, marker, lockVars, now, at, mergeVars, op, faults,
                 late, slow, gap>>

\* The filesystem refuses the segment: its rows are lost.
PublishFails(p) ==
  /\ At(p, "publish") /\ Fault
  /\ Admitted(p)
  /\ UNCHANGED <<fileVars, marker, lockVars, now, at, mergeVars, op, ghostVars>>

Leave(p) ==
  /\ At(p, "recorded")
  /\ Release(p)
  /\ Goto(p, "stat")
  /\ UNCHANGED <<fileVars, marker, now, callVars, mergeVars, op, faults, ghostVars>>

--------------------------------------------------------------------------------
(* _try_compact: one pass; a backlog of more than 64 segments is not modelled. *)

\* What a pass holds in memory goes with it.
MergeForgotten(p) ==
  /\ inputs' = [inputs EXCEPT ![p] = {}]
  /\ lists' = [lists EXCEPT ![p] = Nothing]
  /\ merged' = [merged EXCEPT ![p] = Nothing]
  /\ stat' = [stat EXCEPT ![p] = "none"]
  /\ defer' = [defer EXCEPT ![p] = FALSE]

\* _delivery_lock_looks_stale, before the lock is taken.
StatLock(p) ==
  /\ At(p, "stat")
  /\ defer' = [defer EXCEPT ![p] = lockOld]
  /\ Goto(p, "compact")
  /\ UNCHANGED <<fileVars, marker, lockVars, now, callVars, lists, merged, inputs, stat,
                 op, faults, ghostVars>>

EnterCompaction(p) ==
  /\ At(p, "compact") /\ Acquire(p, "merge")
  /\ UNCHANGED <<fileVars, marker, now, callVars, mergeVars, op, faults, ghostVars>>

SkipCompaction(p) ==
  /\ At(p, "compact") /\ TimesOut /\ Fault
  /\ MergeForgotten(p)
  /\ Goto(p, "reap")
  /\ UNCHANGED <<fileVars, marker, lockVars, now, callVars, op, ghostVars>>

\* Variant: the pass only stops.
DropEndedNone(p) ==
  /\ At(p, "merge") /\ marker
  /\ Goto(p, "compacted")
  /\ UNCHANGED <<fileVars, marker, lockVars, now, callVars, mergeVars, op, faults,
                 ghostVars>>

\* The session has ended: its segments are dropped.
DropEnded(p) ==
  /\ At(p, "merge") /\ marker
  /\ seg' = [s \in Segs |-> Nothing]
  /\ recorded' = [i \in Ids |-> IF recorded[i] > base[i] THEN base[i] ELSE recorded[i]]
  /\ Goto(p, "compacted")
  /\ UNCHANGED <<base, isFile, marker, lockVars, now, callVars, mergeVars, op, faults,
                 late, slow, gap>>

NothingToMerge(p) ==
  /\ At(p, "merge") /\ ~ marker /\ Live = {}
  /\ Goto(p, "compacted")
  /\ UNCHANGED <<fileVars, marker, lockVars, now, callVars, mergeVars, op, faults, ghostVars>>

Identity == IF isFile THEN "file" ELSE "none"

Merge(p) ==
  /\ At(p, "merge") /\ ~ marker /\ Live # {}
  /\ inputs' = [inputs EXCEPT ![p] = Live]
  /\ lists' = [lists EXCEPT ![p] = Newest({seg[s] : s \in Live})]
  /\ merged' = [merged EXCEPT ![p] = Reduce(base, lists'[p], at[p])]
  /\ stat' = [stat EXCEPT ![p] = Identity]
  /\ Goto(p, "revalidate")
  /\ UNCHANGED <<fileVars, marker, lockVars, now, callVars, defer, op, faults, ghostVars>>

\* The base is read again as long as it has changed (the code tries three times).
Revalidate(p) ==
  /\ At(p, "revalidate")
  /\ \/ /\ stat[p] = Identity
        /\ Goto(p, "write")
        /\ UNCHANGED <<merged, stat>>
     \/ /\ stat[p] # Identity
        /\ merged' = [merged EXCEPT ![p] = Reduce(base, lists[p], at[p])]
        /\ stat' = [stat EXCEPT ![p] = Identity]
        /\ UNCHANGED pc
  /\ UNCHANGED <<fileVars, marker, lockVars, now, callVars, lists, inputs, defer, op,
                 faults, ghostVars>>

\* p changes the base between another's last look at it and its write.
Gap(p) == gap \/ \E q \in Recorders \ {p} : pc[q] \in {"write", "rewrite"}

\* The base file becomes b: whoever has looked at the old one can tell.
Replace(p, b) ==
  /\ base' = b /\ isFile' = TRUE
  /\ stat' = [q \in Recorders |->
                IF q = p THEN "file" ELSE IF stat[q] = "file" THEN "changed" ELSE stat[q]]
  /\ UNCHANGED seg

Write(p) ==
  /\ pc[p] \in {"write", "rewrite"}
  /\ gap' = Gap(p)
  /\ Replace(p, merged[p])
  /\ Goto(p, IF At(p, "write") THEN "verify" ELSE "unlink")
  /\ UNCHANGED <<marker, lockVars, now, callVars, lists, merged, inputs, defer, op, faults,
                 recorded, late, slow>>

\* A failed write leaves the segments for the next call.
WriteFails(p) ==
  /\ pc[p] \in {"write", "rewrite"} /\ Fault
  /\ Goto(p, "compacted")
  /\ UNCHANGED <<fileVars, marker, lockVars, now, callVars, mergeVars, op, ghostVars>>

\* The rows that were written must be there.
Verify(p) ==
  /\ At(p, "verify")
  /\ stat' = [stat EXCEPT ![p] = Identity]
  /\ IF \A i \in Ids : merged[p][i] > 0 => InWindow(base[i], at[p])
     THEN Goto(p, "unlink") /\ UNCHANGED merged
     ELSE /\ merged' = [merged EXCEPT ![p] = Reduce(base, lists[p], at[p])]
          /\ Goto(p, "rewrite")
  /\ UNCHANGED <<fileVars, marker, lockVars, now, callVars, lists, inputs, defer, op,
                 faults, ghostVars>>

\* Variants: the segments of the moment are unlinked; none is.
UnlinkLive(p) ==
  /\ At(p, "unlink")
  /\ seg' = IF defer[p] THEN seg ELSE [s \in Segs |-> Nothing]
  /\ Goto(p, "compacted")
  /\ UNCHANGED <<base, isFile, marker, lockVars, now, callVars, mergeVars, op, faults,
                 ghostVars>>
UnlinkNone(p) ==
  /\ At(p, "unlink")
  /\ Goto(p, "compacted")
  /\ UNCHANGED <<fileVars, marker, lockVars, now, callVars, mergeVars, op, faults,
                 ghostVars>>

\* Strictly the segments that were read.
Unlink(p) ==
  /\ At(p, "unlink")
  /\ seg' = IF defer[p] THEN seg
            ELSE [s \in Segs |-> IF s \in inputs[p] THEN Nothing ELSE seg[s]]
  /\ Goto(p, "compacted")
  /\ UNCHANGED <<base, isFile, marker, lockVars, now, callVars, mergeVars, op, faults,
                 ghostVars>>

LeaveCompaction(p) ==
  /\ At(p, "compacted")
  /\ Release(p)
  /\ MergeForgotten(p)
  /\ Goto(p, "reap")
  /\ UNCHANGED <<fileVars, marker, now, callVars, op, faults, ghostVars>>

\* _reap_dead_segments: those with no entry in the window.
Reap(p) ==
  /\ At(p, "reap")
  /\ seg' = [s \in Segs |->
               IF \E i \in Ids : InWindow(seg[s][i], at[p]) THEN seg[s] ELSE Nothing]
  /\ at' = [at EXCEPT ![p] = 0]
  /\ Goto(p, "idle")
  /\ UNCHANGED <<base, isFile, marker, lockVars, now, want, refresh, view, mergeVars, op,
                 faults, ghostVars>>

--------------------------------------------------------------------------------
(* clear and end_delivery_state. *)

Clear(p) ==
  /\ At(p, "idle")
  /\ \E o \in {"clear", "end"} : op' = [op EXCEPT ![p] = o]
  /\ Goto(p, "clear")
  /\ UNCHANGED <<fileVars, marker, lockVars, now, callVars, mergeVars, faults, ghostVars>>

\* Variant: without the lock.
EnterClearUnlocked(p) ==
  /\ At(p, "clear") /\ Goto(p, IF op[p] = "end" THEN "mark" ELSE "clearBase")
  /\ UNCHANGED <<fileVars, marker, lockVars, now, callVars, mergeVars, op, faults, ghostVars>>

EnterClear(p) ==
  /\ At(p, "clear") /\ Acquire(p, IF op[p] = "end" THEN "mark" ELSE "clearBase")
  /\ UNCHANGED <<fileVars, marker, now, callVars, mergeVars, op, faults, ghostVars>>

\* DeliveryStateLockError: nothing is cleared.
RefuseClear(p) ==
  /\ At(p, "clear") /\ TimesOut
  /\ Goto(p, "idle")
  /\ UNCHANGED <<fileVars, marker, lockVars, now, callVars, mergeVars, op, faults, ghostVars>>

Mark(p) ==
  /\ At(p, "mark")
  /\ marker' = TRUE
  /\ Goto(p, "clearBase")
  /\ UNCHANGED <<fileVars, lockVars, now, callVars, mergeVars, op, faults, ghostVars>>

ClearBase(p) ==
  /\ At(p, "clearBase")
  /\ base' = Nothing /\ isFile' = FALSE
  /\ recorded' = Nothing
  /\ gap' = Gap(p)
  /\ Goto(p, "clearSegs")
  /\ UNCHANGED <<seg, marker, lockVars, now, callVars, mergeVars, op, faults, late, slow>>

ClearSegs(p) ==
  /\ At(p, "clearSegs")
  /\ seg' = [s \in Segs |-> Nothing]
  /\ recorded' = Nothing
  /\ Goto(p, "cleared")
  /\ UNCHANGED <<base, isFile, marker, lockVars, now, callVars, mergeVars, op, faults,
                 late, slow, gap>>

LeaveClear(p) ==
  /\ At(p, "cleared")
  /\ Release(p)
  /\ Goto(p, "idle")
  /\ UNCHANGED <<fileVars, marker, now, callVars, mergeVars, op, faults, ghostVars>>

--------------------------------------------------------------------------------
(* Time and death. *)

Tick ==
  /\ now < MaxTime /\ Spare /\ Room
  /\ now' = now + 1
  /\ UNCHANGED <<fileVars, marker, lockVars, pc, callVars, mergeVars, op, faults, ghostVars>>

\* _DELIVERY_END_MARKER_TTL_S is over.
MarkerExpires ==
  /\ marker /\ marker' = FALSE
  /\ UNCHANGED <<fileVars, lockVars, now, pc, callVars, mergeVars, op, faults, ghostVars>>

\* _DELIVERY_LOCK_STALE_S is over and the holder still at work.
AgeLock ==
  /\ lock \in Procs /\ ~ lockOld /\ Fault
  /\ lockOld' = TRUE
  /\ late' = (late \/ pc[lock] \in Critical)
  /\ slow' = (slow \/ pc[lock] \in Compacting \cup Clearing)
  /\ UNCHANGED <<fileVars, marker, lock, now, pc, callVars, mergeVars, op, recorded, gap>>

\* A killed process leaves the files as they are, and its lock behind.
Crash(p) ==
  /\ ~ At(p, "idle") /\ Fault
  /\ lock' = IF lock = p THEN Dead ELSE lock
  /\ Goto(p, "idle")
  /\ \/ /\ p \in Recorders
        /\ at' = [at EXCEPT ![p] = 0]
        /\ want' = [want EXCEPT ![p] = {}]
        /\ refresh' = [refresh EXCEPT ![p] = FALSE]
        /\ view' = [view EXCEPT ![p] = Nothing]
        /\ MergeForgotten(p)
     \/ p \in Clearers /\ UNCHANGED <<callVars, mergeVars>>
  /\ UNCHANGED <<fileVars, marker, lockOld, now, op, ghostVars>>

RecorderStep(p) ==
  \/ Enter(p) \/ ReadPart(p) \/ Publish(p) \/ Leave(p)
  \/ StatLock(p) \/ EnterCompaction(p) \/ DropEnded(p) \/ NothingToMerge(p)
  \/ Merge(p) \/ Revalidate(p) \/ Write(p) \/ Verify(p) \/ Unlink(p)
  \/ LeaveCompaction(p) \/ Reap(p)

ClearerStep(p) ==
  \/ EnterClear(p) \/ Mark(p) \/ ClearBase(p) \/ ClearSegs(p) \/ LeaveClear(p)

Next ==
  \/ \E p \in Recorders :
       \/ Record(p) \/ RecorderStep(p)
       \/ EnterUnlocked(p) \/ PublishFails(p) \/ SkipCompaction(p) \/ WriteFails(p)
  \/ \E p \in Clearers : Clear(p) \/ ClearerStep(p) \/ RefuseClear(p)
  \/ \E p \in Procs : Crash(p)
  \/ Tick \/ MarkerExpires \/ AgeLock

Spec == Init /\ [][Next]_vars

\* Calls go on and finish; the lock is not for ever taken by others first.
FairSpec ==
  /\ Spec
  /\ \A p \in Recorders :
       /\ WF_vars(Record(p) \/ RecorderStep(p))
       /\ SF_vars(Enter(p) \/ EnterCompaction(p))
  /\ \A p \in Clearers : WF_vars(ClearerStep(p))

--------------------------------------------------------------------------------

\* A delivery that was recorded is seen, with its newest time, until the window
\* has passed or the ledger is cleared, whatever compactors, slow ones whose
\* lock was broken included, merge, replace and unlink meanwhile.
NothingLost ==
  ~ gap => \A i \in Ids : InWindow(recorded[i], now) => View[i] >= recorded[i]

\* record_undelivered: unless a call ran without the lock, it admits no row that
\* another has recorded and nobody cleared ("the loser either admits nothing AND
\* observes the winner's entries", delivery_ledger.py:1119-1120).
AdmittedOnce ==
  [][\A p \in Recorders :
       At(p, "publish") /\ At(p, "recorded")' /\ ~ late /\ ~ gap
       => \A i \in Fresh(p) : ~ InWindow(recorded[i], now)]_vars

Publishes == \E p \in Recorders : At(p, "publish") /\ At(p, "recorded")'

Shows == \E i \in Ids : View'[i] > View[i]

\* Rows come to the ledger by a call that records them, never by a compaction
\* that writes back what a clear has removed, as long as no lock is broken while
\* its holder compacts.
OnlyRecordingShows == [][Shows => Publishes \/ slow']_vars

\* When every call has returned under the terminal marker, also one made after
\* the end, and nothing failed, the ended session has no ledger.
EndedStaysEmpty ==
  marker /\ faults = 0 /\ (\A p \in Procs : At(p, "idle")) => View = Nothing

\* Segments do not stay: calls that go on fold them into the base.
SegmentsDrain ==
  \A s \in Segs : seg[s] # Nothing ~> seg[s] = Nothing
================================================================================
