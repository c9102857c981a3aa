-------------------------- MODULE DeliveryLedgerProofs --------------------------
(***************************************************************************)
(* What the delivery ledger promises, for any number of processes, rows    *)
(* and segments, any window and any failures: the safety properties of     *)
(* DeliveryLedger follow from the invariant IInv.                          *)
(***************************************************************************)
EXTENDS DeliveryLedger, FiniteSetTheorems, TLAPS

--------------------------------------------------------------------------------
(* Operators.                                                               *)

\* A finite set of numbers that is not empty has a greatest element: one without, of
\* the least size, would have one when an element is taken away.
LEMMA Greatest ==
  ASSUME NEW b \in Nat, NEW Z \in SUBSET (0 .. b), Z # {}
  PROVE  \E m \in Z : \A y \in Z : m >= y
<1> DEFINE Endless == {T \in SUBSET (0 .. b) : T # {} /\ \A x \in T : \E y \in T : ~ (x >= y)}
<1>1. SUFFICES ASSUME Endless # {}
               PROVE  FALSE
  BY <1>1
<1>2. PICK T \in Endless : \A U \in Endless : <<U, T>> \notin StrictSubsetOrdering(0 .. b)
  <2>1. Endless \subseteq FiniteSubsetsOf(0 .. b)
    BY FS_FiniteSubsetsOfFinite, FS_Interval
  <2>2. IsWellFoundedOn(StrictSubsetOrdering(0 .. b), FiniteSubsetsOf(0 .. b))
    BY FS_StrictSubsetOrderingWellFounded
  <2> QED
    BY <1>1, <2>1, <2>2, WFMin
<1>3. PICK t \in T : TRUE
  OBVIOUS
<1>4. T \ {t} \notin Endless
  <2>1. <<T \ {t}, T>> \in StrictSubsetOrdering(0 .. b)
    BY <1>3 DEF StrictSubsetOrdering
  <2> QED
    BY <1>2, <2>1
<1>5. T \ {t} # {}
  BY <1>3
<1>6. PICK u \in T \ {t} : \A y \in T \ {t} : u >= y
  BY <1>4, <1>5
<1>7. u \in Nat /\ t \in Nat
  BY <1>3
<1>8. CASE u >= t
  BY <1>3, <1>6, <1>7, <1>8
<1>9. CASE ~ (u >= t)
  <2>1. \A y \in T \ {t} : y \in Nat /\ t >= y
    BY <1>6, <1>7, <1>9
  <2> QED
    BY <1>3, <1>7, <2>1
<1> QED
  BY <1>8, <1>9

\* The newest entries of a set of files.
LEMMA NewestIs ==
  ASSUME NEW F \in SUBSET Entries
  PROVE  /\ Newest(F) \in Entries
         /\ \A i \in Ids : /\ \A e \in F : e[i] <= Newest(F)[i]
                           /\ Newest(F)[i] = 0 \/ \E e \in F : Newest(F)[i] = e[i]
<1>1. ASSUME NEW i \in Ids
      PROVE  /\ Newest(F)[i] \in 0 .. MaxTime
             /\ \A e \in F : e[i] <= Newest(F)[i]
             /\ Newest(F)[i] = 0 \/ \E e \in F : Newest(F)[i] = e[i]
  <2> DEFINE Z == {0} \cup {e[i] : e \in F}
  <2>1. MaxTime \in Nat
    BY NumbersAssumption
  <2>2. Z \in SUBSET (0 .. MaxTime) /\ Z # {}
    BY <2>1 DEF Entries
  <2>3. \E m \in Z : \A y \in Z : m >= y
    BY <2>1, <2>2, Greatest
  <2>4. Max(Z) \in Z /\ \A y \in Z : Max(Z) >= y
    BY <2>3 DEF Max
  <2>5. Newest(F)[i] = Max(Z)
    BY DEF Newest
  <2>6. \A e \in F : e[i] \in Z /\ e[i] \in Nat
    BY <2>1 DEF Entries
  <2>7. Max(Z) = 0 \/ \E e \in F : Max(Z) = e[i]
    BY <2>4
  <2>8. Max(Z) \in 0 .. MaxTime /\ \A e \in F : e[i] <= Max(Z)
    <3> HIDE DEF Z
    <3> QED
      BY <2>1, <2>2, <2>4, <2>6
  <2> QED
    BY <2>5, <2>7, <2>8
<1>2. Newest(F) = [i \in Ids |-> Newest(F)[i]]
  BY DEF Newest
<1> QED
  BY <1>1, <1>2 DEF Entries

\* What _reduce_entries returns of two files.
LEMMA ReduceIs ==
  ASSUME NEW b \in Entries, NEW l \in Entries, NEW time \in Nat
  PROVE  /\ Reduce(b, l, time) \in Entries
         /\ \A i \in Ids :
              \E ts \in 0 .. MaxTime :
                /\ ts >= b[i] /\ ts >= l[i] /\ ts \in {b[i], l[i]}
                /\ Reduce(b, l, time)[i] = IF InWindow(ts, time) THEN ts ELSE 0
<1>1. ASSUME NEW i \in Ids
      PROVE  \E ts \in 0 .. MaxTime :
                /\ ts >= b[i] /\ ts >= l[i] /\ ts \in {b[i], l[i]}
                /\ Reduce(b, l, time)[i] = IF InWindow(ts, time) THEN ts ELSE 0
  <2> DEFINE ts == Newest({b, l})[i]
  <2>1. MaxTime \in Nat /\ b[i] \in 0 .. MaxTime /\ l[i] \in 0 .. MaxTime
    BY NumbersAssumption DEF Entries
  <2>2. {b, l} \in SUBSET Entries
    OBVIOUS
  <2>3. /\ ts \in 0 .. MaxTime /\ b[i] <= ts /\ l[i] <= ts
        /\ ts = 0 \/ ts = b[i] \/ ts = l[i]
    BY <2>2, NewestIs DEF Entries
  <2>4. ts \in {b[i], l[i]}
    BY <2>1, <2>3
  <2>5. Reduce(b, l, time)[i] = IF InWindow(ts, time) THEN ts ELSE 0
    BY DEF Reduce
  <2> HIDE DEF ts
  <2> QED
    BY <2>1, <2>3, <2>4, <2>5
<1>2. Reduce(b, l, time) = [i \in Ids |-> Reduce(b, l, time)[i]]
  BY DEF Reduce
<1>3. \A i \in Ids : Reduce(b, l, time)[i] \in 0 .. MaxTime
  BY <1>1, NumbersAssumption
<1> QED
  BY <1>1, <1>2, <1>3 DEF Entries

--------------------------------------------------------------------------------
(* The invariant.                                                           *)

RecorderPhases ==
  {"idle", "record", "recorded", "stat", "compact", "compacted", "reap"}
    \cup Critical \cup Compacting
ClearerPhases == {"idle", "clear", "cleared"} \cup Clearing

TypeOK ==
  /\ base \in Entries /\ isFile \in BOOLEAN /\ seg \in [Segs -> Entries]
  /\ marker \in BOOLEAN /\ lock \in Procs \cup {None, Dead} /\ lockOld \in BOOLEAN
  /\ now \in 1..MaxTime
  /\ pc \in [Procs -> RecorderPhases \cup ClearerPhases]
  /\ \A p \in Recorders : pc[p] \in RecorderPhases
  /\ \A p \in Clearers : pc[p] \in ClearerPhases
  /\ at \in [Recorders -> 0..MaxTime] /\ \A p \in Recorders : at[p] <= now
  /\ want \in [Recorders -> SUBSET Ids] /\ refresh \in [Recorders -> BOOLEAN]
  /\ view \in [Recorders -> Entries]
  /\ lists \in [Recorders -> Entries] /\ merged \in [Recorders -> Entries]
  /\ inputs \in [Recorders -> SUBSET Segs]
  /\ stat \in [Recorders -> {"none", "file", "changed"}]
  /\ defer \in [Recorders -> BOOLEAN] /\ op \in [Clearers -> {"clear", "end"}]
  /\ faults \in Nat /\ recorded \in Entries
  /\ late \in BOOLEAN /\ slow \in BOOLEAN /\ gap \in BOOLEAN

\* The phases of a compaction that has read its segments, those in which it will
\* still write what it read, and those in which it will unlink without writing.
Merging == {"revalidate", "write", "verify", "rewrite", "unlink"}
Writing == {"write", "rewrite"}
Unlinking == {"verify", "unlink"}
Locked == Critical \cup Compacting \cup Clearing \cup {"recorded", "compacted", "cleared"}

Holds(p) == lock = p /\ ~ lockOld

\* Who is in a section has its lock, unless that is on record.
LockInv ==
  \A p \in Procs :
    /\ ~ late /\ pc[p] \in Critical => Holds(p)
    /\ ~ slow /\ pc[p] \in Compacting \cup Clearing => Holds(p)
    /\ faults = 0 /\ pc[p] \in Locked => Holds(p)

\* Two writers meet only after a lock was broken.
GapInv == gap => slow

\* What a compaction is about to write is what it read, merged with the base.
MergeInv ==
  /\ ~ isFile => base = Nothing
  /\ \A p \in Recorders :
       /\ pc[p] \in Merging =>
            \A s \in inputs[p], i \in Ids : seg[s][i] <= lists[p][i]
       /\ pc[p] = "revalidate" /\ stat[p] = "none" =>
            merged[p] = Reduce(Nothing, lists[p], at[p])
       /\ pc[p] = "revalidate" /\ stat[p] = "file" /\ isFile =>
            merged[p] = Reduce(base, lists[p], at[p])
       /\ ~ gap /\ pc[p] \in Writing => merged[p] = Reduce(base, lists[p], at[p])

\* Segment s stays until somebody has written what it has.
Safe(s) == \A p \in Recorders : pc[p] \in Unlinking => s \notin inputs[p]

\* What is recorded is in the base or in a segment that stays.
KeptInv ==
  ~ gap => \A i \in Ids : InWindow(recorded[i], now) =>
             \/ base[i] >= recorded[i]
             \/ \E s \in Segs : seg[s][i] >= recorded[i] /\ Safe(s)

\* A call under the lock has seen what is recorded, or will see it in the base.
SeenInv ==
  ~ late /\ ~ gap =>
    \A p \in Recorders, i \in Ids : InWindow(recorded[i], now) =>
      /\ pc[p] = "base" => view[p][i] >= recorded[i] \/ base[i] >= recorded[i]
      /\ pc[p] = "publish" => view[p][i] >= recorded[i]

\* What a compaction under the lock will write is still in a segment.
SourceInv ==
  ~ slow =>
    \A p \in Recorders, i \in Ids :
      pc[p] \in Merging \ {"unlink"} /\ InWindow(lists[p][i], now) =>
        \E s \in Segs : seg[s][i] >= lists[p][i]

\* After the end, entries are there only until their writer or the clear is done.
EndedInv ==
  faults = 0 /\ marker =>
    /\ \A p \in Recorders : pc[p] \notin Merging
    /\ base = Nothing \/ \E c \in Clearers : pc[c] = "clearBase"
    /\ \/ \A s \in Segs : seg[s] = Nothing
       \/ \E c \in Clearers : pc[c] \in {"clearBase", "clearSegs"}
       \/ \E p \in Recorders : pc[p] \in {"recorded", "stat", "compact", "merge"}

IInv == TypeOK /\ LockInv /\ GapInv /\ MergeInv /\ KeptInv /\ SeenInv /\ SourceInv /\ EndedInv

--------------------------------------------------------------------------------
(* Types.                                                                   *)

LEMMA NothingIs == Nothing \in Entries /\ \A i \in Ids : Nothing[i] = 0
  BY NumbersAssumption DEF Entries, Nothing

LEMMA TypeInit == Init => TypeOK
<1> SUFFICES ASSUME Init PROVE TypeOK
  OBVIOUS
<1> USE NumbersAssumption, NothingIs DEF Init
<1>1. pc \in [Procs -> RecorderPhases \cup ClearerPhases]
  BY DEF RecorderPhases
<1>2. \A p \in Procs : pc[p] \in RecorderPhases /\ pc[p] \in ClearerPhases
  BY DEF RecorderPhases, ClearerPhases
<1>3. at \in [Recorders -> 0..MaxTime] /\ \A p \in Recorders : at[p] <= now
  OBVIOUS
<1>4. /\ view \in [Recorders -> Entries] /\ lists \in [Recorders -> Entries]
      /\ merged \in [Recorders -> Entries] /\ seg \in [Segs -> Entries]
  OBVIOUS
<1>5. /\ want \in [Recorders -> SUBSET Ids] /\ refresh \in [Recorders -> BOOLEAN]
      /\ inputs \in [Recorders -> SUBSET Segs] /\ defer \in [Recorders -> BOOLEAN]
      /\ stat \in [Recorders -> {"none", "file", "changed"}]
      /\ op \in [Clearers -> {"clear", "end"}]
  OBVIOUS
<1>6. base \in Entries /\ recorded \in Entries /\ now \in 1..MaxTime
  OBVIOUS
<1>7. /\ isFile \in BOOLEAN /\ marker \in BOOLEAN /\ lock \in Procs \cup {None, Dead}
      /\ lockOld \in BOOLEAN /\ faults \in Nat
      /\ late \in BOOLEAN /\ slow \in BOOLEAN /\ gap \in BOOLEAN
  OBVIOUS
<1> QED
  BY <1>1, <1>2, <1>3, <1>4, <1>5, <1>6, <1>7 DEF TypeOK, Procs

LEMMA ReadPartIs ==
  ASSUME TypeOK, NEW p \in Recorders, ReadPart(p)
  PROVE  \/ /\ pc[p] = "segs" /\ pc' = [pc EXCEPT ![p] = "base"]
            /\ view' = [view EXCEPT ![p] = Reduce(Newest({seg[s] : s \in Segs}), view[p], at[p])]
         \/ /\ pc[p] = "base" /\ pc' = [pc EXCEPT ![p] = "publish"]
            /\ view' = [view EXCEPT ![p] = Reduce(base, view[p], at[p])]
<1>1. DOMAIN Parts = {"segs", "base"}
  BY DEF Parts
<1>2. pc[p] = "segs" \/ pc[p] = "base"
  BY <1>1 DEF ReadPart
<1>3. /\ Parts["segs"] = Newest({seg[s] : s \in Segs})
      /\ Parts["base"] = base
  BY DEF Parts
<1>4. /\ pc' = [pc EXCEPT ![p] = IF pc[p] = "segs" THEN "base" ELSE "publish"]
      /\ view' = [view EXCEPT ![p] = Reduce(Parts[pc[p]], view[p], at[p])]
  BY DEF ReadPart, Goto, At, TypeOK
<1>5. CASE pc[p] = "segs"
  BY <1>3, <1>4, <1>5
<1>6. CASE pc[p] = "base"
  BY <1>3, <1>4, <1>6
<1> QED
  BY <1>2, <1>5, <1>6

LEMMA TypeStep ==
  ASSUME TypeOK, Next
  PROVE  TypeOK'
<1> USE NumbersAssumption, ProcsAssumption, NothingIs
<1> USE DEF TypeOK, At, Goto, lockVars, fileVars, callVars, mergeVars, ghostVars, Procs,
            RecorderPhases, ClearerPhases, Critical, Compacting, Clearing
<1>1. ASSUME NEW p \in Recorders, Record(p) PROVE TypeOK'
  BY <1>1 DEF Record
<1>2. ASSUME NEW p \in Recorders, Enter(p) PROVE TypeOK'
  BY <1>2 DEF Enter, Acquire
<1>3. ASSUME NEW p \in Recorders, ReadPart(p) PROVE TypeOK'
  <2>1. Parts[pc[p]] \in Entries
    <3>1. Newest({seg[s] : s \in Segs}) \in Entries
      BY NewestIs
    <3> QED
      BY <1>3, <3>1 DEF ReadPart, Parts
  <2>2. Reduce(Parts[pc[p]], view[p], at[p]) \in Entries
    <3>1. at[p] \in Nat /\ view[p] \in Entries
      OBVIOUS
    <3> QED
      BY <2>1, <3>1, ReduceIs
  <2> QED
    BY <1>3, <2>2 DEF ReadPart
<1>4. ASSUME NEW p \in Recorders, Publish(p) PROVE TypeOK'
  <2>1. \A K \in SUBSET Ids : [i \in Ids |-> IF i \in K THEN at[p] ELSE 0] \in Entries
    BY DEF Entries
  <2>2. Fresh(p) \cup Refreshed(p) \in SUBSET Ids
    BY DEF Fresh, Refreshed
  <2>3. \A e \in Entries : Newest({recorded, e}) \in Entries
    BY NewestIs
  <2>4. seg' \in [Segs -> Entries] /\ recorded' \in Entries
    <3> DEFINE e == [i \in Ids |-> IF i \in Fresh(p) \cup Refreshed(p) THEN at[p] ELSE 0]
    <3>1. \/ seg' = seg /\ recorded' = recorded
          \/ (\E s \in Segs : seg' = [seg EXCEPT ![s] = e]) /\ recorded' = Newest({recorded, e})
      BY <1>4 DEF Publish
    <3>2. e \in Entries
      BY <2>1, <2>2
    <3> HIDE DEF e
    <3> QED
      BY <2>3, <3>1, <3>2
  <2> QED
    BY <1>4, <2>4 DEF Publish, Admitted
<1>5. ASSUME NEW p \in Recorders, Leave(p) PROVE TypeOK'
  BY <1>5 DEF Leave, Release
<1>6. ASSUME NEW p \in Recorders, StatLock(p) PROVE TypeOK'
  BY <1>6 DEF StatLock
<1>7. ASSUME NEW p \in Recorders, EnterCompaction(p) PROVE TypeOK'
  BY <1>7 DEF EnterCompaction, Acquire
<1>8. ASSUME NEW p \in Recorders, DropEnded(p) PROVE TypeOK'
  <2>1. recorded' \in Entries
    BY <1>8 DEF DropEnded, Entries
  <2> QED
    BY <1>8, <2>1 DEF DropEnded
<1>9. ASSUME NEW p \in Recorders, NothingToMerge(p) PROVE TypeOK'
  BY <1>9 DEF NothingToMerge
<1>10. ASSUME NEW p \in Recorders, Merge(p) PROVE TypeOK'
  <2>1. Newest({seg[s] : s \in Live}) \in Entries
    BY NewestIs DEF Live
  <2>2. lists'[p] \in Entries /\ inputs' \in [Recorders -> SUBSET Segs]
    BY <1>10, <2>1 DEF Merge, Live
  <2>4. at[p] \in Nat
    OBVIOUS
  <2>3. Reduce(base, lists'[p], at[p]) \in Entries
    BY <2>2, <2>4, ReduceIs
  <2> QED
    BY <1>10, <2>1, <2>2, <2>3 DEF Merge, Identity
<1>11. ASSUME NEW p \in Recorders, Revalidate(p) PROVE TypeOK'
  <2>1. Reduce(base, lists[p], at[p]) \in Entries
    BY ReduceIs
  <2> QED
    BY <1>11, <2>1 DEF Revalidate, Identity
<1>12. ASSUME NEW p \in Recorders, Write(p) PROVE TypeOK'
  BY <1>12 DEF Write, Replace, Gap
<1>13. ASSUME NEW p \in Recorders, Verify(p) PROVE TypeOK'
  <2>1. Reduce(base, lists[p], at[p]) \in Entries
    BY ReduceIs
  <2> QED
    BY <1>13, <2>1 DEF Verify, Identity
<1>14. ASSUME NEW p \in Recorders, Unlink(p) PROVE TypeOK'
  <2>1. seg' \in [Segs -> Entries]
    BY <1>14 DEF Unlink
  <2> QED
    BY <1>14, <2>1 DEF Unlink
<1>15. ASSUME NEW p \in Recorders, LeaveCompaction(p) PROVE TypeOK'
  BY <1>15 DEF LeaveCompaction, Release, MergeForgotten
<1>16. ASSUME NEW p \in Recorders, Reap(p) PROVE TypeOK'
  <2>1. seg' \in [Segs -> Entries]
    BY <1>16 DEF Reap
  <2> QED
    BY <1>16, <2>1 DEF Reap
<1>17. ASSUME NEW p \in Recorders, EnterUnlocked(p) PROVE TypeOK'
  BY <1>17 DEF EnterUnlocked, Fault
<1>18. ASSUME NEW p \in Recorders, PublishFails(p) PROVE TypeOK'
  BY <1>18 DEF PublishFails, Admitted, Fault
<1>19. ASSUME NEW p \in Recorders, SkipCompaction(p) PROVE TypeOK'
  BY <1>19 DEF SkipCompaction, MergeForgotten, Fault
<1>20. ASSUME NEW p \in Recorders, WriteFails(p) PROVE TypeOK'
  BY <1>20 DEF WriteFails, Fault
<1>21. ASSUME NEW p \in Clearers, Clear(p) PROVE TypeOK'
  BY <1>21 DEF Clear
<1>22. ASSUME NEW p \in Clearers, EnterClear(p) PROVE TypeOK'
  BY <1>22 DEF EnterClear, Acquire
<1>23. ASSUME NEW p \in Clearers, Mark(p) PROVE TypeOK'
  BY <1>23 DEF Mark
<1>24. ASSUME NEW p \in Clearers, ClearBase(p) PROVE TypeOK'
  BY <1>24 DEF ClearBase, Gap
<1>25. ASSUME NEW p \in Clearers, ClearSegs(p) PROVE TypeOK'
  BY <1>25 DEF ClearSegs
<1>26. ASSUME NEW p \in Clearers, LeaveClear(p) PROVE TypeOK'
  BY <1>26 DEF LeaveClear, Release
<1>27. ASSUME NEW p \in Clearers, RefuseClear(p) PROVE TypeOK'
  BY <1>27 DEF RefuseClear
<1>28. ASSUME NEW p \in Procs, Crash(p) PROVE TypeOK'
  <2>1. /\ pc' \in [Procs -> RecorderPhases \cup ClearerPhases]
        /\ \A q \in Recorders : pc'[q] \in RecorderPhases
        /\ \A q \in Clearers : pc'[q] \in ClearerPhases
    BY <1>28 DEF Crash
  <2>2. CASE p \in Recorders
    <3>3. /\ at' = [at EXCEPT ![p] = 0] /\ want' = [want EXCEPT ![p] = {}]
          /\ refresh' = [refresh EXCEPT ![p] = FALSE] /\ view' = [view EXCEPT ![p] = Nothing]
          /\ MergeForgotten(p)
      <4>1. p \notin Clearers
        BY <2>2
      <4> QED
        BY <1>28, <4>1 DEF Crash
    <3>1. /\ at' \in [Recorders -> 0..MaxTime] /\ \A q \in Recorders : at'[q] <= now
          /\ want' \in [Recorders -> SUBSET Ids] /\ refresh' \in [Recorders -> BOOLEAN]
          /\ view' \in [Recorders -> Entries]
      BY <2>2, <3>3
    <3>2. /\ lists' \in [Recorders -> Entries] /\ merged' \in [Recorders -> Entries]
          /\ inputs' \in [Recorders -> SUBSET Segs]
          /\ stat' \in [Recorders -> {"none", "file", "changed"}]
          /\ defer' \in [Recorders -> BOOLEAN]
      BY <2>2, <3>3 DEF MergeForgotten
    <3> QED
      BY <1>28, <2>1, <3>1, <3>2 DEF Crash, Fault
  <2>3. CASE p \notin Recorders
    BY <1>28, <2>1, <2>3 DEF Crash, Fault
  <2> QED
    BY <2>2, <2>3
<1>29. ASSUME Tick PROVE TypeOK'
  BY <1>29 DEF Tick
<1>30. ASSUME MarkerExpires PROVE TypeOK'
  BY <1>30 DEF MarkerExpires
<1>31. ASSUME AgeLock PROVE TypeOK'
  BY <1>31 DEF AgeLock, Fault
<1> QED
  BY <1>1, <1>2, <1>3, <1>4, <1>5, <1>6, <1>7, <1>8, <1>9, <1>10, <1>11, <1>12, <1>13, <1>14, <1>15, <1>16, <1>17, <1>18, <1>19, <1>20, <1>21, <1>22, <1>23, <1>24, <1>25, <1>26, <1>27, <1>28, <1>29, <1>30, <1>31 DEF Next, RecorderStep, ClearerStep

--------------------------------------------------------------------------------
(* The lock.                                                                *)

LEMMA LockStep ==
  ASSUME TypeOK, LockInv, Next
  PROVE  LockInv'
<1> SUFFICES ASSUME NEW q \in Procs
             PROVE  /\ ~ late' /\ pc'[q] \in Critical => Holds(q)'
                    /\ ~ slow' /\ pc'[q] \in Compacting \cup Clearing => Holds(q)'
                    /\ faults' = 0 /\ pc'[q] \in Locked => Holds(q)'
  BY DEF LockInv
<1> DEFINE Good == /\ ~ late' /\ pc'[q] \in Critical => Holds(q)'
                   /\ ~ slow' /\ pc'[q] \in Compacting \cup Clearing => Holds(q)'
                   /\ faults' = 0 /\ pc'[q] \in Locked => Holds(q)'
<1>0. /\ ~ late /\ pc[q] \in Critical => Holds(q)
      /\ ~ slow /\ pc[q] \in Compacting \cup Clearing => Holds(q)
      /\ faults = 0 /\ pc[q] \in Locked => Holds(q)
  BY DEF LockInv
<1>t. /\ pc \in [Procs -> RecorderPhases \cup ClearerPhases] /\ faults \in Nat
      /\ \A p \in Recorders : pc[p] \in RecorderPhases
      /\ lock \in Procs \cup {None, Dead} /\ lockOld \in BOOLEAN
      /\ late \in BOOLEAN /\ slow \in BOOLEAN
  BY DEF TypeOK
<1> USE ProcsAssumption, <1>0, <1>t
<1> USE DEF Procs, At, Goto, lockVars, ghostVars, Holds, Locked,
            Critical, Compacting, Clearing
<1>1. ASSUME NEW p \in Recorders, Record(p) PROVE Good
  BY <1>1 DEF Record
<1>2. ASSUME NEW p \in Recorders, Enter(p) PROVE Good
  BY <1>2 DEF Enter, Acquire, Acquirable
<1>3. ASSUME NEW p \in Recorders, ReadPart(p) PROVE Good
  <2>1. \/ pc[p] = "segs" /\ pc' = [pc EXCEPT ![p] = "base"]
        \/ pc[p] = "base" /\ pc' = [pc EXCEPT ![p] = "publish"]
    BY <1>3, ReadPartIs
  <2> QED
    BY <1>3, <2>1 DEF ReadPart
<1>4. ASSUME NEW p \in Recorders, Publish(p) PROVE Good
  BY <1>4 DEF Publish, Admitted
<1>5. ASSUME NEW p \in Recorders, Leave(p) PROVE Good
  BY <1>5 DEF Leave, Release
<1>6. ASSUME NEW p \in Recorders, StatLock(p) PROVE Good
  BY <1>6 DEF StatLock
<1>7. ASSUME NEW p \in Recorders, EnterCompaction(p) PROVE Good
  BY <1>7 DEF EnterCompaction, Acquire, Acquirable
<1>8. ASSUME NEW p \in Recorders, DropEnded(p) PROVE Good
  BY <1>8 DEF DropEnded
<1>9. ASSUME NEW p \in Recorders, NothingToMerge(p) PROVE Good
  BY <1>9 DEF NothingToMerge
<1>10. ASSUME NEW p \in Recorders, Merge(p) PROVE Good
  BY <1>10 DEF Merge
<1>11. ASSUME NEW p \in Recorders, Revalidate(p) PROVE Good
  BY <1>11 DEF Revalidate
<1>12. ASSUME NEW p \in Recorders, Write(p) PROVE Good
  BY <1>12 DEF Write
<1>13. ASSUME NEW p \in Recorders, Verify(p) PROVE Good
  BY <1>13 DEF Verify
<1>14. ASSUME NEW p \in Recorders, Unlink(p) PROVE Good
  BY <1>14 DEF Unlink
<1>15. ASSUME NEW p \in Recorders, LeaveCompaction(p) PROVE Good
  BY <1>15 DEF LeaveCompaction, Release
<1>16. ASSUME NEW p \in Recorders, Reap(p) PROVE Good
  BY <1>16 DEF Reap
<1>17. ASSUME NEW p \in Recorders, EnterUnlocked(p) PROVE Good
  BY <1>17 DEF EnterUnlocked, Fault
<1>18. ASSUME NEW p \in Recorders, PublishFails(p) PROVE Good
  BY <1>18 DEF PublishFails, Admitted, Fault
<1>19. ASSUME NEW p \in Recorders, SkipCompaction(p) PROVE Good
  BY <1>19 DEF SkipCompaction, Fault
<1>20. ASSUME NEW p \in Recorders, WriteFails(p) PROVE Good
  BY <1>20 DEF WriteFails, Fault
<1>21. ASSUME NEW p \in Clearers, Clear(p) PROVE Good
  BY <1>21 DEF Clear
<1>22. ASSUME NEW p \in Clearers, EnterClear(p) PROVE Good
  BY <1>22 DEF EnterClear, Acquire, Acquirable
<1>23. ASSUME NEW p \in Clearers, Mark(p) PROVE Good
  BY <1>23 DEF Mark
<1>24. ASSUME NEW p \in Clearers, ClearBase(p) PROVE Good
  BY <1>24 DEF ClearBase
<1>25. ASSUME NEW p \in Clearers, ClearSegs(p) PROVE Good
  BY <1>25 DEF ClearSegs
<1>26. ASSUME NEW p \in Clearers, LeaveClear(p) PROVE Good
  BY <1>26 DEF LeaveClear, Release
<1>27. ASSUME NEW p \in Clearers, RefuseClear(p) PROVE Good
  BY <1>27 DEF RefuseClear
<1>28. ASSUME NEW p \in Procs, Crash(p) PROVE Good
  BY <1>28 DEF Crash, Fault
<1>29. ASSUME Tick PROVE Good
  BY <1>29 DEF Tick
<1>30. ASSUME MarkerExpires PROVE Good
  BY <1>30 DEF MarkerExpires
<1>31. ASSUME AgeLock PROVE Good
  <2>1. /\ faults' # 0 /\ pc' = pc /\ lock' = lock
        /\ late' = (late \/ pc[lock] \in Critical)
        /\ slow' = (slow \/ pc[lock] \in Compacting \cup Clearing)
    BY <1>31 DEF AgeLock, Fault
  <2>2. CASE lock = q
    BY <2>1, <2>2
  <2>3. CASE lock # q
    <3>1. ~ Holds(q)
      BY <2>3
    <3>2. (late' \/ pc[q] \notin Critical) /\ (slow' \/ pc[q] \notin Compacting \cup Clearing)
      BY <2>1, <3>1
    <3> QED
      BY <2>1, <3>2
  <2> QED
    BY <2>2, <2>3
<1> QED
  BY <1>1, <1>2, <1>3, <1>4, <1>5, <1>6, <1>7, <1>8, <1>9, <1>10, <1>11, <1>12, <1>13, <1>14, <1>15, <1>16, <1>17, <1>18, <1>19, <1>20, <1>21, <1>22, <1>23, <1>24, <1>25, <1>26, <1>27, <1>28, <1>29, <1>30, <1>31 DEF Next, RecorderStep, ClearerStep

--------------------------------------------------------------------------------
(* Steps.                                                                   *)

\* A step that touches neither the files nor a compaction that has read its segments.
Quiet ==
  /\ UNCHANGED <<fileVars, recorded, gap>>
  /\ (late => late') /\ (slow => slow') /\ now' >= now
  /\ \A q \in Recorders : pc'[q] \in Merging =>
       /\ pc[q] = pc'[q] /\ at'[q] = at[q] /\ lists'[q] = lists[q]
       /\ merged'[q] = merged[q] /\ inputs'[q] = inputs[q] /\ stat'[q] = stat[q]

Loud(p) ==
  \/ Publish(p) \/ DropEnded(p) \/ Merge(p) \/ Revalidate(p) \/ Write(p) \/ Verify(p)
  \/ Unlink(p) \/ Reap(p)

LEMMA QuietSteps ==
  ASSUME TypeOK, Next
  PROVE  \/ Quiet
         \/ \E p \in Recorders : Loud(p)
         \/ \E p \in Clearers : ClearBase(p) \/ ClearSegs(p)
<1>t. /\ pc \in [Procs -> RecorderPhases \cup ClearerPhases]
      /\ \A p \in Clearers : pc[p] \in ClearerPhases
      /\ at \in [Recorders -> 0..MaxTime] /\ lists \in [Recorders -> Entries]
      /\ merged \in [Recorders -> Entries] /\ inputs \in [Recorders -> SUBSET Segs]
      /\ stat \in [Recorders -> {"none", "file", "changed"}] /\ now \in 1..MaxTime
  BY DEF TypeOK
<1> USE ProcsAssumption, NumbersAssumption, <1>t
<1> USE DEF Procs, At, Goto, lockVars, fileVars, callVars, mergeVars, ghostVars, Quiet, Merging
<1>1. ASSUME NEW p \in Recorders, Record(p) PROVE Quiet
  BY <1>1 DEF Record
<1>2. ASSUME NEW p \in Recorders, Enter(p) PROVE Quiet
  BY <1>2 DEF Enter, Acquire
<1>3. ASSUME NEW p \in Recorders, ReadPart(p) PROVE Quiet
  BY <1>3, ReadPartIs DEF ReadPart
<1>4. ASSUME NEW p \in Recorders, Leave(p) PROVE Quiet
  BY <1>4 DEF Leave
<1>5. ASSUME NEW p \in Recorders, StatLock(p) PROVE Quiet
  BY <1>5 DEF StatLock
<1>6. ASSUME NEW p \in Recorders, EnterCompaction(p) PROVE Quiet
  BY <1>6 DEF EnterCompaction, Acquire
<1>7. ASSUME NEW p \in Recorders, NothingToMerge(p) PROVE Quiet
  BY <1>7 DEF NothingToMerge
<1>8. ASSUME NEW p \in Recorders, LeaveCompaction(p) PROVE Quiet
  BY <1>8 DEF LeaveCompaction, MergeForgotten
<1>9. ASSUME NEW p \in Recorders, EnterUnlocked(p) PROVE Quiet
  BY <1>9 DEF EnterUnlocked
<1>10. ASSUME NEW p \in Recorders, PublishFails(p) PROVE Quiet
  BY <1>10 DEF PublishFails, Admitted
<1>11. ASSUME NEW p \in Recorders, SkipCompaction(p) PROVE Quiet
  BY <1>11 DEF SkipCompaction, MergeForgotten, Fault
<1>12. ASSUME NEW p \in Recorders, WriteFails(p) PROVE Quiet
  BY <1>12 DEF WriteFails
<1>13. ASSUME NEW p \in Clearers, Clear(p) PROVE Quiet
  BY <1>13 DEF Clear
<1>14. ASSUME NEW p \in Clearers, EnterClear(p) PROVE Quiet
  BY <1>14 DEF EnterClear, Acquire
<1>15. ASSUME NEW p \in Clearers, Mark(p) PROVE Quiet
  BY <1>15 DEF Mark
<1>16. ASSUME NEW p \in Clearers, LeaveClear(p) PROVE Quiet
  BY <1>16 DEF LeaveClear
<1>17. ASSUME NEW p \in Clearers, RefuseClear(p) PROVE Quiet
  BY <1>17 DEF RefuseClear
<1>18. ASSUME NEW p \in Procs, Crash(p) PROVE Quiet
  BY <1>18 DEF Crash, MergeForgotten
<1>19. ASSUME Tick PROVE Quiet
  BY <1>19 DEF Tick
<1>20. ASSUME MarkerExpires PROVE Quiet
  BY <1>20 DEF MarkerExpires
<1>21. ASSUME AgeLock PROVE Quiet
  <2>1. (late => late') /\ (slow => slow')
    BY ONLY <1>21, Zenon DEF AgeLock
  <2>2. /\ UNCHANGED <<fileVars, recorded, gap, now, pc>>
        /\ UNCHANGED <<at, lists, merged, inputs, stat>>
    BY <1>21 DEF AgeLock
  <2> QED
    BY <2>1, <2>2
<1> QED
  BY <1>1, <1>2, <1>3, <1>4, <1>5, <1>6, <1>7, <1>8, <1>9, <1>10, <1>11, <1>12, <1>13, <1>14, <1>15, <1>16, <1>17, <1>18, <1>19, <1>20, <1>21 DEF Next, RecorderStep, ClearerStep, Loud

LEMMA GapStep ==
  ASSUME TypeOK, LockInv, GapInv, Next
  PROVE  GapInv'
<1>1. CASE Quiet
  BY <1>1 DEF Quiet, GapInv
<1>2. ASSUME NEW p \in Recorders \cup Clearers, pc[p] \in Writing \cup {"clearBase"},
             gap' = Gap(p), slow' = slow
      PROVE  GapInv'
  <2>1. ASSUME NEW q \in Recorders \ {p}, pc[q] \in Writing, ~ slow PROVE FALSE
    <3>1. pc[p] \in Compacting \cup Clearing /\ pc[q] \in Compacting \cup Clearing
      BY <1>2, <2>1 DEF Writing, Compacting, Clearing
    <3> QED
      BY <2>1, <3>1 DEF LockInv, Holds, Procs
  <2> QED
    BY <1>2, <2>1 DEF GapInv, Gap, Writing
<1>3. ASSUME NEW p \in Recorders, Write(p) PROVE GapInv'
  BY <1>2, <1>3 DEF Write, Writing
<1>4. ASSUME NEW p \in Clearers, ClearBase(p) PROVE GapInv'
  BY <1>2, <1>4 DEF ClearBase, At
<1>5. ASSUME NEW p \in Recorders, Loud(p), ~ Write(p) PROVE GapInv'
  <2>1. gap' = gap /\ slow' = slow
    BY <1>5, Zenon
    DEF Loud, Publish, DropEnded, Merge, Revalidate, Verify, Unlink, Reap, ghostVars
  <2> QED
    BY <2>1 DEF GapInv
<1>6. ASSUME NEW p \in Clearers, ClearSegs(p) PROVE GapInv'
  BY <1>6 DEF ClearSegs, GapInv
<1> QED
  BY <1>1, <1>3, <1>4, <1>5, <1>6, QuietSteps

--------------------------------------------------------------------------------
(* Compaction.                                                              *)

Merges(q) ==
  /\ pc[q] \in Merging => \A s \in inputs[q], i \in Ids : seg[s][i] <= lists[q][i]
  /\ pc[q] = "revalidate" /\ stat[q] = "none" =>
       merged[q] = Reduce(Nothing, lists[q], at[q])
  /\ pc[q] = "revalidate" /\ stat[q] = "file" /\ isFile =>
       merged[q] = Reduce(base, lists[q], at[q])
  /\ ~ gap /\ pc[q] \in Writing => merged[q] = Reduce(base, lists[q], at[q])

\* Segments only get fewer, seen from a compaction that has read some.
LEMMA FewerSegments ==
  ASSUME TypeOK, NEW q \in Recorders, Merges(q), TypeOK',
         base' = base, isFile' = isFile, gap' = gap,
         \A s \in inputs[q] : seg'[s] = seg[s] \/ seg'[s] = Nothing,
         pc'[q] \in Merging =>
           /\ pc[q] = pc'[q] /\ at'[q] = at[q] /\ lists'[q] = lists[q]
           /\ merged'[q] = merged[q] /\ inputs'[q] = inputs[q] /\ stat'[q] = stat[q]
  PROVE  Merges(q)'
<1>1. CASE pc'[q] \in Merging
  <2>1. ASSUME NEW s \in inputs[q], NEW i \in Ids, seg'[s] = Nothing
        PROVE  seg'[s][i] <= lists[q][i]
    <3>1. lists[q][i] \in Nat
      BY NumbersAssumption DEF TypeOK, Entries
    <3> QED
      BY <2>1, <3>1, NothingIs
  <2>2. \A s \in inputs[q], i \in Ids : seg'[s][i] <= lists[q][i]
    BY <1>1, <2>1 DEF Merges
  <2> QED
    BY <1>1, <2>2 DEF Merges, Reduce, Newest, Nothing
<1>2. CASE pc'[q] \notin Merging
  BY <1>2 DEF Merges, Merging, Writing
<1> QED
  BY <1>1, <1>2

LEMMA MergeStep ==
  ASSUME TypeOK, MergeInv, TypeOK', Next
  PROVE  MergeInv'
<1>t. /\ pc \in [Procs -> RecorderPhases \cup ClearerPhases] /\ seg \in [Segs -> Entries]
      /\ at \in [Recorders -> 0..MaxTime] /\ lists \in [Recorders -> Entries]
      /\ merged \in [Recorders -> Entries] /\ inputs \in [Recorders -> SUBSET Segs]
      /\ stat \in [Recorders -> {"none", "file", "changed"}] /\ isFile \in BOOLEAN
  BY DEF TypeOK
<1>m. (~ isFile => base = Nothing) /\ \A q \in Recorders : Merges(q)
  BY DEF MergeInv, Merges
<1> SUFFICES (~ isFile' => base' = Nothing) /\ \A q \in Recorders : Merges(q)'
  BY DEF MergeInv, Merges
<1> DEFINE Good == (~ isFile' => base' = Nothing) /\ \A q \in Recorders : Merges(q)'
<1> USE <1>t, <1>m DEF Procs, At, Goto, mergeVars, fileVars, callVars, ghostVars
<1>1. CASE Quiet
  BY <1>1, FewerSegments DEF Quiet
<1>2. ASSUME NEW p \in Recorders, Publish(p) PROVE Good
  <2>1. \A q \in Recorders : \A s \in inputs[q] : seg'[s] = seg[s]
    BY <1>2 DEF Publish
  <2>2. pc'[p] = "recorded" /\ \A q \in Recorders \ {p} : pc'[q] = pc[q]
    BY <1>2 DEF Publish, Admitted
  <2>3. UNCHANGED <<base, isFile, gap, at, mergeVars>>
    BY <1>2 DEF Publish
  <2> QED
    BY <2>1, <2>2, <2>3, FewerSegments DEF Merging
<1>3. ASSUME NEW p \in Recorders, DropEnded(p) \/ Unlink(p) \/ Reap(p) PROVE Good
  <2>1. \A s \in Segs : seg'[s] = seg[s] \/ seg'[s] = Nothing
    BY <1>3 DEF DropEnded, Unlink, Reap
  <2>2. /\ pc'[p] \notin Merging
        /\ \A q \in Recorders \ {p} : pc'[q] = pc[q] /\ at'[q] = at[q]
    BY <1>3 DEF DropEnded, Unlink, Reap, Merging
  <2>3. UNCHANGED <<base, isFile, gap, mergeVars>>
    BY <1>3 DEF DropEnded, Unlink, Reap
  <2> QED
    BY <2>1, <2>2, <2>3, FewerSegments
<1>4. ASSUME NEW p \in Clearers, ClearSegs(p) PROVE Good
  <2>1. \A q \in Recorders : pc'[q] = pc[q]
    BY <1>4, ProcsAssumption DEF ClearSegs
  <2>2. \A s \in Segs : seg'[s] = Nothing
    BY <1>4 DEF ClearSegs
  <2>3. UNCHANGED <<base, isFile, gap, at, mergeVars>>
    BY <1>4 DEF ClearSegs
  <2> QED
    BY <2>1, <2>2, <2>3, FewerSegments
<1>5. ASSUME NEW p \in Recorders, Merge(p) PROVE Good
  <2>1. \A q \in Recorders \ {p} : Merges(q)'
    <3>1. \A q \in Recorders \ {p} :
            /\ pc[q] = pc'[q] /\ at'[q] = at[q] /\ lists'[q] = lists[q]
            /\ merged'[q] = merged[q] /\ inputs'[q] = inputs[q] /\ stat'[q] = stat[q]
      BY <1>5 DEF Merge
    <3>2. UNCHANGED <<base, isFile, seg, gap>>
      BY <1>5 DEF Merge
    <3> QED
      BY <3>1, <3>2, FewerSegments
  <2>2. Merges(p)'
    <3>1. /\ pc'[p] = "revalidate" /\ inputs'[p] = Live
          /\ lists'[p] = Newest({seg[s] : s \in Live}) /\ stat'[p] = Identity
          /\ merged'[p] = Reduce(base, lists'[p], at[p])
          /\ UNCHANGED <<base, isFile, seg, at>>
      BY <1>5 DEF Merge
    <3>2. \A s \in Live, i \in Ids : seg[s][i] <= Newest({seg[x] : x \in Live})[i]
      <4>1. {seg[s] : s \in Live} \in SUBSET Entries
        BY DEF Live
      <4> QED
        BY <4>1, NewestIs
    <3> QED
      BY <3>1, <3>2 DEF Merges, Identity, Writing, Reduce, Newest
  <2> QED
    BY <1>5, <2>1, <2>2 DEF Merge
\* Whoever looks at the base again knows what to write.
<1>6. ASSUME NEW p \in Recorders, Revalidate(p) \/ Verify(p) PROVE Good
  <2>1. UNCHANGED <<base, isFile, seg, gap, at, lists, inputs>>
    BY <1>6 DEF Revalidate, Verify
  <2>2. \A q \in Recorders \ {p} : Merges(q)'
    <3>1. \A q \in Recorders \ {p} :
            pc[q] = pc'[q] /\ merged'[q] = merged[q] /\ stat'[q] = stat[q]
      BY <1>6 DEF Revalidate, Verify
    <3> QED
      BY <2>1, <3>1, FewerSegments
  <2>3. \A s \in inputs[p], i \in Ids : seg[s][i] <= lists[p][i]
    BY <1>6 DEF Merges, Revalidate, Verify, Merging
  <2>4. \/ pc'[p] = "unlink"
        \/ pc'[p] \in {"revalidate", "write", "rewrite"} /\ merged'[p] = Reduce(base, lists[p], at[p])
    <3>1. CASE Verify(p)
      BY <3>1 DEF Verify
    <3>2. CASE Revalidate(p) /\ stat[p] # Identity
      BY <3>2 DEF Revalidate
    <3>3. CASE Revalidate(p) /\ stat[p] = Identity
      <4>1. merged[p] = Reduce(base, lists[p], at[p])
        BY <3>3 DEF Revalidate, Merges, Identity
      <4> QED
        BY <3>3, <4>1 DEF Revalidate
    <3> QED
      BY <1>6, <3>1, <3>2, <3>3
  <2>5. stat'[p] = "none" => ~ isFile \/ pc'[p] # "revalidate"
    BY <1>6 DEF Revalidate, Verify, Identity
  <2> QED
    BY <2>1, <2>2, <2>3, <2>4, <2>5 DEF Merges, Merging, Writing, Reduce, Newest
\* Those who have looked at the old base will see that it has changed.
<1>7. ASSUME NEW p \in Recorders, Write(p) PROVE Good
  <2>1. /\ isFile' /\ UNCHANGED <<seg, at, lists, inputs, merged>> /\ gap' = Gap(p)
        /\ stat' = [q \in Recorders |->
             IF q = p THEN "file" ELSE IF stat[q] = "file" THEN "changed" ELSE stat[q]]
        /\ pc' = [pc EXCEPT ![p] = IF pc[p] = "write" THEN "verify" ELSE "unlink"]
        /\ pc[p] \in {"write", "rewrite"}
    BY <1>7 DEF Write, Replace
  <2>2. ASSUME NEW q \in Recorders PROVE Merges(q)'
    <3>1. pc'[q] \in Merging => pc[q] \in Merging
      BY <2>1 DEF Merging
    <3>2. pc'[q] = "revalidate" => pc[q] = "revalidate" /\ stat'[q] # "file"
                                   /\ (stat'[q] = "none" => stat[q] = "none")
      BY <2>1
    <3>3. pc'[q] \in Writing => gap'
      BY <2>1 DEF Writing, Gap
    <3> QED
      BY <2>1, <3>1, <3>2, <3>3 DEF Merges, Reduce, Newest, Nothing
  <2> QED
    BY <2>1, <2>2
<1>8. ASSUME NEW p \in Clearers, ClearBase(p) PROVE Good
  <2>1. /\ ~ isFile' /\ base' = Nothing /\ UNCHANGED <<seg, at, mergeVars>> /\ gap' = Gap(p)
        /\ \A q \in Recorders : pc'[q] = pc[q]
    BY <1>8, ProcsAssumption DEF ClearBase
  <2>2. ASSUME NEW q \in Recorders PROVE Merges(q)'
    <3>1. pc'[q] \in Writing => gap'
      BY <2>1, ProcsAssumption DEF Writing, Gap
    <3> QED
      BY <2>1, <3>1 DEF Merges, Reduce, Newest, Nothing
  <2> QED
    BY <2>1, <2>2 DEF Nothing
<1> QED
  BY <1>1, <1>2, <1>3, <1>4, <1>5, <1>6, <1>7, <1>8, QuietSteps DEF Loud

--------------------------------------------------------------------------------
(* What is recorded is kept.                                                *)

\* What is merged is at least as new as each of its parts, as long as that counts.
LEMMA MergedIsNewer ==
  ASSUME NEW b \in Entries, NEW l \in Entries, NEW time \in Nat, NEW i \in Ids,
         NEW n \in Nat, InWindow(n, time), b[i] >= n \/ l[i] >= n
  PROVE  Reduce(b, l, time)[i] >= n
<1>1. PICK ts \in 0 .. MaxTime :
        /\ ts >= b[i] /\ ts >= l[i]
        /\ Reduce(b, l, time)[i] = IF InWindow(ts, time) THEN ts ELSE 0
  BY ReduceIs
<1>2. b[i] \in Nat /\ l[i] \in Nat /\ ts \in Nat /\ Window \in Nat
  BY NumbersAssumption DEF Entries
<1>3. ts >= n
  BY <1>1, <1>2
<1> QED
  BY <1>1, <1>2, <1>3 DEF InWindow

Kept(i) ==
  InWindow(recorded[i], now) =>
    \/ base[i] >= recorded[i]
    \/ \E s \in Segs : seg[s][i] >= recorded[i] /\ Safe(s)

LEMMA KeptStep ==
  ASSUME TypeOK, MergeInv, KeptInv, TypeOK', Next
  PROVE  KeptInv'
<1> SUFFICES ASSUME ~ gap', NEW i \in Ids, InWindow(recorded'[i], now')
             PROVE  \/ base'[i] >= recorded'[i]
                    \/ \E s \in Segs : seg'[s][i] >= recorded'[i] /\ Safe(s)'
  BY DEF KeptInv
<1> DEFINE Good == \/ base'[i] >= recorded'[i]
                   \/ \E s \in Segs : seg'[s][i] >= recorded'[i] /\ Safe(s)'
<1>t. /\ pc \in [Procs -> RecorderPhases \cup ClearerPhases] /\ seg \in [Segs -> Entries]
      /\ at \in [Recorders -> 0..MaxTime] /\ \A p \in Recorders : at[p] <= now
      /\ now \in Nat /\ now' \in Nat /\ MaxTime \in Nat /\ Window \in Nat
      /\ base[i] \in Nat /\ recorded[i] \in Nat /\ recorded'[i] \in Nat
      /\ \A s \in Segs : seg[s][i] \in Nat
  BY NumbersAssumption DEF TypeOK, Entries
<1>k. ~ gap => Kept(i)
  BY DEF KeptInv, Kept
<1> USE <1>t, <1>k DEF Procs, At, Goto, mergeVars, fileVars, callVars, ghostVars
<1>1. CASE Quiet
  <2>1. Kept(i) /\ InWindow(recorded[i], now) /\ recorded' = recorded
    BY <1>1 DEF Quiet, InWindow
  <2>2. \A s \in Segs : Safe(s) => Safe(s)'
    BY <1>1 DEF Quiet, Safe, Unlinking, Merging
  <2> QED
    BY <1>1, <2>1, <2>2 DEF Quiet, Kept
<1>2. ASSUME NEW p \in Recorders, Publish(p) PROVE Good
  <2> DEFINE e == [x \in Ids |-> IF x \in Fresh(p) \cup Refreshed(p) THEN at[p] ELSE 0]
  <2>1. /\ UNCHANGED <<base, now, gap, inputs>> /\ pc' = [pc EXCEPT ![p] = "recorded"]
        /\ \/ seg' = seg /\ recorded' = recorded
           \/ /\ recorded' = Newest({recorded, e})
              /\ \E s \in Segs \ Live : /\ \A q \in Recorders : s \notin inputs[q]
                                       /\ seg' = [seg EXCEPT ![s] = e]
    BY <1>2 DEF Publish, Admitted
  <2>2. \A s \in Segs : Safe(s) => Safe(s)'
    BY <2>1 DEF Safe, Unlinking
  <2>3. CASE seg' = seg /\ recorded' = recorded
    BY <2>1, <2>2, <2>3 DEF Kept
  <2>4. ASSUME NEW s \in Segs \ Live, \A q \in Recorders : s \notin inputs[q],
               seg' = [seg EXCEPT ![s] = e], recorded' = Newest({recorded, e})
        PROVE  Good
    <3>1. Safe(s)'
      BY <2>1, <2>4 DEF Safe
    <3>2. e \in Entries /\ recorded \in Entries
      BY DEF Entries, TypeOK
    <3>3. seg'[s] = e
      BY <2>4
    <3>4. \A x \in Segs \ {s} : seg'[x] = seg[x]
      BY <2>4
    <3>5. seg[s][i] = 0
      BY NothingIs DEF Live
    <3>6. e[i] \in Nat
      BY <3>2 DEF Entries
    <3> HIDE DEF e
    <3>7. recorded'[i] = 0 \/ recorded'[i] = e[i] \/ (recorded'[i] = recorded[i] /\ recorded[i] >= 0)
      BY <2>4, <3>2, NewestIs
    <3>8. recorded'[i] > 0
      BY DEF InWindow
    <3>9. CASE recorded'[i] = e[i]
      BY <3>1, <3>3, <3>6, <3>9
    <3>10. CASE recorded'[i] = recorded[i]
      <4>1. Kept(i) /\ InWindow(recorded[i], now)
        BY <2>1, <3>10
      <4> QED
        BY <2>1, <2>2, <3>4, <3>5, <3>8, <3>10, <4>1 DEF Kept
    <3> QED
      BY <3>7, <3>8, <3>9, <3>10
  <2> QED
    BY <2>1, <2>3, <2>4
<1>3. ASSUME NEW p \in Recorders, DropEnded(p) PROVE Good
  BY <1>3 DEF DropEnded
<1>4. ASSUME NEW p \in Clearers, ClearBase(p) \/ ClearSegs(p) PROVE FALSE
  BY <1>4, NothingIs DEF ClearBase, ClearSegs, InWindow
<1>5. ASSUME NEW p \in Recorders, Merge(p) \/ Revalidate(p) \/ Verify(p) PROVE Good
  <2>1. UNCHANGED <<base, seg, recorded, now, gap>>
    BY <1>5 DEF Merge, Revalidate, Verify
  <2>2. ASSUME NEW s \in Segs, Safe(s) PROVE Safe(s)'
    <3>1. \A q \in Recorders \ {p} : pc'[q] = pc[q] /\ inputs'[q] = inputs[q]
      <4>1. CASE Merge(p)
        BY <4>1 DEF Merge
      <4>2. CASE Revalidate(p)
        BY <4>2 DEF Revalidate
      <4>3. CASE Verify(p)
        BY <4>3 DEF Verify
      <4> QED
        BY <1>5, <4>1, <4>2, <4>3
    <3>2. pc'[p] \in Unlinking => pc[p] \in Unlinking /\ inputs'[p] = inputs[p]
      BY <1>5 DEF Merge, Revalidate, Verify, Unlinking
    <3> QED
      BY <2>2, <3>1, <3>2 DEF Safe
  <2> QED
    BY <2>1, <2>2 DEF Kept
\* The base gets all it had and all the segments read had.
<1>6. ASSUME NEW p \in Recorders, Write(p) PROVE Good
  <2>1. /\ base' = merged[p] /\ UNCHANGED <<seg, recorded, now, inputs>> /\ ~ gap
        /\ pc' = [pc EXCEPT ![p] = IF pc[p] = "write" THEN "verify" ELSE "unlink"]
        /\ pc[p] \in Writing
    BY <1>6 DEF Write, Replace, Gap, Writing
  <2>2. merged[p] = Reduce(base, lists[p], at[p])
    BY <2>1 DEF MergeInv
  <2>3. InWindow(recorded[i], at[p])
    BY <2>1 DEF InWindow
  <2>4. base \in Entries /\ lists[p] \in Entries /\ at[p] \in Nat
    BY DEF TypeOK
  <2>5. CASE base[i] >= recorded[i] \/ lists[p][i] >= recorded[i]
    BY <2>1, <2>2, <2>3, <2>4, <2>5, MergedIsNewer
  <2>6. ASSUME NEW s \in Segs, seg[s][i] >= recorded[i], Safe(s), s \notin inputs[p] PROVE Good
    BY <2>1, <2>6 DEF Safe
  <2>7. ASSUME NEW s \in Segs, seg[s][i] >= recorded[i], s \in inputs[p]
        PROVE  lists[p][i] >= recorded[i]
    <3>1. seg[s][i] <= lists[p][i] /\ lists[p][i] \in Nat
      BY <2>1, <2>4, <2>7 DEF MergeInv, Writing, Merging, Entries
    <3> QED
      BY <2>7, <3>1
  <2> QED
    BY <2>1, <2>5, <2>6, <2>7 DEF Kept
<1>7. ASSUME NEW p \in Recorders, Unlink(p) PROVE Good
  <2>1. /\ UNCHANGED <<base, recorded, now, gap, inputs>> /\ pc' = [pc EXCEPT ![p] = "compacted"]
        /\ pc[p] = "unlink" /\ \A s \in Segs : s \notin inputs[p] => seg'[s] = seg[s]
    BY <1>7 DEF Unlink
  <2>2. \A s \in Segs : Safe(s) => Safe(s)' /\ s \notin inputs[p]
    BY <2>1 DEF Safe, Unlinking
  <2> QED
    BY <2>1, <2>2 DEF Kept
<1>8. ASSUME NEW p \in Recorders, Reap(p) PROVE Good
  <2>1. /\ UNCHANGED <<base, recorded, now, gap, inputs>> /\ pc' = [pc EXCEPT ![p] = "idle"]
        /\ \A s \in Segs : InWindow(seg[s][i], at[p]) => seg'[s] = seg[s]
    BY <1>8 DEF Reap
  <2>2. \A s \in Segs : Safe(s) => Safe(s)'
    BY <2>1 DEF Safe, Unlinking
  <2>3. \A s \in Segs : seg[s][i] >= recorded[i] => InWindow(seg[s][i], at[p])
    BY <2>1 DEF InWindow
  <2> QED
    BY <2>1, <2>2, <2>3 DEF Kept
<1> QED
  BY <1>1, <1>2, <1>3, <1>4, <1>5, <1>6, <1>7, <1>8, QuietSteps DEF Loud

--------------------------------------------------------------------------------
(* What a call has seen.                                                    *)

LEMMA ViewSteps ==
  ASSUME TypeOK, Next
  PROVE  \/ \E p \in Recorders : ReadPart(p)
         \/ \A q \in Recorders : pc'[q] \in {"base", "publish"} =>
              pc[q] = pc'[q] /\ view'[q] = view[q]
<1> DEFINE Good == \A q \in Recorders : pc'[q] \in {"base", "publish"} =>
              pc[q] = pc'[q] /\ view'[q] = view[q]
<1>t. /\ pc \in [Procs -> RecorderPhases \cup ClearerPhases]
      /\ view \in [Recorders -> Entries]
  BY DEF TypeOK
<1> USE ProcsAssumption, <1>t
<1> USE DEF Procs, At, Goto, lockVars, fileVars, callVars, mergeVars, ghostVars
<1>1. ASSUME NEW p \in Recorders, Record(p) PROVE Good
  BY <1>1 DEF Record
<1>2. ASSUME NEW p \in Recorders, Enter(p) PROVE Good
  BY <1>2 DEF Enter, Acquire
<1>4. ASSUME NEW p \in Recorders, Publish(p) PROVE Good
  BY <1>4 DEF Publish, Admitted
<1>5. ASSUME NEW p \in Recorders, Leave(p) PROVE Good
  BY <1>5 DEF Leave
<1>6. ASSUME NEW p \in Recorders, StatLock(p) PROVE Good
  BY <1>6 DEF StatLock
<1>7. ASSUME NEW p \in Recorders, EnterCompaction(p) PROVE Good
  BY <1>7 DEF EnterCompaction, Acquire
<1>8. ASSUME NEW p \in Recorders, DropEnded(p) PROVE Good
  BY <1>8 DEF DropEnded
<1>9. ASSUME NEW p \in Recorders, NothingToMerge(p) PROVE Good
  BY <1>9 DEF NothingToMerge
<1>10. ASSUME NEW p \in Recorders, Merge(p) PROVE Good
  BY <1>10 DEF Merge
<1>11. ASSUME NEW p \in Recorders, Revalidate(p) PROVE Good
  BY <1>11 DEF Revalidate
<1>12. ASSUME NEW p \in Recorders, Write(p) PROVE Good
  BY <1>12 DEF Write
<1>13. ASSUME NEW p \in Recorders, Verify(p) PROVE Good
  BY <1>13 DEF Verify
<1>14. ASSUME NEW p \in Recorders, Unlink(p) PROVE Good
  BY <1>14 DEF Unlink
<1>15. ASSUME NEW p \in Recorders, LeaveCompaction(p) PROVE Good
  BY <1>15 DEF LeaveCompaction
<1>16. ASSUME NEW p \in Recorders, Reap(p) PROVE Good
  BY <1>16 DEF Reap
<1>17. ASSUME NEW p \in Recorders, EnterUnlocked(p) PROVE Good
  BY <1>17 DEF EnterUnlocked
<1>18. ASSUME NEW p \in Recorders, PublishFails(p) PROVE Good
  BY <1>18 DEF PublishFails, Admitted
<1>19. ASSUME NEW p \in Recorders, SkipCompaction(p) PROVE Good
  BY <1>19 DEF SkipCompaction
<1>20. ASSUME NEW p \in Recorders, WriteFails(p) PROVE Good
  BY <1>20 DEF WriteFails
<1>21. ASSUME NEW p \in Clearers, Clear(p) PROVE Good
  BY <1>21 DEF Clear
<1>22. ASSUME NEW p \in Clearers, EnterClear(p) PROVE Good
  BY <1>22 DEF EnterClear, Acquire
<1>23. ASSUME NEW p \in Clearers, Mark(p) PROVE Good
  BY <1>23 DEF Mark
<1>24. ASSUME NEW p \in Clearers, ClearBase(p) PROVE Good
  BY <1>24 DEF ClearBase
<1>25. ASSUME NEW p \in Clearers, ClearSegs(p) PROVE Good
  BY <1>25 DEF ClearSegs
<1>26. ASSUME NEW p \in Clearers, LeaveClear(p) PROVE Good
  BY <1>26 DEF LeaveClear
<1>27. ASSUME NEW p \in Clearers, RefuseClear(p) PROVE Good
  BY <1>27 DEF RefuseClear
<1>28. ASSUME NEW p \in Procs, Crash(p) PROVE Good
  BY <1>28 DEF Crash
<1>29. ASSUME Tick PROVE Good
  BY <1>29 DEF Tick
<1>30. ASSUME MarkerExpires PROVE Good
  BY <1>30 DEF MarkerExpires
<1>31. ASSUME AgeLock PROVE Good
  BY <1>31 DEF AgeLock
<1> QED
  BY <1>1, <1>2, <1>4, <1>5, <1>6, <1>7, <1>8, <1>9, <1>10, <1>11, <1>12, <1>13, <1>14, <1>15, <1>16, <1>17, <1>18, <1>19, <1>20, <1>21, <1>22, <1>23, <1>24, <1>25, <1>26, <1>27, <1>28, <1>29, <1>30, <1>31 DEF Next, RecorderStep, ClearerStep

LEMMA SeenStep ==
  ASSUME TypeOK, LockInv, MergeInv, KeptInv, SeenInv, TypeOK', Next
  PROVE  SeenInv'
<1> SUFFICES ASSUME ~ late', ~ gap', NEW q \in Recorders, NEW i \in Ids, InWindow(recorded'[i], now')
             PROVE  /\ pc'[q] = "base" => view'[q][i] >= recorded'[i] \/ base'[i] >= recorded'[i]
                    /\ pc'[q] = "publish" => view'[q][i] >= recorded'[i]
  BY DEF SeenInv
<1> DEFINE Good == /\ pc'[q] = "base" => view'[q][i] >= recorded'[i] \/ base'[i] >= recorded'[i]
                   /\ pc'[q] = "publish" => view'[q][i] >= recorded'[i]
<1>t. /\ pc \in [Procs -> RecorderPhases \cup ClearerPhases] /\ seg \in [Segs -> Entries]
      /\ at \in [Recorders -> 0..MaxTime] /\ \A p \in Recorders : at[p] <= now
      /\ view \in [Recorders -> Entries]
      /\ now \in Nat /\ now' \in Nat /\ MaxTime \in Nat /\ Window \in Nat
      /\ base[i] \in Nat /\ recorded[i] \in Nat /\ recorded'[i] \in Nat
  BY NumbersAssumption DEF TypeOK, Entries
<1>s. ~ late /\ ~ gap /\ InWindow(recorded[i], now) =>
        /\ pc[q] = "base" => view[q][i] >= recorded[i] \/ base[i] >= recorded[i]
        /\ pc[q] = "publish" => view[q][i] >= recorded[i]
  BY DEF SeenInv
<1> USE <1>t, <1>s DEF Procs, At, Goto, mergeVars, fileVars, callVars, ghostVars
\* The segments, then the base: what a compaction moves meanwhile is seen in the base.
<1>1. ASSUME NEW p \in Recorders, ReadPart(p) PROVE Good
  <2>1. UNCHANGED <<base, recorded, now, late, gap>>
    BY <1>1 DEF ReadPart
  <2>2. CASE p # q
    BY <1>1, <2>1, <2>2, ReadPartIs
  <2>3. at[p] \in Nat /\ view[p] \in Entries /\ base \in Entries /\ InWindow(recorded[i], at[p])
    BY <2>1 DEF InWindow, TypeOK
  <2>5. CASE pc[p] = "segs" /\ p = q
    <3> DEFINE l == Newest({seg[s] : s \in Segs})
    <3>1. /\ pc'[q] = "base" /\ view'[q] = Reduce(l, view[p], at[p])
      BY <1>1, <2>5, ReadPartIs
    <3>2. l \in Entries /\ \A s \in Segs : seg[s][i] <= l[i]
      BY NewestIs
    <3>4. ASSUME NEW s \in Segs, seg[s][i] >= recorded[i] PROVE view'[q][i] >= recorded[i]
      <4>1. seg[s][i] \in Nat /\ l[i] \in Nat
        BY <3>2 DEF Entries
      <4>2. l[i] >= recorded[i]
        BY <3>2, <3>4, <4>1
      <4> HIDE DEF l
      <4> QED
        BY <2>3, <3>1, <3>2, <4>2, MergedIsNewer
    <3>5. CASE base[i] >= recorded[i]
      BY <2>1, <3>1, <3>5
    <3> QED
      BY <2>1, <3>1, <3>4, <3>5 DEF KeptInv
  <2>6. CASE pc[p] = "base" /\ p = q
    <3>1. /\ pc'[q] = "publish" /\ view'[q] = Reduce(base, view[p], at[p])
      BY <1>1, <2>6, ReadPartIs
    <3>2. base[i] >= recorded[i] \/ view[q][i] >= recorded[i]
      BY <2>1, <2>6
    <3> QED
      BY <2>1, <2>3, <2>6, <3>1, <3>2, MergedIsNewer
  <2> QED
    BY <1>1, <2>2, <2>5, <2>6, ReadPartIs
\* Nobody else publishes while q is under the lock.
<1>2. ASSUME NEW p \in Recorders, Publish(p) PROVE Good
  <2>1. pc[p] = "publish" /\ pc' = [pc EXCEPT ![p] = "recorded"] /\ late' = late
    BY <1>2 DEF Publish, Admitted
  <2>2. CASE p = q
    BY <2>1, <2>2
  <2>3. CASE p # q
    <3>1. pc[q] \notin Critical
      BY <2>1, <2>3 DEF LockInv, Holds, Critical
    <3> QED
      BY <2>1, <2>3, <3>1 DEF Critical
  <2> QED
    BY <2>2, <2>3
<1>3. ASSUME \A p \in Recorders : pc'[p] \in {"base", "publish"} =>
                pc[p] = pc'[p] /\ view'[p] = view[p]
      PROVE  Good
  <2>1. ASSUME late => late', gap => gap',
               InWindow(recorded[i], now), recorded'[i] <= recorded[i],
               base[i] >= recorded[i] => base'[i] >= recorded'[i]
        PROVE  Good
    <3>1. view[q][i] \in Nat
      BY DEF Entries
    <3> QED
      BY <1>3, <2>1, <3>1
  <2>2. CASE Quiet
    BY <2>1, <2>2 DEF Quiet, InWindow
  <2>3. ASSUME NEW p \in Recorders, DropEnded(p) PROVE Good
    <3>1. /\ recorded'[i] <= recorded[i] /\ recorded'[i] <= base[i] /\ UNCHANGED <<base, now, late, gap>>
      BY <2>3 DEF DropEnded
    <3> QED
      BY <2>1, <3>1 DEF InWindow
  <2>4. ASSUME NEW p \in Clearers, ClearBase(p) \/ ClearSegs(p) PROVE FALSE
    BY <2>4, NothingIs DEF ClearBase, ClearSegs, InWindow
  <2>5. ASSUME NEW p \in Recorders, Merge(p) \/ Revalidate(p) \/ Verify(p) \/ Unlink(p) \/ Reap(p)
        PROVE  Good
    <3>1. UNCHANGED <<base, recorded, now, late, gap>>
      BY <2>5 DEF Merge, Revalidate, Verify, Unlink, Reap
    <3> QED
      BY <2>1, <3>1
  <2>6. ASSUME NEW p \in Recorders, Write(p) PROVE Good
    <3>1. /\ base' = merged[p] /\ UNCHANGED <<recorded, now, late>> /\ gap' = Gap(p)
          /\ pc[p] \in Writing
      BY <2>6 DEF Write, Replace, Writing
    <3>2. base[i] >= recorded[i] => base'[i] >= recorded[i]
      <4>1. merged[p] = Reduce(base, lists[p], at[p])
        BY <3>1 DEF MergeInv, Gap
      <4>2. InWindow(recorded[i], at[p])
        BY <3>1 DEF InWindow
      <4>3. base \in Entries /\ lists[p] \in Entries /\ at[p] \in Nat
        BY DEF TypeOK
      <4> QED
        BY <3>1, <4>1, <4>2, <4>3, MergedIsNewer
    <3>3. gap => gap'
      BY ONLY <3>1, Zenon DEF Gap
    <3> QED
      BY <2>1, <3>1, <3>2, <3>3
  <2> QED
    BY <1>2, <2>2, <2>3, <2>4, <2>5, <2>6, QuietSteps DEF Loud
<1> QED
  BY <1>1, <1>3, ViewSteps

--------------------------------------------------------------------------------
(* What a compaction writes is there.                                       *)

LEMMA SourceStep ==
  ASSUME TypeOK, LockInv, SourceInv, TypeOK', Next
  PROVE  SourceInv'
<1> DEFINE Unwritten == Merging \ {"unlink"}
<1> SUFFICES ASSUME ~ slow', NEW q \in Recorders, NEW i \in Ids,
                    pc'[q] \in Unwritten, InWindow(lists'[q][i], now')
             PROVE  \E s \in Segs : seg'[s][i] >= lists'[q][i]
  BY DEF SourceInv
<1> DEFINE Good == \E s \in Segs : seg'[s][i] >= lists'[q][i]
<1>t. /\ pc \in [Procs -> RecorderPhases \cup ClearerPhases] /\ seg \in [Segs -> Entries]
      /\ at \in [Recorders -> 0..MaxTime] /\ \A p \in Recorders : at[p] <= now
      /\ now \in Nat /\ now' \in Nat /\ MaxTime \in Nat /\ Window \in Nat
      /\ \A s \in Segs : seg[s][i] \in Nat
      /\ lists \in [Recorders -> Entries] /\ lists[q][i] \in Nat /\ lists'[q][i] \in Nat
  BY NumbersAssumption DEF TypeOK, Entries
<1>s. ~ slow /\ pc[q] \in Unwritten /\ InWindow(lists[q][i], now) =>
        \E s \in Segs : seg[s][i] >= lists[q][i]
  BY DEF SourceInv
<1> USE <1>t, <1>s DEF Procs, At, Goto, mergeVars, fileVars, callVars, ghostVars
<1>1. CASE Quiet
  <2>1. /\ pc[q] = pc'[q] /\ lists'[q] = lists[q] /\ seg' = seg /\ ~ slow /\ now' >= now
    BY <1>1 DEF Quiet
  <2> QED
    BY <2>1 DEF InWindow
<1>2. ASSUME NEW p \in Recorders, Publish(p) PROVE Good
  <2>1. /\ UNCHANGED <<now, slow, lists>> /\ pc' = [pc EXCEPT ![p] = "recorded"]
        /\ \A s \in Live : seg'[s] = seg[s]
    <3>1. UNCHANGED <<now, slow, lists>> /\ pc' = [pc EXCEPT ![p] = "recorded"]
      BY <1>2 DEF Publish, Admitted
    <3>2. seg' = seg \/ \E s \in Segs \ Live : \A x \in Segs \ {s} : seg'[x] = seg[x]
      BY <1>2 DEF Publish
    <3> QED
      BY <3>1, <3>2 DEF Live
  <2>2. PICK s \in Segs : seg[s][i] >= lists[q][i]
    BY <2>1 DEF Merging
  <2>3. s \in Live
    BY <2>1, <2>2, NothingIs DEF Live, InWindow
  <2> QED
    BY <2>1, <2>2, <2>3
\* Whoever else removes segments or merges them would hold q's lock.
<1>3. ASSUME NEW p \in Procs, pc[p] \in Compacting \cup Clearing, p # q, pc[q] \in Compacting, ~ slow
      PROVE  FALSE
  BY <1>3 DEF LockInv, Holds
<1>4. ASSUME NEW p \in Recorders, DropEnded(p) \/ Unlink(p) PROVE FALSE
  <2>1. /\ pc[p] \in Compacting /\ pc' = [pc EXCEPT ![p] = "compacted"] /\ slow' = slow
    BY <1>4 DEF DropEnded, Unlink, Compacting
  <2>2. p # q /\ pc[q] \in Compacting
    BY <2>1 DEF Merging, Compacting
  <2> QED
    BY <1>3, <2>1, <2>2
<1>5. ASSUME NEW p \in Clearers, ClearBase(p) \/ ClearSegs(p) PROVE FALSE
  <2>1. /\ pc[p] \in Clearing /\ pc'[q] = pc[q] /\ slow' = slow
    BY <1>5, ProcsAssumption DEF ClearBase, ClearSegs, Clearing
  <2>2. p # q /\ pc[q] \in Compacting
    BY <2>1, ProcsAssumption DEF Merging, Compacting
  <2> QED
    BY <1>3, <2>1, <2>2
<1>6. ASSUME NEW p \in Recorders, Reap(p) PROVE Good
  <2>1. /\ UNCHANGED <<now, slow, lists>> /\ pc' = [pc EXCEPT ![p] = "idle"]
        /\ \A s \in Segs : InWindow(seg[s][i], at[p]) => seg'[s] = seg[s]
    BY <1>6 DEF Reap
  <2>2. PICK s \in Segs : seg[s][i] >= lists[q][i]
    BY <2>1 DEF Merging
  <2>3. InWindow(seg[s][i], at[p])
    BY <2>1, <2>2 DEF InWindow
  <2> QED
    BY <2>1, <2>2, <2>3
<1>7. ASSUME NEW p \in Recorders, Revalidate(p) \/ Verify(p) \/ Write(p) PROVE Good
  <2>1. UNCHANGED <<seg, now, lists, slow>>
    BY <1>7 DEF Revalidate, Verify, Write, Replace
  <2>2. pc[p] \in Unwritten /\ \A x \in Recorders \ {p} : pc'[x] = pc[x]
    BY <1>7 DEF Revalidate, Verify, Write, Merging
  <2> QED
    BY <2>1, <2>2
<1>8. ASSUME NEW p \in Recorders, Merge(p) PROVE Good
  <2>1. /\ lists' = [lists EXCEPT ![p] = Newest({seg[s] : s \in Live})]
        /\ UNCHANGED <<seg, now, slow>> /\ \A x \in Recorders \ {p} : pc'[x] = pc[x]
    BY <1>8 DEF Merge
  <2>2. CASE p # q
    BY <2>1, <2>2
  <2>3. CASE p = q
    <3>1. {seg[s] : s \in Live} \in SUBSET Entries
      BY DEF Live
    <3>2. lists'[q] = Newest({seg[s] : s \in Live})
      BY <2>1, <2>3
    <3>3. lists'[q][i] = 0 \/ \E s \in Live : lists'[q][i] = seg[s][i]
      BY <3>1, <3>2, NewestIs
    <3>4. lists'[q][i] # 0
      BY DEF InWindow
    <3>5. PICK s \in Live : lists'[q][i] = seg[s][i]
      BY <3>3, <3>4
    <3>6. s \in Segs /\ seg'[s][i] = lists'[q][i]
      BY <2>1, <3>5 DEF Live
    <3> QED
      BY <3>6
  <2> QED
    BY <2>2, <2>3
<1> QED
  BY <1>1, <1>2, <1>4, <1>5, <1>6, <1>7, <1>8, QuietSteps DEF Loud

--------------------------------------------------------------------------------
(* The end of a session.                                                    *)

LEMMA EndedStep ==
  ASSUME TypeOK, LockInv, EndedInv, TypeOK', Next
  PROVE  EndedInv'
<1> DEFINE Unread(P) == \A p \in Recorders : P[p] \notin Merging
           NoBase(P, b) == b = Nothing \/ \E c \in Clearers : P[c] = "clearBase"
           NoSegs(P, g) == \/ \A s \in Segs : g[s] = Nothing
                           \/ \E c \in Clearers : P[c] \in {"clearBase", "clearSegs"}
                           \/ \E p \in Recorders : P[p] \in {"recorded", "stat", "compact", "merge"}
<1> DEFINE Good == Unread(pc') /\ NoBase(pc', base') /\ NoSegs(pc', seg')
<1> SUFFICES ASSUME faults' = 0, marker'
             PROVE  Good
  BY DEF EndedInv
<1>t. /\ pc \in [Procs -> RecorderPhases \cup ClearerPhases] /\ seg \in [Segs -> Entries]
      /\ faults \in Nat
      /\ \A p \in Clearers : pc[p] \in ClearerPhases
      /\ \A p \in Recorders : pc[p] \in RecorderPhases
  BY DEF TypeOK
<1>e. faults = 0 /\ marker => Unread(pc) /\ NoBase(pc, base) /\ NoSegs(pc, seg)
  BY DEF EndedInv
<1> USE <1>t, <1>e, ProcsAssumption
<1> USE DEF Procs, At, Goto, mergeVars, fileVars, callVars, ghostVars, Merging
<1>1. ASSUME NEW p \in Recorders, Record(p) PROVE Good
  BY <1>1 DEF Record
<1>2. ASSUME NEW p \in Recorders, Enter(p) PROVE Good
  BY <1>2 DEF Enter, Acquire
<1>3. ASSUME NEW p \in Recorders, ReadPart(p) PROVE Good
  <2>1. \/ pc[p] = "segs" /\ pc' = [pc EXCEPT ![p] = "base"]
        \/ pc[p] = "base" /\ pc' = [pc EXCEPT ![p] = "publish"]
    BY <1>3, ReadPartIs
  <2> QED
    BY <1>3, <2>1 DEF ReadPart
<1>4. ASSUME NEW p \in Recorders, Publish(p) PROVE Good
  BY <1>4 DEF Publish, Admitted
<1>5. ASSUME NEW p \in Recorders, Leave(p) PROVE Good
  BY <1>5 DEF Leave
<1>6. ASSUME NEW p \in Recorders, StatLock(p) PROVE Good
  BY <1>6 DEF StatLock
<1>7. ASSUME NEW p \in Recorders, EnterCompaction(p) PROVE Good
  BY <1>7 DEF EnterCompaction, Acquire
<1>8. ASSUME NEW p \in Recorders, DropEnded(p) PROVE Good
  BY <1>8 DEF DropEnded
<1>9. ASSUME NEW p \in Recorders, NothingToMerge(p) PROVE Good
  BY <1>9 DEF NothingToMerge
<1>10. ASSUME NEW p \in Recorders, Merge(p) PROVE Good
  BY <1>10 DEF Merge
<1>11. ASSUME NEW p \in Recorders, Revalidate(p) PROVE Good
  BY <1>11 DEF Revalidate
<1>12. ASSUME NEW p \in Recorders, Write(p) PROVE Good
  BY <1>12 DEF Write, Replace
<1>13. ASSUME NEW p \in Recorders, Verify(p) PROVE Good
  BY <1>13 DEF Verify
<1>14. ASSUME NEW p \in Recorders, Unlink(p) PROVE Good
  BY <1>14 DEF Unlink
<1>15. ASSUME NEW p \in Recorders, LeaveCompaction(p) PROVE Good
  BY <1>15 DEF LeaveCompaction
<1>16. ASSUME NEW p \in Recorders, Reap(p) PROVE Good
  BY <1>16 DEF Reap
<1>17. ASSUME NEW p \in Recorders, EnterUnlocked(p) PROVE Good
  BY <1>17 DEF EnterUnlocked, Fault
<1>18. ASSUME NEW p \in Recorders, PublishFails(p) PROVE Good
  BY <1>18 DEF PublishFails, Admitted, Fault
<1>19. ASSUME NEW p \in Recorders, SkipCompaction(p) PROVE Good
  BY <1>19 DEF SkipCompaction, Fault
<1>20. ASSUME NEW p \in Recorders, WriteFails(p) PROVE Good
  BY <1>20 DEF WriteFails, Fault
<1>21. ASSUME NEW p \in Clearers, Clear(p) PROVE Good
  BY <1>21 DEF Clear
<1>22. ASSUME NEW p \in Clearers, EnterClear(p) PROVE Good
  BY <1>22 DEF EnterClear, Acquire
<1>23. ASSUME NEW p \in Clearers, Mark(p) PROVE Good
  <2>1. /\ faults = 0 /\ pc[p] = "mark" /\ pc'[p] = "clearBase"
        /\ \A q \in Recorders : pc'[q] = pc[q]
    BY <1>23 DEF Mark
  <2>2. \A q \in Recorders : pc[q] \notin Merging
    BY <2>1 DEF LockInv, Holds, Locked, Compacting, Clearing
  <2> QED
    BY <2>1, <2>2
<1>24. ASSUME NEW p \in Clearers, ClearBase(p) PROVE Good
  BY <1>24 DEF ClearBase
<1>25. ASSUME NEW p \in Clearers, ClearSegs(p) PROVE Good
  BY <1>25 DEF ClearSegs
<1>26. ASSUME NEW p \in Clearers, LeaveClear(p) PROVE Good
  BY <1>26 DEF LeaveClear
<1>27. ASSUME NEW p \in Clearers, RefuseClear(p) PROVE Good
  BY <1>27 DEF RefuseClear
<1>28. ASSUME NEW p \in Procs, Crash(p) PROVE Good
  BY <1>28 DEF Crash, Fault
<1>29. ASSUME Tick PROVE Good
  BY <1>29 DEF Tick
<1>30. ASSUME MarkerExpires PROVE Good
  BY <1>30 DEF MarkerExpires
<1>31. ASSUME AgeLock PROVE Good
  BY <1>31 DEF AgeLock, Fault
<1> QED
  BY <1>1, <1>2, <1>3, <1>4, <1>5, <1>6, <1>7, <1>8, <1>9, <1>10, <1>11, <1>12, <1>13, <1>14, <1>15, <1>16, <1>17, <1>18, <1>19, <1>20, <1>21, <1>22, <1>23, <1>24, <1>25, <1>26, <1>27, <1>28, <1>29, <1>30, <1>31 DEF Next, RecorderStep, ClearerStep

--------------------------------------------------------------------------------
(* The theorems.                                                            *)

LEMMA InitInv == Init => IInv
<1> SUFFICES ASSUME Init PROVE IInv
  OBVIOUS
<1>1. TypeOK
  BY TypeInit
<1>2. \A p \in Procs : pc[p] = "idle"
  BY DEF Init
<1>3. LockInv
  BY <1>2 DEF LockInv, Critical, Compacting, Clearing, Locked
<1>4. MergeInv
  BY <1>2 DEF MergeInv, Merging, Writing, Init, Procs
<1>5. ~ gap /\ ~ marker /\ recorded = Nothing
  BY DEF Init
<1>6. KeptInv /\ SeenInv
  BY <1>5, NothingIs DEF KeptInv, SeenInv, InWindow
<1>7. SourceInv
  BY <1>2 DEF SourceInv, Merging, Procs
<1> QED
  BY <1>1, <1>3, <1>4, <1>5, <1>6, <1>7 DEF IInv, GapInv, EndedInv

LEMMA StepInv == IInv /\ [Next]_vars => IInv'
<1> SUFFICES ASSUME IInv, [Next]_vars PROVE IInv'
  OBVIOUS
<1>1. CASE Next
  <2>1. TypeOK'
    BY <1>1, TypeStep DEF IInv
  <2> QED
    BY <1>1, <2>1, LockStep, GapStep, MergeStep, KeptStep, SeenStep, SourceStep, EndedStep DEF IInv
<1>2. CASE UNCHANGED vars
  <2>1. TypeOK'
    BY <1>2 DEF IInv, TypeOK, vars, fileVars, lockVars, callVars, mergeVars, ghostVars
  <2>2. LockInv' /\ GapInv' /\ EndedInv'
    BY <1>2 DEF IInv, LockInv, GapInv, EndedInv, Holds, vars, fileVars, lockVars, ghostVars
  <2>3. Quiet
    BY <1>2 DEF Quiet, IInv, TypeOK, vars, fileVars, lockVars, callVars, mergeVars, ghostVars
  <2>4. MergeInv'
    <3>1. \A q \in Recorders : Merges(q)
      BY DEF IInv, MergeInv, Merges
    <3>2. \A q \in Recorders : Merges(q)'
      BY <2>1, <2>3, <3>1, FewerSegments DEF IInv, Quiet, fileVars
    <3>3. ~ isFile' => base' = Nothing
      BY <1>2 DEF IInv, MergeInv, vars, fileVars
    <3> QED
      BY <3>2, <3>3 DEF MergeInv, Merges, Nothing
  <2>5. KeptInv' /\ SeenInv' /\ SourceInv'
    BY <1>2 DEF IInv, KeptInv, Safe, SeenInv, SourceInv, vars, fileVars, callVars, mergeVars, ghostVars
  <2> QED
    BY <2>1, <2>2, <2>4, <2>5 DEF IInv
<1> QED
  BY <1>1, <1>2

\* The ledger is what IInv says in every reachable state.
THEOREM Invariance == Spec => []IInv
<1>1. Init => IInv
  BY InitInv
<1>2. IInv /\ [Next]_vars => IInv'
  BY StepInv
<1> QED
  BY <1>1, <1>2, PTL DEF Spec

\* What delivered() shows of a row: the newest entry of any file, while it counts.
Sees(b, g, time, i) == Reduce(b, Newest({g[s] : s \in Segs}), time)[i]

LEMMA SeesIs ==
  ASSUME NEW b \in Entries, NEW g \in [Segs -> Entries], NEW time \in Nat, NEW i \in Ids
  PROVE  /\ Sees(b, g, time, i) \in Nat
         /\ Sees(b, g, time, i) > 0 => InWindow(Sees(b, g, time, i), time)
         /\ Sees(b, g, time, i) > 0 => \/ Sees(b, g, time, i) = b[i]
                                      \/ \E s \in Segs : Sees(b, g, time, i) = g[s][i]
         /\ \A n \in Nat : InWindow(n, time) /\ (b[i] >= n \/ \E s \in Segs : g[s][i] >= n)
              => Sees(b, g, time, i) >= n
<1> DEFINE v == Sees(b, g, time, i)
           l == Newest({g[s] : s \in Segs})
<1>1. {g[s] : s \in Segs} \in SUBSET Entries
  OBVIOUS
<1>2. /\ l \in Entries /\ \A s \in Segs : g[s][i] <= l[i]
      /\ l[i] = 0 \/ \E s \in Segs : l[i] = g[s][i]
  BY <1>1, NewestIs
<1>3. l[i] \in Nat /\ b[i] \in Nat /\ \A s \in Segs : g[s][i] \in Nat
  BY <1>2, NumbersAssumption DEF Entries
<1> HIDE DEF l
<1>4. PICK ts \in 0 .. MaxTime : /\ ts \in {b[i], l[i]}
                               /\ v = IF InWindow(ts, time) THEN ts ELSE 0
  BY <1>2, ReduceIs DEF l, Sees
<1>5. v \in Nat /\ (v > 0 => InWindow(v, time) /\ (v = b[i] \/ v = l[i]))
  BY <1>4, NumbersAssumption
<1>6. ASSUME NEW n \in Nat, InWindow(n, time), b[i] >= n \/ \E s \in Segs : g[s][i] >= n
      PROVE  v >= n
  <2>1. b[i] >= n \/ l[i] >= n
    BY <1>2, <1>3, <1>6
  <2> QED
    BY <1>2, <1>6, <2>1, MergedIsNewer DEF l, Sees
<1>7. v > 0 => v = b[i] \/ \E s \in Segs : v = g[s][i]
  BY <1>2, <1>5
<1> QED
  BY <1>5, <1>6, <1>7

\* Whatever compactors merge, replace and unlink, and whoever is killed: a delivery that
\* was recorded is seen until its window has passed or the ledger is cleared.
THEOREM DeliveriesAreKept == Spec => []NothingLost
<1>1. IInv => NothingLost
  <2> SUFFICES ASSUME IInv, ~ gap, NEW i \in Ids, InWindow(recorded[i], now)
               PROVE  View[i] >= recorded[i]
    BY DEF NothingLost
  <2>1. /\ base \in Entries /\ seg \in [Segs -> Entries] /\ now \in Nat /\ recorded[i] \in Nat
    BY NumbersAssumption DEF IInv, TypeOK, Entries
  <2>2. base[i] >= recorded[i] \/ \E s \in Segs : seg[s][i] >= recorded[i]
    BY DEF IInv, KeptInv
  <2>3. View[i] = Sees(base, seg, now, i)
    BY DEF View, Sees
  <2> QED
    BY <2>1, <2>2, <2>3, SeesIs
<1> QED
  BY <1>1, Invariance, PTL

\* Once the calls that were at work have returned, an ended session has no ledger.
THEOREM EndedSessionsAreEmpty == Spec => []EndedStaysEmpty
<1>1. IInv => EndedStaysEmpty
  <2> SUFFICES ASSUME IInv, marker, faults = 0, \A p \in Procs : pc[p] = "idle"
               PROVE  View = Nothing
    BY DEF EndedStaysEmpty, At
  <2>1. base = Nothing /\ \A s \in Segs : seg[s] = Nothing
    BY DEF IInv, EndedInv, Procs
  <2>2. base \in Entries /\ seg \in [Segs -> Entries] /\ now \in Nat
    BY NumbersAssumption DEF IInv, TypeOK
  <2>3. ASSUME NEW i \in Ids PROVE View[i] = 0
    <3>1. View[i] = Sees(base, seg, now, i)
      BY DEF View, Sees
    <3>2. View[i] \in Nat /\ (View[i] > 0 => View[i] = base[i] \/ \E s \in Segs : View[i] = seg[s][i])
      BY <2>2, <3>1, SeesIs
    <3> QED
      BY <2>1, <3>2, NothingIs
  <2>4. View = [i \in Ids |-> View[i]]
    BY DEF View, Reduce
  <2> QED
    BY <2>3, <2>4 DEF Nothing
<1> QED
  BY <1>1, Invariance, PTL

\* Of two calls that deliver one row, under the lock, only one admits it.
THEOREM RowsAdmittedOnce == Spec => AdmittedOnce
<1>1. IInv /\ [Next]_vars
        => [\A p \in Recorders :
              At(p, "publish") /\ At(p, "recorded")' /\ ~ late /\ ~ gap
              => \A i \in Fresh(p) : ~ InWindow(recorded[i], now)]_vars
  <2> SUFFICES ASSUME IInv, NEW p \in Recorders, pc[p] = "publish", ~ late, ~ gap, NEW i \in Fresh(p),
                      InWindow(recorded[i], now)
               PROVE  FALSE
    BY DEF At
  <2>1. i \in Ids /\ view[p][i] = 0
    BY DEF Fresh, IInv, TypeOK
  <2>2. view[p][i] >= recorded[i]
    BY <2>1 DEF IInv, SeenInv
  <2>3. recorded[i] \in Nat
    BY <2>1, NumbersAssumption DEF IInv, TypeOK, Entries
  <2> QED
    BY <2>1, <2>2, <2>3 DEF InWindow
<1> QED
  BY <1>1, Invariance, PTL DEF Spec, AdmittedOnce

\* Files that have nothing newer show nothing newer.
LEMMA NothingNewer ==
  ASSUME IInv, TypeOK', NEW i \in Ids, now' >= now,
         \A n \in Nat : InWindow(n, now) /\ (n = base'[i] \/ \E s \in Segs : n = seg'[s][i])
                        => base[i] >= n \/ \E s \in Segs : seg[s][i] >= n
  PROVE  ~ (View'[i] > View[i])
<1> DEFINE v == Sees(base, seg, now, i)
           w == Sees(base', seg', now', i)
<1>1. View[i] = v /\ View'[i] = w
  BY DEF View, Sees, Reduce, Newest
<1>2. /\ base \in Entries /\ seg \in [Segs -> Entries] /\ now \in Nat
      /\ base' \in Entries /\ seg' \in [Segs -> Entries] /\ now' \in Nat /\ Window \in Nat
  BY NumbersAssumption DEF IInv, TypeOK
<1>3. /\ v \in Nat
      /\ \A n \in Nat : InWindow(n, now) /\ (base[i] >= n \/ \E s \in Segs : seg[s][i] >= n) => v >= n
  BY <1>2, SeesIs
<1>4. /\ w \in Nat
      /\ w > 0 => InWindow(w, now') /\ (w = base'[i] \/ \E s \in Segs : w = seg'[s][i])
  BY <1>2, SeesIs
<1> HIDE DEF v, w
<1>5. w > 0 => InWindow(w, now)
  BY <1>2, <1>4 DEF InWindow
<1>6. w > 0 => v >= w
  BY <1>3, <1>4, <1>5
<1> QED
  BY <1>1, <1>3, <1>4, <1>6

LEMMA OnlyPublishShows ==
  ASSUME IInv, IInv', Next, ~ Publishes, ~ slow', NEW i \in Ids
  PROVE  ~ (View'[i] > View[i])
<1>t. /\ base \in Entries /\ seg \in [Segs -> Entries] /\ lists \in [Recorders -> Entries]
      /\ pc \in [Procs -> RecorderPhases \cup ClearerPhases]
      /\ now \in Nat /\ now' \in Nat /\ \A p \in Recorders : at[p] \in Nat
      /\ base[i] \in Nat /\ \A s \in Segs : seg[s][i] \in Nat
  BY NumbersAssumption DEF IInv, TypeOK, Entries
<1> DEFINE Had(n) == base[i] >= n \/ \E s \in Segs : seg[s][i] >= n
<1>1. SUFFICES /\ now' >= now
               /\ \A n \in Nat : InWindow(n, now) /\ (n = base'[i] \/ \E s \in Segs : n = seg'[s][i]) => Had(n)
  BY <1>1, NothingNewer DEF IInv
<1> DEFINE Good == /\ now' >= now
                   /\ \A n \in Nat : InWindow(n, now) /\ (n = base'[i] \/ \E s \in Segs : n = seg'[s][i]) => Had(n)
<1> USE <1>t DEF Procs, At, Goto, mergeVars, fileVars, callVars, ghostVars
<1>2. ASSUME base' = base \/ base' = Nothing, now' >= now,
             \A s \in Segs : seg'[s] = seg[s] \/ seg'[s] = Nothing
      PROVE  Good
  <2>1. ASSUME NEW n \in Nat, InWindow(n, now), n = base'[i] PROVE base[i] >= n
    BY <1>2, <2>1, NothingIs DEF InWindow
  <2>2. ASSUME NEW n \in Nat, InWindow(n, now), NEW s \in Segs, n = seg'[s][i] PROVE seg[s][i] >= n
    BY <1>2, <2>2, NothingIs DEF InWindow
  <2> QED
    BY <1>2, <2>1, <2>2
<1>3. CASE Quiet
  BY <1>2, <1>3 DEF Quiet
<1>4. ASSUME NEW p \in Recorders, Publish(p) PROVE FALSE
  BY <1>4 DEF Publish, Admitted, Publishes
<1>5. ASSUME NEW p \in Recorders,
             DropEnded(p) \/ Merge(p) \/ Revalidate(p) \/ Verify(p) \/ Unlink(p) \/ Reap(p)
      PROVE  Good
  <2>1. base' = base /\ now' = now
    BY <1>5 DEF DropEnded, Merge, Revalidate, Verify, Unlink, Reap
  <2>2. \A s \in Segs : seg'[s] = seg[s] \/ seg'[s] = Nothing
    BY <1>5 DEF DropEnded, Merge, Revalidate, Verify, Unlink, Reap
  <2> QED
    BY <1>2, <2>1, <2>2
<1>6. ASSUME NEW p \in Clearers, ClearBase(p) \/ ClearSegs(p) PROVE Good
  <2>1. (base' = base \/ base' = Nothing) /\ now' = now
    BY <1>6 DEF ClearBase, ClearSegs
  <2>2. \A s \in Segs : seg'[s] = seg[s] \/ seg'[s] = Nothing
    BY <1>6 DEF ClearBase, ClearSegs
  <2> QED
    BY <1>2, <2>1, <2>2
\* What is written was in the base or is in a segment.
<1>7. ASSUME NEW p \in Recorders, Write(p) PROVE Good
  <2>1. /\ base' = merged[p] /\ UNCHANGED <<seg, now, slow>> /\ pc[p] \in Writing
    BY <1>7 DEF Write, Replace, Writing
  <2>2. ~ slow /\ ~ gap
    BY <2>1 DEF IInv, GapInv
  <2>3. merged[p] = Reduce(base, lists[p], at[p])
    BY <2>1, <2>2 DEF IInv, MergeInv
  <2>4. PICK ts \in 0 .. MaxTime :
          /\ ts \in {base[i], lists[p][i]}
          /\ merged[p][i] = IF InWindow(ts, at[p]) THEN ts ELSE 0
    <3>1. lists[p] \in Entries /\ at[p] \in Nat
      OBVIOUS
    <3>2. \E ts \in 0 .. MaxTime :
            /\ ts \in {base[i], lists[p][i]}
            /\ Reduce(base, lists[p], at[p])[i] = IF InWindow(ts, at[p]) THEN ts ELSE 0
      BY <3>1, ReduceIs
    <3> QED
      BY <2>3, <3>2
  <2>5. ASSUME NEW n \in Nat, InWindow(n, now), n = base'[i] PROVE Had(n)
    <3>1. n = base[i] \/ n = lists[p][i]
      BY <2>1, <2>4, <2>5 DEF InWindow
    <3>2. CASE n = base[i]
      BY <3>2
    <3>3. CASE n = lists[p][i]
      BY <2>1, <2>2, <2>5, <3>3 DEF IInv, SourceInv, Merging, Writing
    <3> QED
      BY <3>1, <3>2, <3>3
  <2>6. ASSUME NEW n \in Nat, NEW s \in Segs, n = seg'[s][i] PROVE Had(n)
    BY <2>1, <2>6
  <2> QED
    BY <2>1, <2>5, <2>6
<1> QED
  BY <1>3, <1>4, <1>5, <1>6, <1>7, QuietSteps DEF Loud, IInv

\* No compaction brings back a row that a clear has removed, unless a lock was broken while
\* its holder compacted.
THEOREM CompactionsAddNothing == Spec => OnlyRecordingShows
<1>1. IInv /\ IInv' /\ [Next]_vars => [Shows => Publishes \/ slow']_vars
  BY OnlyPublishShows DEF Shows
<1> QED
  BY <1>1, Invariance, PTL DEF Spec, OnlyRecordingShows

================================================================================
