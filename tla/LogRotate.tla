------------------------------ MODULE LogRotate ------------------------------
(***************************************************************************)
(* Rotation of the append-only telemetry logs (storelib/log_rotate.py): an *)
(* appender first rotates the file when it is over the cap, then appends.  *)
(* The shift of the segment family, the eviction and the stamp are system  *)
(* calls of their own, taken without a lock: appenders of several hook     *)
(* processes interleave, any call may fail, a hook may be killed.          *)
(*                                                                         *)
(* A file is abstracted to the set of the lines it holds, a line to a      *)
(* number that grows with its age of writing (lines found at the start are *)
(* negative).  The cap is counted in lines.                                *)
(***************************************************************************)
EXTENDS Integers, FiniteSetsExt

CONSTANTS Appenders,
          Cap, Keep,   \* lines an active file may hold; segments kept
          FirstSegs,   \* bound: highest segment number of the family found
          MaxLines,    \* bound: lines appended
          MaxFaults    \* bound: system calls that fail, and kills

MaxSeg == FirstSegs + MaxLines + MaxFaults  \* each rotation, done or killed, shifts by one
Lines  == (-FirstSegs .. -1) \union (1 .. MaxLines)
Absent == [lines |-> {}, seq |-> -1]     \* no such segment
Segs   == [lines : SUBSET Lines, seq : -1 .. MaxSeg]  \* seq 0: not stamped

VARIABLES active,   \* the lines of the log
          exists,   \* the log exists
          seg,      \* path.1, path.2, ...
          written,  \* every line that was ever appended
          pc, todo, \* each appender's step; segments it still has to shift or evict
          misread,  \* ghost: a segment was stamped although not all markers were read
          faults

vars == <<active, exists, seg, written, pc, todo, misread, faults>>

Family == {n \in 1 .. MaxSeg : seg[n] # Absent}   \* iter_segments

Init ==
  /\ active = {} /\ exists = FALSE
  /\ \E S \in SUBSET (1 .. FirstSegs) :     \* contiguous, gapped or hand-pruned
       /\ seg = [n \in 1 .. MaxSeg |-> IF n \in S THEN [lines |-> {-n}, seq |-> 0] ELSE Absent]
       /\ written = {-n : n \in S}
  /\ pc = [p \in Appenders |-> "rest"]
  /\ todo = [p \in Appenders |-> {}]
  /\ misread = FALSE /\ faults = 0

Goto(p, s) == pc' = [pc EXCEPT ![p] = s]
Abort(p)   == Goto(p, "append") /\ todo' = [todo EXCEPT ![p] = {}]
Fault      == faults < MaxFaults /\ faults' = faults + 1

-----------------------------------------------------------------------------
Probe(p) ==
  /\ pc[p] = "rest" /\ MaxLines \notin written
  /\ Goto(p, IF exists /\ Cardinality(active) > Cap THEN "list" ELSE "append")
  /\ UNCHANGED <<active, exists, seg, written, todo, misread, faults>>

List(p) ==
  /\ pc[p] = "list"
  /\ todo' = [todo EXCEPT ![p] = Family] /\ Goto(p, "shift")
  /\ UNCHANGED <<active, exists, seg, written, misread, faults>>

\* the segments of the listing, highest number first
NextShiftLowest(p) == Min(todo[p])
NextShift(p) == Max(todo[p])

Shift(p) ==
  /\ pc[p] = "shift" /\ todo[p] # {}
  /\ LET n == NextShift(p) IN
       IF seg[n] = Absent THEN Abort(p) /\ UNCHANGED seg
       ELSE /\ seg' = [seg EXCEPT ![n + 1] = seg[n], ![n] = Absent]
            /\ todo' = [todo EXCEPT ![p] = @ \ {n}] /\ UNCHANGED pc
  /\ UNCHANGED <<active, exists, written, misread, faults>>

RotateActive(p) ==
  /\ pc[p] = "shift" /\ todo[p] = {}
  /\ IF ~exists THEN Abort(p) /\ UNCHANGED <<active, exists, seg>>
     ELSE /\ seg' = [seg EXCEPT ![1] = [lines |-> active, seq |-> 0]]
          /\ active' = {} /\ exists' = FALSE /\ Goto(p, "relist") /\ UNCHANGED todo
  /\ UNCHANGED <<written, misread, faults>>

\* all but the Keep lowest numbers of the family as it is listed again
Victims == {n \in Family : Cardinality({k \in Family : k < n}) >= Keep}

Relist(p) ==
  /\ pc[p] = "relist"
  /\ todo' = [todo EXCEPT ![p] = Victims] /\ Goto(p, "evict")
  /\ UNCHANGED <<active, exists, seg, written, misread, faults>>

Evict(p) ==
  /\ pc[p] = "evict" /\ todo[p] # {}
  /\ seg' = [seg EXCEPT ![Min(todo[p])] = Absent]
  /\ todo' = [todo EXCEPT ![p] = @ \ {Min(@)}]
  /\ UNCHANGED <<active, exists, written, pc, misread, faults>>

\* a segment that cannot be removed stays, and the eviction goes on
EvictFails(p) ==
  /\ pc[p] = "evict" /\ todo[p] # {} /\ Fault
  /\ todo' = [todo EXCEPT ![p] = @ \ {Min(@)}]
  /\ UNCHANGED <<active, exists, seg, written, pc, misread>>

NextSeqOfLast(read) == Max({0} \union {seg[n].seq : n \in read \ {2}}) + 1
\* one more than the highest marker of the segments that were read
NextSeq(read) == Max({0} \union {seg[n].seq : n \in read}) + 1

Stamped(read) == IF seg[1] = Absent THEN seg ELSE [seg EXCEPT ![1].seq = NextSeq(read)]

\* The stamp copies .1 behind its marker (read and replaced in one step here); a
\* stamp that fails leaves it unmarked.  The family cannot be listed for the scan
\* of the markers, or a segment not opened: it counts as one without a marker.
Stamp(p) ==
  /\ pc[p] = "evict" /\ todo[p] = {} /\ Goto(p, "fresh")
  /\ \/ seg' = Stamped(Family) /\ UNCHANGED <<misread, faults>>
     \/ Fault /\ UNCHANGED <<seg, misread>>
     \/ /\ Fault /\ misread' = TRUE
        /\ \E read \in SUBSET Family : read # Family /\ seg' = Stamped(read)
  /\ UNCHANGED <<active, exists, written, todo>>

Fresh(p) ==
  /\ pc[p] = "fresh" /\ exists' = TRUE /\ Goto(p, "append")
  /\ UNCHANGED <<active, seg, written, todo, misread, faults>>

\* rotate_on_append returns, and the caller appends whatever it answered
Append(p) ==
  /\ pc[p] = "append" /\ Goto(p, "rest")
  /\ LET line == Max({0} \union written) + 1 IN
       active' = active \union {line} /\ written' = written \union {line}
  /\ exists' = TRUE /\ UNCHANGED <<seg, todo, misread, faults>>

CallFails(p) ==
  /\ pc[p] \in {"list", "shift", "relist"} /\ Fault /\ Abort(p)
  /\ UNCHANGED <<active, exists, seg, written, misread>>

Kill(p) ==
  /\ pc[p] # "rest" /\ Fault
  /\ Goto(p, "rest") /\ todo' = [todo EXCEPT ![p] = {}]
  /\ UNCHANGED <<active, exists, seg, written, misread>>

Step(p) ==
  \/ Probe(p) \/ List(p) \/ Shift(p) \/ RotateActive(p) \/ Relist(p) \/ Evict(p) \/ EvictFails(p)
  \/ Stamp(p) \/ Fresh(p) \/ Append(p) \/ CallFails(p) \/ Kill(p)
Next == \E p \in Appenders : Step(p)
Spec == Init /\ [][Next]_vars

-----------------------------------------------------------------------------
TypeOK ==
  /\ active \in SUBSET Lines /\ exists \in BOOLEAN /\ written \in SUBSET Lines
  /\ seg \in [1 .. MaxSeg -> Segs]
  /\ pc \in [Appenders -> {"rest", "list", "shift", "relist", "evict", "fresh", "append"}]
  /\ todo \in [Appenders -> SUBSET (1 .. MaxSeg)]
  /\ misread \in BOOLEAN /\ faults \in 0 .. MaxFaults

Newer(l) == {n \in Family : \A k \in seg[n].lines : k > l}

\* "Sustained rotation failure degrades to unbounded growth, NEVER to evidence
\* loss" (log_rotate.py:27-30): a line that was written is in the log or in a
\* segment, unless it was evicted, and then at least Keep newer segments stand.
NothingDestroyed ==
  \A l \in written : \/ l \in active \/ \E n \in Family : l \in seg[n].lines
                     \/ Cardinality(Newer(l)) >= Keep

\* A segment with a higher number holds older lines, whatever failed, was killed or
\* was gapped; and the markers agree, "one higher than the highest marker already
\* in the family" (_stamp_segment), also when stamps failed or a shift was left
\* half done, unless a segment was stamped whose scan of the markers failed.
NumberedByAge ==
  \A m, n \in Family : m < n =>
    /\ \A k \in seg[m].lines, l \in seg[n].lines : k > l
    /\ ~misread /\ seg[m].seq > 0 => seg[m].seq > seg[n].seq
=============================================================================
