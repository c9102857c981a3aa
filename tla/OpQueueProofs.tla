----------------------------- MODULE OpQueueProofs -----------------------------
(***************************************************************************)
(* Proofs about the operation queue of one principal, for any number of    *)
(* writers, brokers and ops, any dedup keys, and any bounds.               *)
(*                                                                         *)
(* The argument: whoever is in a read-modify-write holds the lock          *)
(* (LockInv), so what it read is still the file (SeenInv), and the op it   *)
(* is about to append is new to the file, in name, in client_seq and in    *)
(* dedup key (CurInv).                                                     *)
(***************************************************************************)
EXTENDS OpQueue, FiniteSetTheorems, TLAPS

\* Where each kind of process can be.
PcInv ==
  /\ \A w \in Writers : pc[w] \in {"idle", "reap", "append", "return"}
  /\ \A b \in Brokers : pc[b] \in {"idle", "send", "wait", "mark", "write"}

\* The processes inside a read-modify-write are the holder of the lock.
LockInv ==
  \A p \in Procs : pc[p] \in {"reap", "append", "return", "write"} <=> lock = p

\* What was read under the lock is what the file still holds.
SeenInv == \A p \in Procs : pc[p] \in {"reap", "write"} => seen[p] = Contents

\* The line about to be appended collides with nothing in the file.
NewLine(w) ==
  /\ cur[w] \notin lines \cup reaped
  /\ \A x \in lines : seq[x] < nextSeq[w]
  /\ ~ DedupHit(lines, cur[w])

CurInv ==
  \A w \in Writers :
    /\ pc[w] # "idle" => cur[w] \in Ops \ unminted
    /\ pc[w] \in {"reap", "append"} => NewLine(w)
    /\ pc[w] = "return" => cur[w] \in lines

\* An op_id not minted yet is nowhere, a reaped one is not in the file.
MintInv ==
  /\ (lines \cup reaped) \cap unminted = {}
  /\ lines \cap reaped = {}

IInv == /\ TypeOK /\ PcInv /\ LockInv /\ SeenInv /\ CurInv /\ MintInv
        /\ NoSilentLoss /\ OneLinePerKey /\ SeqsDistinct

--------------------------------------------------------------------------------
(* The last client_seq.                                                    *)

\* A nonempty file has a line whose client_seq is the largest.
LEMMA LastLine ==
  ASSUME NEW f \in [Ops -> Nat], NEW ls \in SUBSET Ops, ls # {}
  PROVE  \E x \in ls : \A y \in ls : f[y] <= f[x]
<1> DEFINE Endless == {T \in SUBSET Ops : T # {} /\ \A x \in T : \E y \in T : f[x] < f[y]}
<1>1. SUFFICES ASSUME Endless # {}
               PROVE  FALSE
  BY <1>1
<1>2. PICK T \in Endless : \A U \in Endless : <<U, T>> \notin StrictSubsetOrdering(Ops)
  <2>1. Endless \subseteq FiniteSubsetsOf(Ops)
    BY FS_FiniteSubsetsOfFinite, OpsAssumption
  <2>2. IsWellFoundedOn(StrictSubsetOrdering(Ops), FiniteSubsetsOf(Ops))
    BY FS_StrictSubsetOrderingWellFounded
  <2> QED
    BY <1>1, <2>1, <2>2, WFMin
<1>3. PICK t \in T : TRUE
  OBVIOUS
<1> DEFINE U == T \ {t}
<1>4. U \notin Endless
  <2>1. <<U, T>> \in StrictSubsetOrdering(Ops)
    BY <1>3 DEF StrictSubsetOrdering
  <2> QED
    BY <1>2, <2>1
<1>5. U # {}
  BY <1>3
<1>6. PICK u \in U : \A y \in U : ~ (f[u] < f[y])
  BY <1>4, <1>5
<1>7. u \in Ops /\ t \in Ops /\ f[u] \in Nat /\ f[t] \in Nat
  BY <1>3
<1>8. CASE f[u] < f[t]
  BY <1>3, <1>6, <1>7, <1>8
<1>9. CASE ~ (f[u] < f[t])
  BY <1>3, <1>6, <1>7, <1>9
<1> QED
  BY <1>8, <1>9

\* The client_seq an enqueue computes is above every one in the file it read.
LEMMA SeqAfterIsNext ==
  ASSUME NEW ls \in SUBSET Ops, seq \in [Ops -> Nat]
  PROVE  /\ SeqAfter(ls) \in Nat
         /\ \A x \in ls : seq[x] < SeqAfter(ls)
<1>1. CASE ls = {}
  BY <1>1 DEF SeqAfter
<1>2. CASE ls # {}
  <2> DEFINE S == {seq[o] : o \in ls}
  <2>1. \E m \in S : \A y \in S : m >= y
    BY <1>2, LastLine
  <2>2. PICK m \in S : m = Max(S) /\ \A y \in S : m >= y
    BY <2>1 DEF Max
  <2>3. m \in Nat /\ \A x \in ls : seq[x] \in Nat /\ m >= seq[x]
    BY <2>2
  <2>4. SeqAfter(ls) = m + 1
    BY <1>2, <2>2 DEF SeqAfter
  <2> QED
    BY <2>3, <2>4
<1> QED
  BY <1>1, <1>2

--------------------------------------------------------------------------------
(* Types.                                                                  *)

LEMMA NoFileType == NoFile \in File /\ NoFile.status \in [Ops -> Statuses]
BY DEF NoFile, File, Statuses

LEMMA InitType == Init => TypeOK
BY NoFileType, BoundsAssumption DEF Init, TypeOK, Tails, Statuses, Procs

\* The file keeps its type through the two ways it is written.
LEMMA RewriteType ==
  ASSUME NEW ls \in SUBSET Ops, NEW st \in [Ops -> Statuses], Rewrite(ls, st)
  PROVE  lines' \subseteq Ops /\ status' \in [Ops -> Statuses] /\ tail' \in Tails
BY DEF Rewrite, Statuses, Tails

LEMMA AppendType ==
  ASSUME TypeOK, NEW o \in Ops, NEW s \in Nat, NEW end \in Tails, AppendLine(o, s, end)
  PROVE  /\ lines' \subseteq Ops /\ seq' \in [Ops -> Nat]
         /\ status' \in [Ops -> Statuses] /\ tail' \in Tails
BY DEF TypeOK, AppendLine, Statuses

\* A process that dies leaves its own state well-typed, and the lock.
LEMMA DieType ==
  ASSUME TypeOK, NEW p \in Procs, Die(p)
  PROVE  /\ lock' \in Procs \cup {None}
         /\ pc' \in [Procs -> {"idle", "reap", "append", "return",
                               "send", "wait", "mark", "write"}]
         /\ cur' \in [Writers -> Ops \cup {None}] /\ nextSeq' \in [Writers -> Nat]
         /\ seen' \in [Procs -> File] /\ rows' \in [Brokers -> SUBSET Ops]
         /\ chunk' \in [Brokers -> SUBSET Ops]
         /\ receipts' \in [Brokers -> [Ops -> Statuses]]
         /\ unminted' \subseteq Ops /\ aged' \subseteq Ops
         /\ acked' \subseteq Ops /\ reaped' \subseteq Ops
<1>1. /\ lock' \in Procs \cup {None}
      /\ pc' \in [Procs -> {"idle", "reap", "append", "return",
                            "send", "wait", "mark", "write"}]
      /\ cur' \in [Writers -> Ops \cup {None}] /\ nextSeq' \in [Writers -> Nat]
      /\ seen' \in [Procs -> File]
  BY NoFileType DEF TypeOK, Die
<1>2. /\ rows' \in [Brokers -> SUBSET Ops] /\ chunk' \in [Brokers -> SUBSET Ops]
      /\ receipts' \in [Brokers -> [Ops -> Statuses]]
  BY NoFileType DEF TypeOK, Die
<1>3. UNCHANGED timeVars
  BY DEF Die
<1> QED
  BY <1>1, <1>2, <1>3 DEF TypeOK, timeVars

LEMMA NextType == IInv /\ [Next]_vars => TypeOK'
<1> SUFFICES ASSUME IInv, [Next]_vars
             PROVE  TypeOK'
  OBVIOUS
<1> USE DEF fileVars, procVars, timeVars
<1>0. TypeOK /\ CurInv /\ PcInv /\ Contents \in File
  BY DEF IInv, TypeOK, Contents, File
<1>1. ASSUME NEW w \in Writers, NEW o \in Ops, EnqueueLock(w, o)
      PROVE  TypeOK'
  BY <1>0, <1>1, SeqAfterIsNext DEF TypeOK, EnqueueLock, Procs
<1>2. ASSUME NEW w \in Writers, NEW o \in Ops, EnqueueDedup(w, o)
      PROVE  TypeOK'
  BY <1>0, <1>2 DEF TypeOK, EnqueueDedup
<1>3. ASSUME NEW w \in Writers, EnqueueReap(w)
      PROVE  TypeOK'
  <2>1. seen[w] \in File /\ w \in Procs
    BY <1>0 DEF TypeOK, Procs
  <2>2. lines' \subseteq Ops /\ status' \in [Ops -> Statuses] /\ tail' \in Tails
    BY <1>0, <1>3, <2>1, RewriteType DEF TypeOK, EnqueueReap, File
  <2>3. reaped' \subseteq Ops
    BY <1>0, <1>3, <2>1 DEF TypeOK, EnqueueReap, File
  <2> QED
    BY <1>0, <1>3, <2>1, <2>2, <2>3, NoFileType DEF TypeOK, EnqueueReap
<1>4. ASSUME NEW w \in Writers, EnqueueRefuse(w)
      PROVE  TypeOK'
  BY <1>0, <1>4 DEF TypeOK, EnqueueRefuse, Procs
<1>5. ASSUME NEW w \in Writers, EnqueueAppend(w)
      PROVE  TypeOK'
  <2>1. cur[w] \in Ops /\ nextSeq[w] \in Nat /\ "newline" \in Tails
    BY <1>0, <1>5 DEF TypeOK, CurInv, EnqueueAppend, Tails
  <2> QED
    BY <1>0, <1>5, <2>1, AppendType DEF TypeOK, EnqueueAppend
<1>6. ASSUME NEW w \in Writers, EnqueueReturn(w)
      PROVE  TypeOK'
  <2>1. cur[w] \in Ops
    BY <1>0, <1>6 DEF TypeOK, CurInv, EnqueueReturn
  <2> QED
    BY <1>0, <1>6, <2>1 DEF TypeOK, EnqueueReturn, Procs
<1>7. ASSUME NEW w \in Writers, CrashInAppend(w)
      PROVE  TypeOK'
  <2>1. cur[w] \in Ops /\ nextSeq[w] \in Nat /\ w \in Procs
    BY <1>0, <1>7 DEF TypeOK, CurInv, CrashInAppend, Procs
  <2>2. /\ lines' \subseteq Ops /\ seq' \in [Ops -> Nat]
        /\ status' \in [Ops -> Statuses] /\ tail' \in Tails /\ torn' \in Nat
    BY <1>0, <1>7, <2>1, AppendType DEF TypeOK, CrashInAppend, Tails
  <2>3. Die(w)
    BY <1>7 DEF CrashInAppend
  <2> QED
    BY <1>0, <2>1, <2>2, <2>3, DieType DEF TypeOK
<1>8. ASSUME NEW b \in Brokers, FlushStart(b)
      PROVE  TypeOK'
  BY <1>0, <1>8 DEF TypeOK, FlushStart, Pending
<1>9. ASSUME NEW b \in Brokers, FlushSend(b)
      PROVE  TypeOK'
  <2>1. rows[b] \in SUBSET Ops /\ Chunk(rows[b]) \subseteq rows[b]
    BY <1>0 DEF TypeOK, Chunk
  <2> QED
    BY <1>0, <1>9, <2>1 DEF TypeOK, FlushSend
<1>10. ASSUME NEW b \in Brokers, FlushBreak(b)
       PROVE  TypeOK'
  BY <1>0, <1>10 DEF TypeOK, FlushBreak
<1>11. ASSUME NEW b \in Brokers, MarkLock(b)
       PROVE  TypeOK'
  BY <1>0, <1>11 DEF TypeOK, MarkLock, Procs
<1>12. ASSUME NEW b \in Brokers, MarkWrite(b)
       PROVE  TypeOK'
  <2>1. seen[b] \in File /\ receipts[b] \in [Ops -> Statuses] /\ b \in Procs
    BY <1>0 DEF TypeOK, Procs
  <2>2. lines' \subseteq Ops /\ status' \in [Ops -> Statuses] /\ tail' \in Tails
    <3> DEFINE st == [o \in Ops |-> IF o \in Marked(b, seen[b]) THEN receipts[b][o]
                                    ELSE seen[b].status[o]]
    <3>1. st \in [Ops -> Statuses] /\ seen[b].lines \in SUBSET Ops
      BY <2>1 DEF File
    <3> QED
      BY <1>0, <1>12, <3>1, RewriteType DEF TypeOK, MarkWrite
  <2> QED
    BY <1>0, <1>12, <2>1, <2>2, NoFileType DEF TypeOK, MarkWrite, Procs
<1>13. ASSUME NEW b \in Brokers, AnyAnswer(b)
       PROVE  TypeOK'
  <2>1. PICK v \in [chunk[b] -> Verdicts] :
          FlushAnswer(b, [o \in Ops |-> IF o \in chunk[b] THEN v[o] ELSE "pending"])
    BY <1>13 DEF AnyAnswer
  <2>2. [o \in Ops |-> IF o \in chunk[b] THEN v[o] ELSE "pending"] \in [Ops -> Statuses]
    BY DEF Statuses
  <2> QED
    BY <1>0, <2>1, <2>2 DEF TypeOK, FlushAnswer
<1>14. ASSUME NEW p \in Procs, Crash(p)
       PROVE  TypeOK'
  BY <1>0, <1>14, DieType DEF TypeOK, Crash
<1>15. ASSUME NEW o \in Ops, Age(o)
       PROVE  TypeOK'
  BY <1>0, <1>15 DEF TypeOK, Age
<1>16. CASE UNCHANGED vars
  BY <1>0, <1>16 DEF TypeOK, vars
<1> QED
  BY <1>1, <1>2, <1>3, <1>4, <1>5, <1>6, <1>7, <1>8, <1>9, <1>10, <1>11, <1>12,
     <1>13, <1>14, <1>15, <1>16 DEF Next, WriterStep, BrokerStep

\* Writers and brokers keep to their own steps.
LEMMA NextPc == IInv /\ [Next]_vars => PcInv'
<1> SUFFICES ASSUME IInv, [Next]_vars
             PROVE  PcInv'
  OBVIOUS
<1> USE DEF fileVars, procVars, timeVars, Procs
<1>0. TypeOK /\ PcInv /\ LockInv /\ SeenInv /\ CurInv /\ MintInv
  BY DEF IInv
<1>1. ASSUME NEW w \in Writers, NEW o \in Ops, EnqueueLock(w, o)
      PROVE  PcInv'
  BY <1>0, <1>1, ProcsAssumption DEF TypeOK, PcInv, EnqueueLock, LockIsFree
<1>2. ASSUME NEW w \in Writers, NEW o \in Ops, EnqueueDedup(w, o)
      PROVE  PcInv'
  BY <1>0, <1>2, ProcsAssumption DEF TypeOK, PcInv, EnqueueDedup
<1>3. ASSUME NEW w \in Writers, EnqueueReap(w)
      PROVE  PcInv'
  BY <1>0, <1>3, ProcsAssumption DEF TypeOK, PcInv, EnqueueReap
<1>4. ASSUME NEW w \in Writers, EnqueueRefuse(w)
      PROVE  PcInv'
  BY <1>0, <1>4, ProcsAssumption DEF TypeOK, PcInv, EnqueueRefuse
<1>5. ASSUME NEW w \in Writers, EnqueueAppend(w)
      PROVE  PcInv'
  BY <1>0, <1>5, ProcsAssumption DEF TypeOK, PcInv, EnqueueAppend
<1>6. ASSUME NEW w \in Writers, EnqueueReturn(w)
      PROVE  PcInv'
  BY <1>0, <1>6, ProcsAssumption DEF TypeOK, PcInv, EnqueueReturn
<1>7. ASSUME NEW w \in Writers, CrashInAppend(w)
      PROVE  PcInv'
  BY <1>0, <1>7, ProcsAssumption DEF TypeOK, PcInv, CrashInAppend, Die
<1>8. ASSUME NEW b \in Brokers, FlushStart(b)
      PROVE  PcInv'
  BY <1>0, <1>8, ProcsAssumption DEF TypeOK, PcInv, FlushStart
<1>9. ASSUME NEW b \in Brokers, FlushSend(b)
      PROVE  PcInv'
  BY <1>0, <1>9, ProcsAssumption DEF TypeOK, PcInv, FlushSend
<1>10. ASSUME NEW b \in Brokers, FlushBreak(b)
       PROVE  PcInv'
  BY <1>0, <1>10, ProcsAssumption DEF TypeOK, PcInv, FlushBreak
<1>11. ASSUME NEW b \in Brokers, MarkLock(b)
       PROVE  PcInv'
  BY <1>0, <1>11, ProcsAssumption DEF TypeOK, PcInv, MarkLock, LockIsFree
<1>12. ASSUME NEW b \in Brokers, MarkWrite(b)
       PROVE  PcInv'
  BY <1>0, <1>12, ProcsAssumption DEF TypeOK, PcInv, MarkWrite
<1>13. ASSUME NEW b \in Brokers, AnyAnswer(b)
       PROVE  PcInv'
  BY <1>0, <1>13, ProcsAssumption DEF TypeOK, PcInv, AnyAnswer, FlushAnswer
<1>14. ASSUME NEW p \in Procs, Crash(p)
       PROVE  PcInv'
  BY <1>0, <1>14, ProcsAssumption DEF TypeOK, PcInv, Crash, Die
<1>15. ASSUME NEW o \in Ops, Age(o)
       PROVE  PcInv'
  BY <1>0, <1>15, ProcsAssumption DEF TypeOK, PcInv, Age
<1>16. CASE UNCHANGED vars
  BY <1>0, <1>16 DEF TypeOK, PcInv, vars
<1> QED
  BY <1>1, <1>2, <1>3, <1>4, <1>5, <1>6, <1>7, <1>8, <1>9, <1>10, <1>11, <1>12, <1>13, <1>14, <1>15, <1>16 DEF Next, WriterStep, BrokerStep

\* The lock.
LEMMA NextLock == IInv /\ [Next]_vars => LockInv'
<1> SUFFICES ASSUME IInv, [Next]_vars
             PROVE  LockInv'
  OBVIOUS
<1> USE DEF fileVars, procVars, timeVars, Procs
<1>0. TypeOK /\ PcInv /\ LockInv /\ SeenInv /\ CurInv /\ MintInv
  BY DEF IInv
<1>1. ASSUME NEW w \in Writers, NEW o \in Ops, EnqueueLock(w, o)
      PROVE  LockInv'
  BY <1>0, <1>1, ProcsAssumption DEF TypeOK, PcInv, LockInv, EnqueueLock, LockIsFree
<1>2. ASSUME NEW w \in Writers, NEW o \in Ops, EnqueueDedup(w, o)
      PROVE  LockInv'
  BY <1>0, <1>2, ProcsAssumption DEF TypeOK, PcInv, LockInv, EnqueueDedup
<1>3. ASSUME NEW w \in Writers, EnqueueReap(w)
      PROVE  LockInv'
  BY <1>0, <1>3, ProcsAssumption DEF TypeOK, PcInv, LockInv, EnqueueReap
<1>4. ASSUME NEW w \in Writers, EnqueueRefuse(w)
      PROVE  LockInv'
  BY <1>0, <1>4, ProcsAssumption DEF TypeOK, PcInv, LockInv, EnqueueRefuse
<1>5. ASSUME NEW w \in Writers, EnqueueAppend(w)
      PROVE  LockInv'
  BY <1>0, <1>5, ProcsAssumption DEF TypeOK, PcInv, LockInv, EnqueueAppend
<1>6. ASSUME NEW w \in Writers, EnqueueReturn(w)
      PROVE  LockInv'
  BY <1>0, <1>6, ProcsAssumption DEF TypeOK, PcInv, LockInv, EnqueueReturn
<1>7. ASSUME NEW w \in Writers, CrashInAppend(w)
      PROVE  LockInv'
  BY <1>0, <1>7, ProcsAssumption DEF TypeOK, PcInv, LockInv, CrashInAppend, Die
<1>8. ASSUME NEW b \in Brokers, FlushStart(b)
      PROVE  LockInv'
  BY <1>0, <1>8, ProcsAssumption DEF TypeOK, PcInv, LockInv, FlushStart
<1>9. ASSUME NEW b \in Brokers, FlushSend(b)
      PROVE  LockInv'
  BY <1>0, <1>9, ProcsAssumption DEF TypeOK, PcInv, LockInv, FlushSend
<1>10. ASSUME NEW b \in Brokers, FlushBreak(b)
       PROVE  LockInv'
  BY <1>0, <1>10, ProcsAssumption DEF TypeOK, PcInv, LockInv, FlushBreak
<1>11. ASSUME NEW b \in Brokers, MarkLock(b)
       PROVE  LockInv'
  BY <1>0, <1>11, ProcsAssumption DEF TypeOK, PcInv, LockInv, MarkLock, LockIsFree
<1>12. ASSUME NEW b \in Brokers, MarkWrite(b)
       PROVE  LockInv'
  BY <1>0, <1>12, ProcsAssumption DEF TypeOK, PcInv, LockInv, MarkWrite
<1>13. ASSUME NEW b \in Brokers, AnyAnswer(b)
       PROVE  LockInv'
  BY <1>0, <1>13, ProcsAssumption DEF TypeOK, PcInv, LockInv, AnyAnswer, FlushAnswer
<1>14. ASSUME NEW p \in Procs, Crash(p)
       PROVE  LockInv'
  BY <1>0, <1>14, ProcsAssumption DEF TypeOK, PcInv, LockInv, Crash, Die
<1>15. ASSUME NEW o \in Ops, Age(o)
       PROVE  LockInv'
  BY <1>0, <1>15, ProcsAssumption DEF TypeOK, PcInv, LockInv, Age
<1>16. CASE UNCHANGED vars
  BY <1>0, <1>16 DEF TypeOK, PcInv, LockInv, vars
<1> QED
  BY <1>1, <1>2, <1>3, <1>4, <1>5, <1>6, <1>7, <1>8, <1>9, <1>10, <1>11, <1>12, <1>13, <1>14, <1>15, <1>16 DEF Next, WriterStep, BrokerStep

\* Nobody else writes the file while it is being rewritten.
LEMMA NextSeen == IInv /\ [Next]_vars => SeenInv'
<1> SUFFICES ASSUME IInv, [Next]_vars
             PROVE  SeenInv'
  OBVIOUS
<1> USE DEF fileVars, procVars, timeVars, Procs
<1>0. TypeOK /\ PcInv /\ LockInv /\ SeenInv /\ CurInv /\ MintInv
  BY DEF IInv
<1>1. ASSUME NEW w \in Writers, NEW o \in Ops, EnqueueLock(w, o)
      PROVE  SeenInv'
  BY <1>0, <1>1, ProcsAssumption DEF TypeOK, PcInv, LockInv, SeenInv, Contents, EnqueueLock, LockIsFree
<1>2. ASSUME NEW w \in Writers, NEW o \in Ops, EnqueueDedup(w, o)
      PROVE  SeenInv'
  BY <1>0, <1>2, ProcsAssumption DEF TypeOK, PcInv, LockInv, SeenInv, Contents, EnqueueDedup
<1>3. ASSUME NEW w \in Writers, EnqueueReap(w)
      PROVE  SeenInv'
  BY <1>0, <1>3, ProcsAssumption DEF TypeOK, PcInv, LockInv, SeenInv, Contents, EnqueueReap, Rewrite
<1>4. ASSUME NEW w \in Writers, EnqueueRefuse(w)
      PROVE  SeenInv'
  BY <1>0, <1>4, ProcsAssumption DEF TypeOK, PcInv, LockInv, SeenInv, Contents, EnqueueRefuse
<1>5. ASSUME NEW w \in Writers, EnqueueAppend(w)
      PROVE  SeenInv'
  BY <1>0, <1>5, ProcsAssumption DEF TypeOK, PcInv, LockInv, SeenInv, Contents, EnqueueAppend, AppendLine
<1>6. ASSUME NEW w \in Writers, EnqueueReturn(w)
      PROVE  SeenInv'
  BY <1>0, <1>6, ProcsAssumption DEF TypeOK, PcInv, LockInv, SeenInv, Contents, EnqueueReturn
<1>7. ASSUME NEW w \in Writers, CrashInAppend(w)
      PROVE  SeenInv'
  BY <1>0, <1>7, ProcsAssumption DEF TypeOK, PcInv, LockInv, SeenInv, Contents, CrashInAppend, Die, AppendLine
<1>8. ASSUME NEW b \in Brokers, FlushStart(b)
      PROVE  SeenInv'
  BY <1>0, <1>8, ProcsAssumption DEF TypeOK, PcInv, LockInv, SeenInv, Contents, FlushStart, Pending
<1>9. ASSUME NEW b \in Brokers, FlushSend(b)
      PROVE  SeenInv'
  BY <1>0, <1>9, ProcsAssumption DEF TypeOK, PcInv, LockInv, SeenInv, Contents, FlushSend
<1>10. ASSUME NEW b \in Brokers, FlushBreak(b)
       PROVE  SeenInv'
  BY <1>0, <1>10, ProcsAssumption DEF TypeOK, PcInv, LockInv, SeenInv, Contents, FlushBreak
<1>11. ASSUME NEW b \in Brokers, MarkLock(b)
       PROVE  SeenInv'
  BY <1>0, <1>11, ProcsAssumption DEF TypeOK, PcInv, LockInv, SeenInv, Contents, MarkLock, LockIsFree
<1>12. ASSUME NEW b \in Brokers, MarkWrite(b)
       PROVE  SeenInv'
  BY <1>0, <1>12, ProcsAssumption DEF TypeOK, PcInv, LockInv, SeenInv, Contents, MarkWrite, Rewrite
<1>13. ASSUME NEW b \in Brokers, AnyAnswer(b)
       PROVE  SeenInv'
  BY <1>0, <1>13, ProcsAssumption DEF TypeOK, PcInv, LockInv, SeenInv, Contents, AnyAnswer, FlushAnswer
<1>14. ASSUME NEW p \in Procs, Crash(p)
       PROVE  SeenInv'
  BY <1>0, <1>14, ProcsAssumption DEF TypeOK, PcInv, LockInv, SeenInv, Contents, Crash, Die
<1>15. ASSUME NEW o \in Ops, Age(o)
       PROVE  SeenInv'
  BY <1>0, <1>15, ProcsAssumption DEF TypeOK, PcInv, LockInv, SeenInv, Contents, Age
<1>16. CASE UNCHANGED vars
  BY <1>0, <1>16 DEF TypeOK, PcInv, LockInv, SeenInv, Contents, vars
<1> QED
  BY <1>1, <1>2, <1>3, <1>4, <1>5, <1>6, <1>7, <1>8, <1>9, <1>10, <1>11, <1>12, <1>13, <1>14, <1>15, <1>16 DEF Next, WriterStep, BrokerStep

\* Where op_ids are.
LEMMA NextMint == IInv /\ [Next]_vars => MintInv'
<1> SUFFICES ASSUME IInv, [Next]_vars
             PROVE  MintInv'
  OBVIOUS
<1> USE DEF fileVars, procVars, timeVars, Procs
<1>0. TypeOK /\ PcInv /\ LockInv /\ SeenInv /\ CurInv /\ MintInv
  BY DEF IInv
<1>1. ASSUME NEW w \in Writers, NEW o \in Ops, EnqueueLock(w, o)
      PROVE  MintInv'
  BY <1>0, <1>1, ProcsAssumption DEF TypeOK, SeenInv, CurInv, NewLine, MintInv, Contents, EnqueueLock, LockIsFree
<1>2. ASSUME NEW w \in Writers, NEW o \in Ops, EnqueueDedup(w, o)
      PROVE  MintInv'
  BY <1>0, <1>2, ProcsAssumption DEF TypeOK, SeenInv, CurInv, NewLine, MintInv, Contents, EnqueueDedup
<1>3. ASSUME NEW w \in Writers, EnqueueReap(w)
      PROVE  MintInv'
  BY <1>0, <1>3, ProcsAssumption DEF TypeOK, SeenInv, CurInv, NewLine, MintInv, Contents, EnqueueReap, Rewrite
<1>4. ASSUME NEW w \in Writers, EnqueueRefuse(w)
      PROVE  MintInv'
  BY <1>0, <1>4, ProcsAssumption DEF TypeOK, SeenInv, CurInv, NewLine, MintInv, Contents, EnqueueRefuse
<1>5. ASSUME NEW w \in Writers, EnqueueAppend(w)
      PROVE  MintInv'
  BY <1>0, <1>5, ProcsAssumption DEF TypeOK, SeenInv, CurInv, NewLine, MintInv, Contents, EnqueueAppend, AppendLine
<1>6. ASSUME NEW w \in Writers, EnqueueReturn(w)
      PROVE  MintInv'
  BY <1>0, <1>6, ProcsAssumption DEF TypeOK, SeenInv, CurInv, NewLine, MintInv, Contents, EnqueueReturn
<1>7. ASSUME NEW w \in Writers, CrashInAppend(w)
      PROVE  MintInv'
  BY <1>0, <1>7, ProcsAssumption DEF TypeOK, SeenInv, CurInv, NewLine, MintInv, Contents, CrashInAppend, Die, AppendLine
<1>8. ASSUME NEW b \in Brokers, FlushStart(b)
      PROVE  MintInv'
  BY <1>0, <1>8, ProcsAssumption DEF TypeOK, SeenInv, CurInv, NewLine, MintInv, Contents, FlushStart, Pending
<1>9. ASSUME NEW b \in Brokers, FlushSend(b)
      PROVE  MintInv'
  BY <1>0, <1>9, ProcsAssumption DEF TypeOK, SeenInv, CurInv, NewLine, MintInv, Contents, FlushSend
<1>10. ASSUME NEW b \in Brokers, FlushBreak(b)
       PROVE  MintInv'
  BY <1>0, <1>10, ProcsAssumption DEF TypeOK, SeenInv, CurInv, NewLine, MintInv, Contents, FlushBreak
<1>11. ASSUME NEW b \in Brokers, MarkLock(b)
       PROVE  MintInv'
  BY <1>0, <1>11, ProcsAssumption DEF TypeOK, SeenInv, CurInv, NewLine, MintInv, Contents, MarkLock, LockIsFree
<1>12. ASSUME NEW b \in Brokers, MarkWrite(b)
       PROVE  MintInv'
  BY <1>0, <1>12, ProcsAssumption DEF TypeOK, SeenInv, CurInv, NewLine, MintInv, Contents, MarkWrite, Rewrite
<1>13. ASSUME NEW b \in Brokers, AnyAnswer(b)
       PROVE  MintInv'
  BY <1>0, <1>13, ProcsAssumption DEF TypeOK, SeenInv, CurInv, NewLine, MintInv, Contents, AnyAnswer, FlushAnswer
<1>14. ASSUME NEW p \in Procs, Crash(p)
       PROVE  MintInv'
  BY <1>0, <1>14, ProcsAssumption DEF TypeOK, SeenInv, CurInv, NewLine, MintInv, Contents, Crash, Die
<1>15. ASSUME NEW o \in Ops, Age(o)
       PROVE  MintInv'
  BY <1>0, <1>15, ProcsAssumption DEF TypeOK, SeenInv, CurInv, NewLine, MintInv, Contents, Age
<1>16. CASE UNCHANGED vars
  BY <1>0, <1>16 DEF TypeOK, SeenInv, CurInv, NewLine, MintInv, Contents, vars
<1> QED
  BY <1>1, <1>2, <1>3, <1>4, <1>5, <1>6, <1>7, <1>8, <1>9, <1>10, <1>11, <1>12, <1>13, <1>14, <1>15, <1>16 DEF Next, WriterStep, BrokerStep

\* The line a writer is about to append.
LEMMA NextCur == IInv /\ [Next]_vars => CurInv'
<1> SUFFICES ASSUME IInv, [Next]_vars
             PROVE  CurInv'
  OBVIOUS
<1> USE DEF fileVars, procVars, timeVars, Procs
<1>0. TypeOK /\ PcInv /\ LockInv /\ SeenInv /\ CurInv /\ MintInv
  BY DEF IInv
<1>1. ASSUME NEW w \in Writers, NEW o \in Ops, EnqueueLock(w, o)
      PROVE  CurInv'
  BY <1>0, <1>1, ProcsAssumption, SeqAfterIsNext DEF TypeOK, PcInv, LockInv, SeenInv, CurInv, NewLine, MintInv, DedupHit, Contents, EnqueueLock, LockIsFree
<1>2. ASSUME NEW w \in Writers, NEW o \in Ops, EnqueueDedup(w, o)
      PROVE  CurInv'
  BY <1>0, <1>2, ProcsAssumption, SeqAfterIsNext DEF TypeOK, PcInv, LockInv, SeenInv, CurInv, NewLine, MintInv, DedupHit, Contents, EnqueueDedup
<1>3. ASSUME NEW w \in Writers, EnqueueReap(w)
      PROVE  CurInv'
  BY <1>0, <1>3, ProcsAssumption, SeqAfterIsNext DEF TypeOK, PcInv, LockInv, SeenInv, CurInv, NewLine, MintInv, DedupHit, Contents, EnqueueReap, Rewrite
<1>4. ASSUME NEW w \in Writers, EnqueueRefuse(w)
      PROVE  CurInv'
  BY <1>0, <1>4, ProcsAssumption, SeqAfterIsNext DEF TypeOK, PcInv, LockInv, SeenInv, CurInv, NewLine, MintInv, DedupHit, Contents, EnqueueRefuse
<1>5. ASSUME NEW w \in Writers, EnqueueAppend(w)
      PROVE  CurInv'
  BY <1>0, <1>5, ProcsAssumption, SeqAfterIsNext DEF TypeOK, PcInv, LockInv, SeenInv, CurInv, NewLine, MintInv, DedupHit, Contents, EnqueueAppend, AppendLine
<1>6. ASSUME NEW w \in Writers, EnqueueReturn(w)
      PROVE  CurInv'
  BY <1>0, <1>6, ProcsAssumption, SeqAfterIsNext DEF TypeOK, PcInv, LockInv, SeenInv, CurInv, NewLine, MintInv, DedupHit, Contents, EnqueueReturn
<1>7. ASSUME NEW w \in Writers, CrashInAppend(w)
      PROVE  CurInv'
  BY <1>0, <1>7, ProcsAssumption, SeqAfterIsNext DEF TypeOK, PcInv, LockInv, SeenInv, CurInv, NewLine, MintInv, DedupHit, Contents, CrashInAppend, Die, AppendLine
<1>8. ASSUME NEW b \in Brokers, FlushStart(b)
      PROVE  CurInv'
  BY <1>0, <1>8, ProcsAssumption, SeqAfterIsNext DEF TypeOK, PcInv, LockInv, SeenInv, CurInv, NewLine, MintInv, DedupHit, Contents, FlushStart, Pending
<1>9. ASSUME NEW b \in Brokers, FlushSend(b)
      PROVE  CurInv'
  BY <1>0, <1>9, ProcsAssumption, SeqAfterIsNext DEF TypeOK, PcInv, LockInv, SeenInv, CurInv, NewLine, MintInv, DedupHit, Contents, FlushSend
<1>10. ASSUME NEW b \in Brokers, FlushBreak(b)
       PROVE  CurInv'
  BY <1>0, <1>10, ProcsAssumption, SeqAfterIsNext DEF TypeOK, PcInv, LockInv, SeenInv, CurInv, NewLine, MintInv, DedupHit, Contents, FlushBreak
<1>11. ASSUME NEW b \in Brokers, MarkLock(b)
       PROVE  CurInv'
  BY <1>0, <1>11, ProcsAssumption, SeqAfterIsNext DEF TypeOK, PcInv, LockInv, SeenInv, CurInv, NewLine, MintInv, DedupHit, Contents, MarkLock, LockIsFree
<1>12. ASSUME NEW b \in Brokers, MarkWrite(b)
       PROVE  CurInv'
  BY <1>0, <1>12, ProcsAssumption, SeqAfterIsNext DEF TypeOK, PcInv, LockInv, SeenInv, CurInv, NewLine, MintInv, DedupHit, Contents, MarkWrite, Rewrite
<1>13. ASSUME NEW b \in Brokers, AnyAnswer(b)
       PROVE  CurInv'
  BY <1>0, <1>13, ProcsAssumption, SeqAfterIsNext DEF TypeOK, PcInv, LockInv, SeenInv, CurInv, NewLine, MintInv, DedupHit, Contents, AnyAnswer, FlushAnswer
<1>14. ASSUME NEW p \in Procs, Crash(p)
       PROVE  CurInv'
  BY <1>0, <1>14, ProcsAssumption, SeqAfterIsNext DEF TypeOK, PcInv, LockInv, SeenInv, CurInv, NewLine, MintInv, DedupHit, Contents, Crash, Die
<1>15. ASSUME NEW o \in Ops, Age(o)
       PROVE  CurInv'
  BY <1>0, <1>15, ProcsAssumption, SeqAfterIsNext DEF TypeOK, PcInv, LockInv, SeenInv, CurInv, NewLine, MintInv, DedupHit, Contents, Age
<1>16. CASE UNCHANGED vars
  BY <1>0, <1>16 DEF TypeOK, PcInv, LockInv, SeenInv, CurInv, NewLine, MintInv, DedupHit, Contents, vars
<1> QED
  BY <1>1, <1>2, <1>3, <1>4, <1>5, <1>6, <1>7, <1>8, <1>9, <1>10, <1>11, <1>12, <1>13, <1>14, <1>15, <1>16 DEF Next, WriterStep, BrokerStep

\* Entries the caller was told of.
LEMMA NextNoSilentLoss == IInv /\ [Next]_vars => NoSilentLoss'
<1> SUFFICES ASSUME IInv, [Next]_vars
             PROVE  NoSilentLoss'
  OBVIOUS
<1> USE DEF fileVars, procVars, timeVars, Procs
<1>0. TypeOK /\ LockInv /\ SeenInv /\ CurInv /\ NoSilentLoss
  BY DEF IInv
<1>1. ASSUME NEW w \in Writers, NEW o \in Ops, EnqueueLock(w, o)
      PROVE  NoSilentLoss'
  BY <1>0, <1>1 DEF TypeOK, SeenInv, CurInv, NoSilentLoss, Contents, EnqueueLock, LockIsFree
<1>2. ASSUME NEW w \in Writers, NEW o \in Ops, EnqueueDedup(w, o)
      PROVE  NoSilentLoss'
  BY <1>0, <1>2 DEF TypeOK, SeenInv, CurInv, NoSilentLoss, Contents, EnqueueDedup
<1>3. ASSUME NEW w \in Writers, EnqueueReap(w)
      PROVE  NoSilentLoss'
  BY <1>0, <1>3 DEF TypeOK, SeenInv, CurInv, NoSilentLoss, Contents, EnqueueReap, Rewrite
<1>4. ASSUME NEW w \in Writers, EnqueueRefuse(w)
      PROVE  NoSilentLoss'
  BY <1>0, <1>4 DEF TypeOK, SeenInv, CurInv, NoSilentLoss, Contents, EnqueueRefuse
<1>5. ASSUME NEW w \in Writers, EnqueueAppend(w)
      PROVE  NoSilentLoss'
  BY <1>0, <1>5 DEF TypeOK, SeenInv, CurInv, NoSilentLoss, Contents, EnqueueAppend, AppendLine
<1>6. ASSUME NEW w \in Writers, EnqueueReturn(w)
      PROVE  NoSilentLoss'
  BY <1>0, <1>6 DEF TypeOK, SeenInv, CurInv, NoSilentLoss, Contents, EnqueueReturn
<1>7. ASSUME NEW w \in Writers, CrashInAppend(w)
      PROVE  NoSilentLoss'
  BY <1>0, <1>7 DEF TypeOK, SeenInv, CurInv, NoSilentLoss, Contents, CrashInAppend, Die, AppendLine
<1>8. ASSUME NEW b \in Brokers, FlushStart(b)
      PROVE  NoSilentLoss'
  BY <1>0, <1>8 DEF TypeOK, SeenInv, CurInv, NoSilentLoss, Contents, FlushStart, Pending
<1>9. ASSUME NEW b \in Brokers, FlushSend(b)
      PROVE  NoSilentLoss'
  BY <1>0, <1>9 DEF TypeOK, SeenInv, CurInv, NoSilentLoss, Contents, FlushSend
<1>10. ASSUME NEW b \in Brokers, FlushBreak(b)
       PROVE  NoSilentLoss'
  BY <1>0, <1>10 DEF TypeOK, SeenInv, CurInv, NoSilentLoss, Contents, FlushBreak
<1>11. ASSUME NEW b \in Brokers, MarkLock(b)
       PROVE  NoSilentLoss'
  BY <1>0, <1>11 DEF TypeOK, SeenInv, CurInv, NoSilentLoss, Contents, MarkLock, LockIsFree
<1>12. ASSUME NEW b \in Brokers, MarkWrite(b)
       PROVE  NoSilentLoss'
  BY <1>0, <1>12 DEF TypeOK, SeenInv, CurInv, NoSilentLoss, Contents, MarkWrite, Rewrite
<1>13. ASSUME NEW b \in Brokers, AnyAnswer(b)
       PROVE  NoSilentLoss'
  BY <1>0, <1>13 DEF TypeOK, SeenInv, CurInv, NoSilentLoss, Contents, AnyAnswer, FlushAnswer
<1>14. ASSUME NEW p \in Procs, Crash(p)
       PROVE  NoSilentLoss'
  BY <1>0, <1>14 DEF TypeOK, SeenInv, CurInv, NoSilentLoss, Contents, Crash, Die
<1>15. ASSUME NEW o \in Ops, Age(o)
       PROVE  NoSilentLoss'
  BY <1>0, <1>15 DEF TypeOK, SeenInv, CurInv, NoSilentLoss, Contents, Age
<1>16. CASE UNCHANGED vars
  BY <1>0, <1>16 DEF TypeOK, SeenInv, CurInv, NoSilentLoss, Contents, vars
<1> QED
  BY <1>1, <1>2, <1>3, <1>4, <1>5, <1>6, <1>7, <1>8, <1>9, <1>10, <1>11, <1>12, <1>13, <1>14, <1>15, <1>16 DEF Next, WriterStep, BrokerStep

\* Dedup keys.
LEMMA NextOneLinePerKey == IInv /\ [Next]_vars => OneLinePerKey'
<1> SUFFICES ASSUME IInv, [Next]_vars
             PROVE  OneLinePerKey'
  OBVIOUS
<1> USE DEF fileVars, procVars, timeVars, Procs
<1>0. TypeOK /\ LockInv /\ SeenInv /\ CurInv /\ OneLinePerKey
  BY DEF IInv
<1>1. ASSUME NEW w \in Writers, NEW o \in Ops, EnqueueLock(w, o)
      PROVE  OneLinePerKey'
  BY <1>0, <1>1 DEF TypeOK, SeenInv, CurInv, NewLine, DedupHit, OneLinePerKey, Contents, EnqueueLock, LockIsFree
<1>2. ASSUME NEW w \in Writers, NEW o \in Ops, EnqueueDedup(w, o)
      PROVE  OneLinePerKey'
  BY <1>0, <1>2 DEF TypeOK, SeenInv, CurInv, NewLine, DedupHit, OneLinePerKey, Contents, EnqueueDedup
<1>3. ASSUME NEW w \in Writers, EnqueueReap(w)
      PROVE  OneLinePerKey'
  BY <1>0, <1>3 DEF TypeOK, SeenInv, CurInv, NewLine, DedupHit, OneLinePerKey, Contents, EnqueueReap, Rewrite
<1>4. ASSUME NEW w \in Writers, EnqueueRefuse(w)
      PROVE  OneLinePerKey'
  BY <1>0, <1>4 DEF TypeOK, SeenInv, CurInv, NewLine, DedupHit, OneLinePerKey, Contents, EnqueueRefuse
<1>5. ASSUME NEW w \in Writers, EnqueueAppend(w)
      PROVE  OneLinePerKey'
  BY <1>0, <1>5 DEF TypeOK, SeenInv, CurInv, NewLine, DedupHit, OneLinePerKey, Contents, EnqueueAppend, AppendLine
<1>6. ASSUME NEW w \in Writers, EnqueueReturn(w)
      PROVE  OneLinePerKey'
  BY <1>0, <1>6 DEF TypeOK, SeenInv, CurInv, NewLine, DedupHit, OneLinePerKey, Contents, EnqueueReturn
<1>7. ASSUME NEW w \in Writers, CrashInAppend(w)
      PROVE  OneLinePerKey'
  BY <1>0, <1>7 DEF TypeOK, SeenInv, CurInv, NewLine, DedupHit, OneLinePerKey, Contents, CrashInAppend, Die, AppendLine
<1>8. ASSUME NEW b \in Brokers, FlushStart(b)
      PROVE  OneLinePerKey'
  BY <1>0, <1>8 DEF TypeOK, SeenInv, CurInv, NewLine, DedupHit, OneLinePerKey, Contents, FlushStart, Pending
<1>9. ASSUME NEW b \in Brokers, FlushSend(b)
      PROVE  OneLinePerKey'
  BY <1>0, <1>9 DEF TypeOK, SeenInv, CurInv, NewLine, DedupHit, OneLinePerKey, Contents, FlushSend
<1>10. ASSUME NEW b \in Brokers, FlushBreak(b)
       PROVE  OneLinePerKey'
  BY <1>0, <1>10 DEF TypeOK, SeenInv, CurInv, NewLine, DedupHit, OneLinePerKey, Contents, FlushBreak
<1>11. ASSUME NEW b \in Brokers, MarkLock(b)
       PROVE  OneLinePerKey'
  BY <1>0, <1>11 DEF TypeOK, SeenInv, CurInv, NewLine, DedupHit, OneLinePerKey, Contents, MarkLock, LockIsFree
<1>12. ASSUME NEW b \in Brokers, MarkWrite(b)
       PROVE  OneLinePerKey'
  BY <1>0, <1>12 DEF TypeOK, SeenInv, CurInv, NewLine, DedupHit, OneLinePerKey, Contents, MarkWrite, Rewrite
<1>13. ASSUME NEW b \in Brokers, AnyAnswer(b)
       PROVE  OneLinePerKey'
  BY <1>0, <1>13 DEF TypeOK, SeenInv, CurInv, NewLine, DedupHit, OneLinePerKey, Contents, AnyAnswer, FlushAnswer
<1>14. ASSUME NEW p \in Procs, Crash(p)
       PROVE  OneLinePerKey'
  BY <1>0, <1>14 DEF TypeOK, SeenInv, CurInv, NewLine, DedupHit, OneLinePerKey, Contents, Crash, Die
<1>15. ASSUME NEW o \in Ops, Age(o)
       PROVE  OneLinePerKey'
  BY <1>0, <1>15 DEF TypeOK, SeenInv, CurInv, NewLine, DedupHit, OneLinePerKey, Contents, Age
<1>16. CASE UNCHANGED vars
  BY <1>0, <1>16 DEF TypeOK, SeenInv, CurInv, NewLine, DedupHit, OneLinePerKey, Contents, vars
<1> QED
  BY <1>1, <1>2, <1>3, <1>4, <1>5, <1>6, <1>7, <1>8, <1>9, <1>10, <1>11, <1>12, <1>13, <1>14, <1>15, <1>16 DEF Next, WriterStep, BrokerStep

\* Sequence numbers.
LEMMA NextSeqsDistinct == IInv /\ [Next]_vars => SeqsDistinct'
<1> SUFFICES ASSUME IInv, [Next]_vars
             PROVE  SeqsDistinct'
  OBVIOUS
<1> USE DEF fileVars, procVars, timeVars, Procs
<1>0. TypeOK /\ LockInv /\ SeenInv /\ CurInv /\ SeqsDistinct
  BY DEF IInv
<1>1. ASSUME NEW w \in Writers, NEW o \in Ops, EnqueueLock(w, o)
      PROVE  SeqsDistinct'
  BY <1>0, <1>1 DEF TypeOK, SeenInv, CurInv, NewLine, SeqsDistinct, Contents, EnqueueLock, LockIsFree
<1>2. ASSUME NEW w \in Writers, NEW o \in Ops, EnqueueDedup(w, o)
      PROVE  SeqsDistinct'
  BY <1>0, <1>2 DEF TypeOK, SeenInv, CurInv, NewLine, SeqsDistinct, Contents, EnqueueDedup
<1>3. ASSUME NEW w \in Writers, EnqueueReap(w)
      PROVE  SeqsDistinct'
  BY <1>0, <1>3 DEF TypeOK, SeenInv, CurInv, NewLine, SeqsDistinct, Contents, EnqueueReap, Rewrite
<1>4. ASSUME NEW w \in Writers, EnqueueRefuse(w)
      PROVE  SeqsDistinct'
  BY <1>0, <1>4 DEF TypeOK, SeenInv, CurInv, NewLine, SeqsDistinct, Contents, EnqueueRefuse
<1>5. ASSUME NEW w \in Writers, EnqueueAppend(w)
      PROVE  SeqsDistinct'
  BY <1>0, <1>5 DEF TypeOK, SeenInv, CurInv, NewLine, SeqsDistinct, Contents, EnqueueAppend, AppendLine
<1>6. ASSUME NEW w \in Writers, EnqueueReturn(w)
      PROVE  SeqsDistinct'
  BY <1>0, <1>6 DEF TypeOK, SeenInv, CurInv, NewLine, SeqsDistinct, Contents, EnqueueReturn
<1>7. ASSUME NEW w \in Writers, CrashInAppend(w)
      PROVE  SeqsDistinct'
  BY <1>0, <1>7 DEF TypeOK, SeenInv, CurInv, NewLine, SeqsDistinct, Contents, CrashInAppend, Die, AppendLine
<1>8. ASSUME NEW b \in Brokers, FlushStart(b)
      PROVE  SeqsDistinct'
  BY <1>0, <1>8 DEF TypeOK, SeenInv, CurInv, NewLine, SeqsDistinct, Contents, FlushStart, Pending
<1>9. ASSUME NEW b \in Brokers, FlushSend(b)
      PROVE  SeqsDistinct'
  BY <1>0, <1>9 DEF TypeOK, SeenInv, CurInv, NewLine, SeqsDistinct, Contents, FlushSend
<1>10. ASSUME NEW b \in Brokers, FlushBreak(b)
       PROVE  SeqsDistinct'
  BY <1>0, <1>10 DEF TypeOK, SeenInv, CurInv, NewLine, SeqsDistinct, Contents, FlushBreak
<1>11. ASSUME NEW b \in Brokers, MarkLock(b)
       PROVE  SeqsDistinct'
  BY <1>0, <1>11 DEF TypeOK, SeenInv, CurInv, NewLine, SeqsDistinct, Contents, MarkLock, LockIsFree
<1>12. ASSUME NEW b \in Brokers, MarkWrite(b)
       PROVE  SeqsDistinct'
  BY <1>0, <1>12 DEF TypeOK, SeenInv, CurInv, NewLine, SeqsDistinct, Contents, MarkWrite, Rewrite
<1>13. ASSUME NEW b \in Brokers, AnyAnswer(b)
       PROVE  SeqsDistinct'
  BY <1>0, <1>13 DEF TypeOK, SeenInv, CurInv, NewLine, SeqsDistinct, Contents, AnyAnswer, FlushAnswer
<1>14. ASSUME NEW p \in Procs, Crash(p)
       PROVE  SeqsDistinct'
  BY <1>0, <1>14 DEF TypeOK, SeenInv, CurInv, NewLine, SeqsDistinct, Contents, Crash, Die
<1>15. ASSUME NEW o \in Ops, Age(o)
       PROVE  SeqsDistinct'
  BY <1>0, <1>15 DEF TypeOK, SeenInv, CurInv, NewLine, SeqsDistinct, Contents, Age
<1>16. CASE UNCHANGED vars
  BY <1>0, <1>16 DEF TypeOK, SeenInv, CurInv, NewLine, SeqsDistinct, Contents, vars
<1> QED
  BY <1>1, <1>2, <1>3, <1>4, <1>5, <1>6, <1>7, <1>8, <1>9, <1>10, <1>11, <1>12, <1>13, <1>14, <1>15, <1>16 DEF Next, WriterStep, BrokerStep

--------------------------------------------------------------------------------
(* The results.                                                            *)

LEMMA InitInv == Init => IInv
<1> SUFFICES ASSUME Init
             PROVE  IInv
  OBVIOUS
<1>1. TypeOK
  BY InitType
<1>2. LockInv
  BY ProcsAssumption DEF Init, LockInv, Procs
<1>3. PcInv /\ SeenInv /\ CurInv /\ MintInv
  BY DEF Init, PcInv, SeenInv, CurInv, MintInv, Procs
<1>4. NoSilentLoss /\ OneLinePerKey /\ SeqsDistinct
  BY DEF Init, NoSilentLoss, OneLinePerKey, SeqsDistinct
<1> QED
  BY <1>1, <1>2, <1>3, <1>4 DEF IInv

LEMMA NextInv == IInv /\ [Next]_vars => IInv'
BY NextType, NextPc, NextLock, NextSeen, NextMint, NextCur, NextNoSilentLoss,
   NextOneLinePerKey, NextSeqsDistinct DEF IInv

\* The inductive invariant of the queue.
THEOREM Invariance == Spec => []IInv
BY InitInv, NextInv, PTL DEF Spec

\* Every variable keeps its type; the sequence numbers an enqueue computes from
\* the file it read are natural numbers.
THEOREM TypeCorrect == Spec => []TypeOK
<1>1. IInv => TypeOK
  BY DEF IInv
<1> QED
  BY <1>1, Invariance, PTL

\* An entry whose enqueue returned is in the file until the age bound drops it,
\* for any number of processes that die anywhere.
THEOREM NeverSilentlyDropped == Spec => []NoSilentLoss
<1>1. IInv => NoSilentLoss
  BY DEF IInv
<1> QED
  BY <1>1, Invariance, PTL

\* Replays of a captured event never make two lines of one dedup key.
THEOREM ReplaySuppression == Spec => []OneLinePerKey
<1>1. IInv => OneLinePerKey
  BY DEF IInv
<1> QED
  BY <1>1, Invariance, PTL

\* No two lines of the file have one client_seq.
THEOREM OrderIsTotal == Spec => []SeqsDistinct
<1>1. IInv => SeqsDistinct
  BY DEF IInv
<1> QED
  BY <1>1, Invariance, PTL

VerdictKept == \A o \in lines \cap lines' : status[o] # "pending" => status'[o] = status[o]

\* What a step does to a recorded verdict.
LEMMA NextVerdicts == IInv /\ [Next]_vars => VerdictKept
<1> SUFFICES ASSUME IInv, [Next]_vars
             PROVE  VerdictKept
  OBVIOUS
<1> USE DEF fileVars, procVars, timeVars, Procs
<1>0. TypeOK /\ SeenInv /\ CurInv
  BY DEF IInv
<1>1. ASSUME NEW w \in Writers, NEW o \in Ops, EnqueueLock(w, o)
      PROVE  VerdictKept
  BY <1>0, <1>1 DEF VerdictKept, TypeOK, SeenInv, CurInv, NewLine, Contents, EnqueueLock, LockIsFree
<1>2. ASSUME NEW w \in Writers, NEW o \in Ops, EnqueueDedup(w, o)
      PROVE  VerdictKept
  BY <1>0, <1>2 DEF VerdictKept, TypeOK, SeenInv, CurInv, NewLine, Contents, EnqueueDedup
<1>3. ASSUME NEW w \in Writers, EnqueueReap(w)
      PROVE  VerdictKept
  BY <1>0, <1>3 DEF VerdictKept, TypeOK, SeenInv, CurInv, NewLine, Contents, EnqueueReap, Rewrite
<1>4. ASSUME NEW w \in Writers, EnqueueRefuse(w)
      PROVE  VerdictKept
  BY <1>0, <1>4 DEF VerdictKept, TypeOK, SeenInv, CurInv, NewLine, Contents, EnqueueRefuse
<1>5. ASSUME NEW w \in Writers, EnqueueAppend(w)
      PROVE  VerdictKept
  BY <1>0, <1>5 DEF VerdictKept, TypeOK, SeenInv, CurInv, NewLine, Contents, EnqueueAppend, AppendLine
<1>6. ASSUME NEW w \in Writers, EnqueueReturn(w)
      PROVE  VerdictKept
  BY <1>0, <1>6 DEF VerdictKept, TypeOK, SeenInv, CurInv, NewLine, Contents, EnqueueReturn
<1>7. ASSUME NEW w \in Writers, CrashInAppend(w)
      PROVE  VerdictKept
  BY <1>0, <1>7 DEF VerdictKept, TypeOK, SeenInv, CurInv, NewLine, Contents, CrashInAppend, Die, AppendLine
<1>8. ASSUME NEW b \in Brokers, FlushStart(b)
      PROVE  VerdictKept
  BY <1>0, <1>8 DEF VerdictKept, TypeOK, SeenInv, CurInv, NewLine, Contents, FlushStart, Pending
<1>9. ASSUME NEW b \in Brokers, FlushSend(b)
      PROVE  VerdictKept
  BY <1>0, <1>9 DEF VerdictKept, TypeOK, SeenInv, CurInv, NewLine, Contents, FlushSend
<1>10. ASSUME NEW b \in Brokers, FlushBreak(b)
       PROVE  VerdictKept
  BY <1>0, <1>10 DEF VerdictKept, TypeOK, SeenInv, CurInv, NewLine, Contents, FlushBreak
<1>11. ASSUME NEW b \in Brokers, MarkLock(b)
       PROVE  VerdictKept
  BY <1>0, <1>11 DEF VerdictKept, TypeOK, SeenInv, CurInv, NewLine, Contents, MarkLock, LockIsFree
<1>12. ASSUME NEW b \in Brokers, MarkWrite(b)
       PROVE  VerdictKept
  BY <1>0, <1>12 DEF VerdictKept, TypeOK, SeenInv, CurInv, NewLine, Contents, MarkWrite, Rewrite, Marked
<1>13. ASSUME NEW b \in Brokers, AnyAnswer(b)
       PROVE  VerdictKept
  BY <1>0, <1>13 DEF VerdictKept, TypeOK, SeenInv, CurInv, NewLine, Contents, AnyAnswer, FlushAnswer
<1>14. ASSUME NEW p \in Procs, Crash(p)
       PROVE  VerdictKept
  BY <1>0, <1>14 DEF VerdictKept, TypeOK, SeenInv, CurInv, NewLine, Contents, Crash, Die
<1>15. ASSUME NEW o \in Ops, Age(o)
       PROVE  VerdictKept
  BY <1>0, <1>15 DEF VerdictKept, TypeOK, SeenInv, CurInv, NewLine, Contents, Age
<1>16. CASE UNCHANGED vars
  BY <1>0, <1>16 DEF VerdictKept, TypeOK, SeenInv, CurInv, NewLine, Contents, vars
<1> QED
  BY <1>1, <1>2, <1>3, <1>4, <1>5, <1>6, <1>7, <1>8, <1>9, <1>10, <1>11, <1>12, <1>13, <1>14, <1>15, <1>16 DEF Next, WriterStep, BrokerStep

\* A recorded verdict is final, however many flushes answer for the op.
THEOREM VerdictsAreFinal == Spec => VerdictsFinal
<1>1. IInv /\ [Next]_vars => [VerdictKept]_vars
  BY NextVerdicts
<1> QED
  BY <1>1, Invariance, PTL DEF Spec, VerdictsFinal, VerdictKept

ReapedKept == \A o \in Ops \ lines : o \in reaped => o \notin lines'

\* What a step does to a line that was dropped.
LEMMA NextReaped == IInv /\ [Next]_vars => ReapedKept
<1> SUFFICES ASSUME IInv, [Next]_vars
             PROVE  ReapedKept
  OBVIOUS
<1> USE DEF fileVars, procVars, timeVars, Procs
<1>0. TypeOK /\ SeenInv /\ CurInv /\ MintInv
  BY DEF IInv
<1>1. ASSUME NEW w \in Writers, NEW o \in Ops, EnqueueLock(w, o)
      PROVE  ReapedKept
  BY <1>0, <1>1 DEF ReapedKept, TypeOK, SeenInv, CurInv, NewLine, MintInv, Contents, EnqueueLock, LockIsFree
<1>2. ASSUME NEW w \in Writers, NEW o \in Ops, EnqueueDedup(w, o)
      PROVE  ReapedKept
  BY <1>0, <1>2 DEF ReapedKept, TypeOK, SeenInv, CurInv, NewLine, MintInv, Contents, EnqueueDedup
<1>3. ASSUME NEW w \in Writers, EnqueueReap(w)
      PROVE  ReapedKept
  BY <1>0, <1>3 DEF ReapedKept, TypeOK, SeenInv, CurInv, NewLine, MintInv, Contents, EnqueueReap, Rewrite
<1>4. ASSUME NEW w \in Writers, EnqueueRefuse(w)
      PROVE  ReapedKept
  BY <1>0, <1>4 DEF ReapedKept, TypeOK, SeenInv, CurInv, NewLine, MintInv, Contents, EnqueueRefuse
<1>5. ASSUME NEW w \in Writers, EnqueueAppend(w)
      PROVE  ReapedKept
  BY <1>0, <1>5 DEF ReapedKept, TypeOK, SeenInv, CurInv, NewLine, MintInv, Contents, EnqueueAppend, AppendLine
<1>6. ASSUME NEW w \in Writers, EnqueueReturn(w)
      PROVE  ReapedKept
  BY <1>0, <1>6 DEF ReapedKept, TypeOK, SeenInv, CurInv, NewLine, MintInv, Contents, EnqueueReturn
<1>7. ASSUME NEW w \in Writers, CrashInAppend(w)
      PROVE  ReapedKept
  BY <1>0, <1>7 DEF ReapedKept, TypeOK, SeenInv, CurInv, NewLine, MintInv, Contents, CrashInAppend, Die, AppendLine
<1>8. ASSUME NEW b \in Brokers, FlushStart(b)
      PROVE  ReapedKept
  BY <1>0, <1>8 DEF ReapedKept, TypeOK, SeenInv, CurInv, NewLine, MintInv, Contents, FlushStart, Pending
<1>9. ASSUME NEW b \in Brokers, FlushSend(b)
      PROVE  ReapedKept
  BY <1>0, <1>9 DEF ReapedKept, TypeOK, SeenInv, CurInv, NewLine, MintInv, Contents, FlushSend
<1>10. ASSUME NEW b \in Brokers, FlushBreak(b)
       PROVE  ReapedKept
  BY <1>0, <1>10 DEF ReapedKept, TypeOK, SeenInv, CurInv, NewLine, MintInv, Contents, FlushBreak
<1>11. ASSUME NEW b \in Brokers, MarkLock(b)
       PROVE  ReapedKept
  BY <1>0, <1>11 DEF ReapedKept, TypeOK, SeenInv, CurInv, NewLine, MintInv, Contents, MarkLock, LockIsFree
<1>12. ASSUME NEW b \in Brokers, MarkWrite(b)
       PROVE  ReapedKept
  BY <1>0, <1>12 DEF ReapedKept, TypeOK, SeenInv, CurInv, NewLine, MintInv, Contents, MarkWrite, Rewrite, Marked
<1>13. ASSUME NEW b \in Brokers, AnyAnswer(b)
       PROVE  ReapedKept
  BY <1>0, <1>13 DEF ReapedKept, TypeOK, SeenInv, CurInv, NewLine, MintInv, Contents, AnyAnswer, FlushAnswer
<1>14. ASSUME NEW p \in Procs, Crash(p)
       PROVE  ReapedKept
  BY <1>0, <1>14 DEF ReapedKept, TypeOK, SeenInv, CurInv, NewLine, MintInv, Contents, Crash, Die
<1>15. ASSUME NEW o \in Ops, Age(o)
       PROVE  ReapedKept
  BY <1>0, <1>15 DEF ReapedKept, TypeOK, SeenInv, CurInv, NewLine, MintInv, Contents, Age
<1>16. CASE UNCHANGED vars
  BY <1>0, <1>16 DEF ReapedKept, TypeOK, SeenInv, CurInv, NewLine, MintInv, Contents, vars
<1> QED
  BY <1>1, <1>2, <1>3, <1>4, <1>5, <1>6, <1>7, <1>8, <1>9, <1>10, <1>11, <1>12, <1>13, <1>14, <1>15, <1>16 DEF Next, WriterStep, BrokerStep

\* A line the age bound dropped never comes back.
THEOREM ReapedStayGone == Spec => ReapedStaysGone
<1>1. IInv /\ [Next]_vars => [ReapedKept]_vars
  BY NextReaped
<1> QED
  BY <1>1, Invariance, PTL DEF Spec, ReapedStaysGone, ReapedKept

--------------------------------------------------------------------------------
(* What the queue owes the fleet: each of its steps is one of those the     *)
(* exactly-once contract knows.                                             *)

\* An enqueue counts from 1.
LEMMA SeqAfterPositive ==
  ASSUME NEW ls \in SUBSET Ops, seq \in [Ops -> Nat]
  PROVE  SeqAfter(ls) > 0
<1>1. CASE ls = {}
  BY <1>1 DEF SeqAfter
<1>2. CASE ls # {}
  <2>1. PICK x \in ls : TRUE
    BY <1>2
  <2>2. seq[x] \in Nat /\ SeqAfter(ls) \in Nat /\ seq[x] < SeqAfter(ls)
    BY <2>1, SeqAfterIsNext
  <2> QED
    BY <2>2
<1> QED
  BY <1>1, <1>2

\* Ops that ever had a line.
Accepted == {o \in Ops : seq[o] > 0}

\* An op has a client_seq from the moment its line is appended, for good.
SeqInv ==
  /\ \A o \in unminted : seq[o] = 0
  /\ \A o \in lines : seq[o] > 0
  /\ \A w \in Writers : pc[w] \in {"reap", "append"} => seq[cur[w]] = 0 /\ nextSeq[w] > 0

\* Nothing is recorded of an op that has no line.
BlankInv == \A o \in Ops \ lines : status[o] = "pending"

\* What a broker sends was accepted, in an order that is total.
SentInv ==
  \A b \in Brokers :
    /\ rows[b] \subseteq Accepted /\ chunk[b] \subseteq Accepted
    /\ \A x, y \in rows[b] : seq[x] = seq[y] => x = y

LineInv == SeqInv /\ BlankInv /\ SentInv

LEMMA InitLine == Init => LineInv
BY DEF Init, LineInv, SeqInv, BlankInv, SentInv, Procs

\* The numbers of the lines.
LEMMA NextSeq == IInv /\ LineInv /\ [Next]_vars => SeqInv'
<1> SUFFICES ASSUME IInv, LineInv, [Next]_vars
             PROVE  SeqInv'
  OBVIOUS
<1> USE DEF fileVars, procVars, timeVars, Procs
<1>0. TypeOK /\ PcInv /\ LockInv /\ SeenInv /\ CurInv /\ MintInv /\ SeqInv
  BY DEF IInv, LineInv
<1>1. ASSUME NEW w \in Writers, NEW o \in Ops, EnqueueLock(w, o)
      PROVE  SeqInv'
  BY <1>0, <1>1, ProcsAssumption, SeqAfterPositive DEF TypeOK, PcInv, LockInv, SeenInv, CurInv, NewLine, MintInv, SeqInv, Contents, EnqueueLock, LockIsFree
<1>2. ASSUME NEW w \in Writers, NEW o \in Ops, EnqueueDedup(w, o)
      PROVE  SeqInv'
  BY <1>0, <1>2, ProcsAssumption, SeqAfterPositive DEF TypeOK, PcInv, LockInv, SeenInv, CurInv, NewLine, MintInv, SeqInv, Contents, EnqueueDedup
<1>3. ASSUME NEW w \in Writers, EnqueueReap(w)
      PROVE  SeqInv'
  BY <1>0, <1>3, ProcsAssumption, SeqAfterPositive DEF TypeOK, PcInv, LockInv, SeenInv, CurInv, NewLine, MintInv, SeqInv, Contents, EnqueueReap, Rewrite
<1>4. ASSUME NEW w \in Writers, EnqueueRefuse(w)
      PROVE  SeqInv'
  BY <1>0, <1>4, ProcsAssumption, SeqAfterPositive DEF TypeOK, PcInv, LockInv, SeenInv, CurInv, NewLine, MintInv, SeqInv, Contents, EnqueueRefuse
<1>5. ASSUME NEW w \in Writers, EnqueueAppend(w)
      PROVE  SeqInv'
  BY <1>0, <1>5, ProcsAssumption, SeqAfterPositive DEF TypeOK, PcInv, LockInv, SeenInv, CurInv, NewLine, MintInv, SeqInv, Contents, EnqueueAppend, AppendLine
<1>6. ASSUME NEW w \in Writers, EnqueueReturn(w)
      PROVE  SeqInv'
  BY <1>0, <1>6, ProcsAssumption, SeqAfterPositive DEF TypeOK, PcInv, LockInv, SeenInv, CurInv, NewLine, MintInv, SeqInv, Contents, EnqueueReturn
<1>7. ASSUME NEW w \in Writers, CrashInAppend(w)
      PROVE  SeqInv'
  BY <1>0, <1>7, ProcsAssumption, SeqAfterPositive DEF TypeOK, PcInv, LockInv, SeenInv, CurInv, NewLine, MintInv, SeqInv, Contents, CrashInAppend, Die, AppendLine
<1>8. ASSUME NEW b \in Brokers, FlushStart(b)
      PROVE  SeqInv'
  BY <1>0, <1>8, ProcsAssumption, SeqAfterPositive DEF TypeOK, PcInv, LockInv, SeenInv, CurInv, NewLine, MintInv, SeqInv, Contents, FlushStart, Pending
<1>9. ASSUME NEW b \in Brokers, FlushSend(b)
      PROVE  SeqInv'
  BY <1>0, <1>9, ProcsAssumption, SeqAfterPositive DEF TypeOK, PcInv, LockInv, SeenInv, CurInv, NewLine, MintInv, SeqInv, Contents, FlushSend
<1>10. ASSUME NEW b \in Brokers, FlushBreak(b)
       PROVE  SeqInv'
  BY <1>0, <1>10, ProcsAssumption, SeqAfterPositive DEF TypeOK, PcInv, LockInv, SeenInv, CurInv, NewLine, MintInv, SeqInv, Contents, FlushBreak
<1>11. ASSUME NEW b \in Brokers, MarkLock(b)
       PROVE  SeqInv'
  BY <1>0, <1>11, ProcsAssumption, SeqAfterPositive DEF TypeOK, PcInv, LockInv, SeenInv, CurInv, NewLine, MintInv, SeqInv, Contents, MarkLock, LockIsFree
<1>12. ASSUME NEW b \in Brokers, MarkWrite(b)
       PROVE  SeqInv'
  BY <1>0, <1>12, ProcsAssumption, SeqAfterPositive DEF TypeOK, PcInv, LockInv, SeenInv, CurInv, NewLine, MintInv, SeqInv, Contents, MarkWrite, Rewrite, Marked
<1>13. ASSUME NEW b \in Brokers, AnyAnswer(b)
       PROVE  SeqInv'
  BY <1>0, <1>13, ProcsAssumption, SeqAfterPositive DEF TypeOK, PcInv, LockInv, SeenInv, CurInv, NewLine, MintInv, SeqInv, Contents, AnyAnswer, FlushAnswer
<1>14. ASSUME NEW p \in Procs, Crash(p)
       PROVE  SeqInv'
  BY <1>0, <1>14, ProcsAssumption, SeqAfterPositive DEF TypeOK, PcInv, LockInv, SeenInv, CurInv, NewLine, MintInv, SeqInv, Contents, Crash, Die
<1>15. ASSUME NEW o \in Ops, Age(o)
       PROVE  SeqInv'
  BY <1>0, <1>15, ProcsAssumption, SeqAfterPositive DEF TypeOK, PcInv, LockInv, SeenInv, CurInv, NewLine, MintInv, SeqInv, Contents, Age
<1>16. CASE UNCHANGED vars
  BY <1>0, <1>16 DEF TypeOK, PcInv, LockInv, SeenInv, CurInv, NewLine, MintInv, SeqInv, Contents, vars
<1> QED
  BY <1>1, <1>2, <1>3, <1>4, <1>5, <1>6, <1>7, <1>8, <1>9, <1>10, <1>11, <1>12, <1>13, <1>14, <1>15, <1>16 DEF Next, WriterStep, BrokerStep

\* Lines that are not there.
LEMMA NextBlank == IInv /\ LineInv /\ [Next]_vars => BlankInv'
<1> SUFFICES ASSUME IInv, LineInv, [Next]_vars
             PROVE  BlankInv'
  OBVIOUS
<1> USE DEF fileVars, procVars, timeVars, Procs
<1>0. TypeOK /\ SeenInv /\ BlankInv
  BY DEF IInv, LineInv
<1>1. ASSUME NEW w \in Writers, NEW o \in Ops, EnqueueLock(w, o)
      PROVE  BlankInv'
  BY <1>0, <1>1 DEF TypeOK, SeenInv, BlankInv, Contents, EnqueueLock, LockIsFree
<1>2. ASSUME NEW w \in Writers, NEW o \in Ops, EnqueueDedup(w, o)
      PROVE  BlankInv'
  BY <1>0, <1>2 DEF TypeOK, SeenInv, BlankInv, Contents, EnqueueDedup
<1>3. ASSUME NEW w \in Writers, EnqueueReap(w)
      PROVE  BlankInv'
  BY <1>0, <1>3 DEF TypeOK, SeenInv, BlankInv, Contents, EnqueueReap, Rewrite
<1>4. ASSUME NEW w \in Writers, EnqueueRefuse(w)
      PROVE  BlankInv'
  BY <1>0, <1>4 DEF TypeOK, SeenInv, BlankInv, Contents, EnqueueRefuse
<1>5. ASSUME NEW w \in Writers, EnqueueAppend(w)
      PROVE  BlankInv'
  BY <1>0, <1>5 DEF TypeOK, SeenInv, BlankInv, Contents, EnqueueAppend, AppendLine
<1>6. ASSUME NEW w \in Writers, EnqueueReturn(w)
      PROVE  BlankInv'
  BY <1>0, <1>6 DEF TypeOK, SeenInv, BlankInv, Contents, EnqueueReturn
<1>7. ASSUME NEW w \in Writers, CrashInAppend(w)
      PROVE  BlankInv'
  BY <1>0, <1>7 DEF TypeOK, SeenInv, BlankInv, Contents, CrashInAppend, Die, AppendLine
<1>8. ASSUME NEW b \in Brokers, FlushStart(b)
      PROVE  BlankInv'
  BY <1>0, <1>8 DEF TypeOK, SeenInv, BlankInv, Contents, FlushStart, Pending
<1>9. ASSUME NEW b \in Brokers, FlushSend(b)
      PROVE  BlankInv'
  BY <1>0, <1>9 DEF TypeOK, SeenInv, BlankInv, Contents, FlushSend
<1>10. ASSUME NEW b \in Brokers, FlushBreak(b)
       PROVE  BlankInv'
  BY <1>0, <1>10 DEF TypeOK, SeenInv, BlankInv, Contents, FlushBreak
<1>11. ASSUME NEW b \in Brokers, MarkLock(b)
       PROVE  BlankInv'
  BY <1>0, <1>11 DEF TypeOK, SeenInv, BlankInv, Contents, MarkLock, LockIsFree
<1>12. ASSUME NEW b \in Brokers, MarkWrite(b)
       PROVE  BlankInv'
  BY <1>0, <1>12 DEF TypeOK, SeenInv, BlankInv, Contents, MarkWrite, Rewrite, Marked
<1>13. ASSUME NEW b \in Brokers, AnyAnswer(b)
       PROVE  BlankInv'
  BY <1>0, <1>13 DEF TypeOK, SeenInv, BlankInv, Contents, AnyAnswer, FlushAnswer
<1>14. ASSUME NEW p \in Procs, Crash(p)
       PROVE  BlankInv'
  BY <1>0, <1>14 DEF TypeOK, SeenInv, BlankInv, Contents, Crash, Die
<1>15. ASSUME NEW o \in Ops, Age(o)
       PROVE  BlankInv'
  BY <1>0, <1>15 DEF TypeOK, SeenInv, BlankInv, Contents, Age
<1>16. CASE UNCHANGED vars
  BY <1>0, <1>16 DEF TypeOK, SeenInv, BlankInv, Contents, vars
<1> QED
  BY <1>1, <1>2, <1>3, <1>4, <1>5, <1>6, <1>7, <1>8, <1>9, <1>10, <1>11, <1>12, <1>13, <1>14, <1>15, <1>16 DEF Next, WriterStep, BrokerStep

\* What brokers send.
LEMMA NextSent == IInv /\ LineInv /\ [Next]_vars => SentInv'
<1> SUFFICES ASSUME IInv, LineInv, [Next]_vars
             PROVE  SentInv'
  OBVIOUS
<1> USE DEF fileVars, procVars, timeVars, Procs
<1>0. TypeOK /\ SeqInv /\ SeqsDistinct /\ CurInv /\ SentInv
  BY DEF IInv, LineInv
<1>1. ASSUME NEW w \in Writers, NEW o \in Ops, EnqueueLock(w, o)
      PROVE  SentInv'
  BY <1>0, <1>1 DEF TypeOK, SeqInv, SeqsDistinct, CurInv, NewLine, SentInv, Accepted, EnqueueLock, LockIsFree
<1>2. ASSUME NEW w \in Writers, NEW o \in Ops, EnqueueDedup(w, o)
      PROVE  SentInv'
  BY <1>0, <1>2 DEF TypeOK, SeqInv, SeqsDistinct, CurInv, NewLine, SentInv, Accepted, EnqueueDedup
<1>3. ASSUME NEW w \in Writers, EnqueueReap(w)
      PROVE  SentInv'
  BY <1>0, <1>3 DEF TypeOK, SeqInv, SeqsDistinct, CurInv, NewLine, SentInv, Accepted, EnqueueReap, Rewrite
<1>4. ASSUME NEW w \in Writers, EnqueueRefuse(w)
      PROVE  SentInv'
  BY <1>0, <1>4 DEF TypeOK, SeqInv, SeqsDistinct, CurInv, NewLine, SentInv, Accepted, EnqueueRefuse
<1>5. ASSUME NEW w \in Writers, EnqueueAppend(w)
      PROVE  SentInv'
  BY <1>0, <1>5 DEF TypeOK, SeqInv, SeqsDistinct, CurInv, NewLine, SentInv, Accepted, EnqueueAppend, AppendLine
<1>6. ASSUME NEW w \in Writers, EnqueueReturn(w)
      PROVE  SentInv'
  BY <1>0, <1>6 DEF TypeOK, SeqInv, SeqsDistinct, CurInv, NewLine, SentInv, Accepted, EnqueueReturn
<1>7. ASSUME NEW w \in Writers, CrashInAppend(w)
      PROVE  SentInv'
  <2>1. /\ rows' = rows /\ chunk' = chunk
        /\ pc[w] = "append" /\ cur[w] \in Ops /\ seq[cur[w]] = 0 /\ nextSeq[w] \in Nat
    BY <1>0, <1>7, ProcsAssumption DEF TypeOK, CurInv, SeqInv, CrashInAppend, Die
  <2>2. seq' = seq \/ seq' = [seq EXCEPT ![cur[w]] = nextSeq[w]]
    BY <1>7 DEF CrashInAppend, AppendLine
  <2>3. \A x \in Accepted : x # cur[w] /\ seq'[x] = seq[x]
    BY <1>0, <2>1, <2>2 DEF TypeOK, Accepted
  <2> QED
    BY <1>0, <2>1, <2>3 DEF SentInv, Accepted
<1>8. ASSUME NEW b \in Brokers, FlushStart(b)
      PROVE  SentInv'
  BY <1>0, <1>8 DEF TypeOK, SeqInv, SeqsDistinct, CurInv, NewLine, SentInv, Accepted, FlushStart, Pending
<1>9. ASSUME NEW b \in Brokers, FlushSend(b)
      PROVE  SentInv'
  <2>1. Chunk(rows[b]) \subseteq rows[b]
    BY DEF Chunk
  <2> QED
    BY <1>0, <1>9, <2>1 DEF TypeOK, SentInv, Accepted, FlushSend
<1>10. ASSUME NEW b \in Brokers, FlushBreak(b)
       PROVE  SentInv'
  BY <1>0, <1>10 DEF TypeOK, SeqInv, SeqsDistinct, CurInv, NewLine, SentInv, Accepted, FlushBreak
<1>11. ASSUME NEW b \in Brokers, MarkLock(b)
       PROVE  SentInv'
  BY <1>0, <1>11 DEF TypeOK, SeqInv, SeqsDistinct, CurInv, NewLine, SentInv, Accepted, MarkLock, LockIsFree
<1>12. ASSUME NEW b \in Brokers, MarkWrite(b)
       PROVE  SentInv'
  BY <1>0, <1>12 DEF TypeOK, SeqInv, SeqsDistinct, CurInv, NewLine, SentInv, Accepted, MarkWrite, Rewrite, Marked
<1>13. ASSUME NEW b \in Brokers, AnyAnswer(b)
       PROVE  SentInv'
  BY <1>0, <1>13 DEF TypeOK, SeqInv, SeqsDistinct, CurInv, NewLine, SentInv, Accepted, AnyAnswer, FlushAnswer
<1>14. ASSUME NEW p \in Procs, Crash(p)
       PROVE  SentInv'
  BY <1>0, <1>14 DEF TypeOK, SeqInv, SeqsDistinct, CurInv, NewLine, SentInv, Accepted, Crash, Die
<1>15. ASSUME NEW o \in Ops, Age(o)
       PROVE  SentInv'
  BY <1>0, <1>15 DEF TypeOK, SeqInv, SeqsDistinct, CurInv, NewLine, SentInv, Accepted, Age
<1>16. CASE UNCHANGED vars
  BY <1>0, <1>16 DEF TypeOK, SeqInv, SeqsDistinct, CurInv, NewLine, SentInv, Accepted, vars
<1> QED
  BY <1>1, <1>2, <1>3, <1>4, <1>5, <1>6, <1>7, <1>8, <1>9, <1>10, <1>11, <1>12, <1>13, <1>14, <1>15, <1>16 DEF Next, WriterStep, BrokerStep

LEMMA NextLine == IInv /\ LineInv /\ [Next]_vars => LineInv'
BY NextSeq, NextBlank, NextSent DEF LineInv

\* The steps of the contract, as the file makes them.
Accepts ==
  \E o \in Ops \ Accepted :
    /\ Accepted' = Accepted \cup {o}
    /\ lines' = lines \cup {o} /\ status' = status

Drops ==
  \E gone \in SUBSET lines :
    /\ Accepted' = Accepted /\ lines' = lines \ gone
    /\ status' = [o \in Ops |-> IF o \in gone THEN "pending" ELSE status[o]]

\* A broker records the receipts it holds, of ops of its chunk still pending.
Learns ==
  \E b \in Brokers, ops \in SUBSET Pending :
    /\ pc[b] = "write" /\ ops \subseteq chunk[b]
    /\ Accepted' = Accepted /\ lines' = lines
    /\ status' = [o \in Ops |-> IF o \in ops THEN receipts[b][o] ELSE status[o]]

LEMMA FileUnchanged ==
  ASSUME TypeOK, UNCHANGED <<lines, seq, status>>
  PROVE  Drops
<1>1. /\ {} \in SUBSET lines /\ Accepted' = Accepted /\ lines' = lines \ {}
      /\ status' = [o \in Ops |-> IF o \in {} THEN "pending" ELSE status[o]]
  BY DEF TypeOK, Accepted
<1> QED
  BY <1>1 DEF Drops

LEMMA LineAppended ==
  ASSUME TypeOK, BlankInv, NEW o \in Ops \ lines, NEW s \in Nat, NEW end,
         AppendLine(o, s, end), seq[o] = 0, s > 0
  PROVE  Accepts
<1>1. o \in Ops \ Accepted
  BY DEF Accepted
<1>2. Accepted' = Accepted \cup {o}
  BY DEF TypeOK, Accepted, AppendLine
<1>3. status' = status
  BY DEF TypeOK, BlankInv, AppendLine
<1> QED
  BY <1>1, <1>2, <1>3 DEF Accepts, AppendLine

LEMMA ReapDrops ==
  ASSUME TypeOK, SeenInv, BlankInv, NEW w \in Writers, EnqueueReap(w)
  PROVE  Drops
<1> DEFINE old == seen[w].lines \cap aged
<1>1. CASE old = {}
  BY <1>1, FileUnchanged DEF EnqueueReap
<1>2. CASE old # {}
  <2>1. seen[w].lines = lines /\ seen[w].status = status
    BY DEF SeenInv, EnqueueReap, Contents, Procs
  <2>2. lines' = lines \ old /\ old \in SUBSET lines
    BY <1>2, <2>1 DEF EnqueueReap, Rewrite
  <2>3. status' = [o \in Ops |-> IF o \in lines \ old THEN status[o] ELSE "pending"]
    BY <1>2, <2>1 DEF EnqueueReap, Rewrite
  <2>4. status' = [o \in Ops |-> IF o \in old THEN "pending" ELSE status[o]]
    BY <2>2, <2>3 DEF BlankInv
  <2>5. Accepted' = Accepted
    BY DEF EnqueueReap, Accepted
  <2> QED
    BY <2>2, <2>4, <2>5 DEF Drops
<1> QED
  BY <1>1, <1>2

LEMMA WriteLearns ==
  ASSUME TypeOK, SeenInv, BlankInv, NEW b \in Brokers, MarkWrite(b)
  PROVE  Drops \/ Learns
<1> DEFINE marked == Marked(b, seen[b])
<1>1. CASE marked = {}
  BY <1>1, FileUnchanged DEF MarkWrite
<1>2. CASE marked # {}
  <2>1. seen[b].lines = lines /\ seen[b].status = status
    BY DEF SeenInv, MarkWrite, Contents, Procs
  <2>2. marked \in SUBSET Pending /\ marked \subseteq chunk[b] /\ marked \subseteq lines
    BY <2>1 DEF Marked, Pending
  <2>3. Rewrite(lines, [o \in Ops |-> IF o \in marked THEN receipts[b][o] ELSE status[o]])
    BY <1>2, <2>1 DEF MarkWrite
  <2>4. pc[b] = "write" /\ Accepted' = Accepted
    BY DEF MarkWrite, Accepted
  <2> HIDE DEF marked
  <2>5. lines' = lines
    BY <2>3 DEF Rewrite
  <2>6. status' = [o \in Ops |-> IF o \in lines
                      THEN IF o \in marked THEN receipts[b][o] ELSE status[o]
                      ELSE "pending"]
    BY <2>3 DEF Rewrite, TypeOK
  <2>7. status' = [o \in Ops |-> IF o \in marked THEN receipts[b][o] ELSE status[o]]
    BY <2>2, <2>6 DEF BlankInv
  <2> QED
    BY <2>2, <2>4, <2>5, <2>7 DEF Learns
<1> QED
  BY <1>1, <1>2

\* Each step accepts an op, drops some, records receipts, or leaves the file.
LEMMA NextAbstract == IInv /\ LineInv /\ [Next]_vars => Accepts \/ Drops \/ Learns
<1> SUFFICES ASSUME IInv, LineInv, [Next]_vars
             PROVE  Accepts \/ Drops \/ Learns
  OBVIOUS
<1> USE DEF fileVars, procVars, timeVars, Procs
<1>0. TypeOK /\ SeenInv /\ CurInv /\ SeqInv /\ BlankInv
  BY DEF IInv, LineInv
<1>1. ASSUME NEW w \in Writers, NEW o \in Ops, EnqueueLock(w, o)
      PROVE  Accepts \/ Drops \/ Learns
  BY <1>0, <1>1, FileUnchanged DEF TypeOK, EnqueueLock, LockIsFree
<1>2. ASSUME NEW w \in Writers, NEW o \in Ops, EnqueueDedup(w, o)
      PROVE  Accepts \/ Drops \/ Learns
  BY <1>0, <1>2, FileUnchanged DEF TypeOK, EnqueueDedup
<1>3. ASSUME NEW w \in Writers, EnqueueReap(w)
      PROVE  Accepts \/ Drops \/ Learns
  BY <1>0, <1>3, ReapDrops
<1>4. ASSUME NEW w \in Writers, EnqueueRefuse(w)
      PROVE  Accepts \/ Drops \/ Learns
  BY <1>0, <1>4, FileUnchanged DEF TypeOK, EnqueueRefuse
<1>5. ASSUME NEW w \in Writers, EnqueueAppend(w)
      PROVE  Accepts \/ Drops \/ Learns
  <2>1. /\ cur[w] \in Ops \ lines /\ nextSeq[w] \in Nat
        /\ seq[cur[w]] = 0 /\ nextSeq[w] > 0
    BY <1>0, <1>5 DEF TypeOK, CurInv, NewLine, SeqInv, EnqueueAppend
  <2> QED
    BY <1>0, <1>5, <2>1, LineAppended, FileUnchanged DEF EnqueueAppend
<1>6. ASSUME NEW w \in Writers, EnqueueReturn(w)
      PROVE  Accepts \/ Drops \/ Learns
  BY <1>0, <1>6, FileUnchanged DEF TypeOK, EnqueueReturn
<1>7. ASSUME NEW w \in Writers, CrashInAppend(w)
      PROVE  Accepts \/ Drops \/ Learns
  <2>1. /\ cur[w] \in Ops \ lines /\ nextSeq[w] \in Nat
        /\ seq[cur[w]] = 0 /\ nextSeq[w] > 0
    BY <1>0, <1>7 DEF TypeOK, CurInv, NewLine, SeqInv, CrashInAppend
  <2> QED
    BY <1>0, <1>7, <2>1, LineAppended, FileUnchanged DEF CrashInAppend
<1>8. ASSUME NEW b \in Brokers, FlushStart(b)
      PROVE  Accepts \/ Drops \/ Learns
  BY <1>0, <1>8, FileUnchanged DEF TypeOK, FlushStart, Pending
<1>9. ASSUME NEW b \in Brokers, FlushSend(b)
      PROVE  Accepts \/ Drops \/ Learns
  BY <1>0, <1>9, FileUnchanged DEF TypeOK, FlushSend
<1>10. ASSUME NEW b \in Brokers, FlushBreak(b)
       PROVE  Accepts \/ Drops \/ Learns
  BY <1>0, <1>10, FileUnchanged DEF TypeOK, FlushBreak
<1>11. ASSUME NEW b \in Brokers, MarkLock(b)
       PROVE  Accepts \/ Drops \/ Learns
  BY <1>0, <1>11, FileUnchanged DEF TypeOK, MarkLock, LockIsFree
<1>12. ASSUME NEW b \in Brokers, MarkWrite(b)
       PROVE  Accepts \/ Drops \/ Learns
  BY <1>0, <1>12, WriteLearns
<1>13. ASSUME NEW b \in Brokers, AnyAnswer(b)
       PROVE  Accepts \/ Drops \/ Learns
  BY <1>0, <1>13, FileUnchanged DEF TypeOK, AnyAnswer, FlushAnswer
<1>14. ASSUME NEW p \in Procs, Crash(p)
       PROVE  Accepts \/ Drops \/ Learns
  BY <1>0, <1>14, FileUnchanged DEF TypeOK, Crash, Die
<1>15. ASSUME NEW o \in Ops, Age(o)
       PROVE  Accepts \/ Drops \/ Learns
  BY <1>0, <1>15, FileUnchanged DEF TypeOK, Age
<1>16. CASE UNCHANGED vars
  BY <1>0, <1>16, FileUnchanged DEF vars
<1> QED
  BY <1>1, <1>2, <1>3, <1>4, <1>5, <1>6, <1>7, <1>8, <1>9, <1>10, <1>11, <1>12, <1>13, <1>14, <1>15, <1>16 DEF Next, WriterStep, BrokerStep

================================================================================
