--------------------------- MODULE FleetFlushProofs ----------------------------
(***************************************************************************)
(* Proof that the queue, the hub and the calls between them implement the  *)
(* exactly-once contract, for any number of brokers and writers, any ops,  *)
(* chunks and batches, and any number of failures.                         *)
(*                                                                         *)
(* The argument: a broker waits for one call at a time (OneCall), and what *)
(* comes back is a receipt for each op of its chunk, and a success only    *)
(* for an op the hub has committed (ReceiptsInv).  Only ops that had a     *)
(* line are ever sent, so only those take effect (AcceptedInv).            *)
(***************************************************************************)
EXTENDS FleetFlush, FiniteSetTheorems, TLAPS

QP == INSTANCE OpQueueProofs
HP == INSTANCE HubApplyOpsProofs

\* v is what a hub call about these ops may answer: a verdict for each, and
\* a success only for what the hub committed.
Answers(v, ops) ==
  /\ \A o \in ops : v[o] \in Verdicts
  /\ \A o \in ops : v[o] \in {"committed", "duplicate"} => db.applied[o] = "committed"

CallType ==
  /\ inbox \subseteq [from : Brokers \cup {None}, ops : Seq(Ops)]
  /\ serving \in Brokers \cup {None}
  /\ DOMAIN answer = Brokers

\* Only accepted ops are sent, and only those take effect.
AcceptedInv ==
  /\ \A c \in inbox : HP!OpsOf(c.ops) \subseteq QP!Accepted
  /\ HP!OpsOf(batch) \subseteq QP!Accepted
  /\ \A o \in Ops : db.applied[o] = "committed" => o \in QP!Accepted

\* The call a broker waits for is in one place, and about the broker's chunk.
OneCall ==
  /\ \A c \in inbox : c.from # None =>
       /\ pc[c.from] = "wait" /\ HP!OpsOf(c.ops) = chunk[c.from]
       /\ serving # c.from /\ answer[c.from] = None
       /\ \A d \in inbox : d.from = c.from => d = c
  /\ serving # None =>
       /\ phase # "idle"
       /\ pc[serving] = "wait" /\ HP!OpsOf(batch) = chunk[serving]
       /\ answer[serving] = None
  /\ \A b \in Brokers : answer[b] # None => pc[b] = "wait"

\* What was answered, and what is about to be recorded.
ReceiptsInv ==
  \A b \in Brokers :
    /\ answer[b] # None =>
         /\ answer[b] \in [Ops -> Verdicts \cup {"pending"}]
         /\ \A o \in Ops \ chunk[b] : answer[b][o] = "pending"
         /\ Answers(answer[b], chunk[b])
    /\ pc[b] \in {"mark", "write"} => Answers(receipts[b], chunk[b])

FleetInv == CallType /\ AcceptedInv /\ OneCall /\ ReceiptsInv

IInv == QP!IInv /\ QP!LineInv /\ HP!IInv /\ HP!BatchInv /\ FleetInv

--------------------------------------------------------------------------------
(* The instances of the proved modules are those of the specification.     *)

LEMMA SameConstants ==
  /\ QP!ProcsAssumption /\ QP!OpsAssumption /\ QP!KeysAssumption
  /\ QP!VerdictsAssumption /\ QP!BoundsAssumption
  /\ HP!HubConstants
BY FleetConstants
   DEF Queue!ProcsAssumption, QP!ProcsAssumption, Queue!OpsAssumption,
          QP!OpsAssumption, Queue!KeysAssumption, QP!KeysAssumption,
          Queue!VerdictsAssumption, QP!VerdictsAssumption, Queue!BoundsAssumption,
          QP!BoundsAssumption, Queue!Procs, QP!Procs, Queue!IsFiniteSet,
          QP!IsFiniteSet,
          Hub!HubConstants, HP!HubConstants, Hub!Rows, HP!Rows, Hub!Cmd, HP!Cmd,
          Hub!Principal, HP!Principal, Hub!Kinds, HP!Kinds

LEMMA OpsFinite == IsFiniteSet(Ops)
BY FleetConstants DEF Queue!OpsAssumption, Queue!IsFiniteSet, IsFiniteSet

LEMMA NoneIsNoBroker == None \notin Brokers /\ Writers \cap Brokers = {}
BY FleetConstants DEF Queue!ProcsAssumption, Queue!Procs

LEMMA SameWriterStep == \A w \in Writers : Queue!WriterStep(w) => QP!WriterStep(w)
BY DEF Queue!WriterStep, QP!WriterStep,
       Queue!EnqueueLock, QP!EnqueueLock, Queue!EnqueueDedup, QP!EnqueueDedup,
          Queue!EnqueueReap, QP!EnqueueReap, Queue!EnqueueRefuse,
          QP!EnqueueRefuse, Queue!EnqueueAppend, QP!EnqueueAppend,
          Queue!EnqueueReturn, QP!EnqueueReturn, Queue!CrashInAppend,
          QP!CrashInAppend,
       Queue!Procs, QP!Procs, Queue!fileVars, QP!fileVars, Queue!procVars,
          QP!procVars, Queue!timeVars, QP!timeVars, Queue!Rewrite, QP!Rewrite,
          Queue!NoFile, QP!NoFile, Queue!Contents, QP!Contents, Queue!LockIsFree,
          QP!LockIsFree, Queue!DedupHit, QP!DedupHit, Queue!SeqAfter, QP!SeqAfter,
          Queue!Max, QP!Max, Queue!Fits, QP!Fits, Queue!Cardinality,
          QP!Cardinality, Queue!AppendLine, QP!AppendLine, Queue!Die, QP!Die

LEMMA SameBrokerStep ==
  \A b \in Brokers :
    /\ Queue!FlushStart(b) => QP!FlushStart(b)
    /\ Queue!FlushSend(b) => QP!FlushSend(b)
    /\ Queue!FlushBreak(b) => QP!FlushBreak(b)
    /\ Queue!MarkLock(b) => QP!MarkLock(b)
    /\ Queue!MarkWrite(b) => QP!MarkWrite(b)
    /\ \A rc : Queue!FlushAnswer(b, rc) => QP!FlushAnswer(b, rc)
BY DEF Queue!FlushStart, QP!FlushStart, Queue!FlushSend, QP!FlushSend,
          Queue!FlushBreak, QP!FlushBreak, Queue!MarkLock, QP!MarkLock,
          Queue!MarkWrite, QP!MarkWrite, Queue!FlushAnswer, QP!FlushAnswer,
          Queue!Pending, QP!Pending, Queue!Chunk, QP!Chunk, Queue!Marked,
          QP!Marked,
       Queue!fileVars, QP!fileVars, Queue!timeVars, QP!timeVars,
          Queue!Contents, QP!Contents, Queue!LockIsFree, QP!LockIsFree,
          Queue!Rewrite, QP!Rewrite, Queue!NoFile, QP!NoFile, Queue!Cardinality,
          QP!Cardinality

LEMMA SameOtherStep ==
  /\ \A p : Queue!Crash(p) => QP!Crash(p)
  /\ \A o : Queue!Age(o) => QP!Age(o)
BY DEF Queue!Crash, QP!Crash, Queue!Age, QP!Age,
       Queue!fileVars, QP!fileVars, Queue!procVars, QP!procVars,
          Queue!timeVars, QP!timeVars, Queue!Die, QP!Die, Queue!NoFile, QP!NoFile

LEMMA SameHubStep ==
  /\ Hub!ApplyOp => HP!ApplyOp
  /\ \A ops : Hub!Begin(ops) => HP!Begin(ops)
  /\ Hub!CommitBatch => HP!CommitBatch
  /\ Hub!Abort => HP!Abort
  /\ Hub!Reply => HP!Reply
  /\ Hub!LoseReply => HP!LoseReply
<1>1. Hub!ApplyOp => HP!ApplyOp
  BY DEF Hub!Cur, HP!Cur, Hub!Effective, HP!Effective, Hub!Target, HP!Target,
          Hub!Known, HP!Known, Hub!Unblocked, HP!Unblocked, Hub!Permitted,
          HP!Permitted, Hub!InScope, HP!InScope, Hub!Admitted, HP!Admitted,
          Hub!Identical, HP!Identical, Hub!Folds, HP!Folds, Hub!Similar,
          HP!Similar, Hub!Storable, HP!Storable, Hub!Applicable, HP!Applicable,
          Hub!Commit, HP!Commit, Hub!Record, HP!Record, Hub!Insert, HP!Insert,
          Hub!Tombstone, HP!Tombstone, Hub!FoldRows, HP!FoldRows, Hub!Settle,
          HP!Settle, Hub!caller, HP!caller, Hub!Mutating, HP!Mutating,
          Hub!ApplyOp, HP!ApplyOp, Hub!ApplyReplay, HP!ApplyReplay,
          Hub!ApplyBlocked, HP!ApplyBlocked, Hub!ApplyDenied, HP!ApplyDenied,
          Hub!ApplyFold, HP!ApplyFold, Hub!ApplyAdd, HP!ApplyAdd, Hub!ApplyUpdate,
          HP!ApplyUpdate, Hub!ApplySupersede, HP!ApplySupersede, Hub!ApplyRefused,
          HP!ApplyRefused
<1>2. \A ops : Hub!Begin(ops) => HP!Begin(ops)
  BY DEF Hub!Begin, HP!Begin, Hub!Accepts, HP!Accepts, Hub!NoRows, HP!NoRows,
         Hub!NoReceipts, HP!NoReceipts, Hub!caller, HP!caller
<1>3. Hub!CommitBatch => HP!CommitBatch
  BY DEF Hub!CommitBatch, HP!CommitBatch, Hub!caller, HP!caller
<1>4. /\ Hub!Abort => HP!Abort
      /\ Hub!Reply => HP!Reply
      /\ Hub!LoseReply => HP!LoseReply
  BY DEF Hub!Abort, HP!Abort, Hub!Reply, HP!Reply, Hub!LoseReply, HP!LoseReply,
         Hub!Clear, HP!Clear, Hub!NoRows, HP!NoRows,
         Hub!NoReceipts, HP!NoReceipts, Hub!caller, HP!caller
<1> QED
  BY <1>1, <1>2, <1>3, <1>4

LEMMA SameInit ==
  /\ Queue!Init => QP!Init
  /\ Hub!Init => HP!Init
BY DEF Queue!Init, QP!Init, Queue!Procs, QP!Procs, Queue!NoFile, QP!NoFile,
       Hub!Init, HP!Init, Hub!EmptyDb, HP!EmptyDb, Hub!Rows, HP!Rows,
       Hub!NoRows, HP!NoRows, Hub!NoReceipts, HP!NoReceipts

--------------------------------------------------------------------------------
(* What the proved modules say of a step.                                  *)

\* A step of the queue, or none.
LEMMA QueueKeeps ==
  ASSUME QP!IInv, QP!LineInv, [QP!Next]_(QP!vars)
  PROVE  /\ QP!IInv' /\ QP!LineInv'
         /\ QP!Accepts \/ QP!Drops \/ QP!Learns
<1>1. QP!IInv'
  BY QP!NextInv, SameConstants
<1>2. QP!LineInv'
  BY QP!NextLine, SameConstants
<1>3. QP!Accepts \/ QP!Drops \/ QP!Learns
  BY QP!NextAbstract, SameConstants
<1> QED
  BY <1>1, <1>2, <1>3

LEMMA BeginKeeps ==
  ASSUME HP!IInv, HP!BatchInv, NEW ops \in Seq(Ops), Hub!Begin(ops)
  PROVE  HP!IInv' /\ HP!BatchInv'
BY SameHubStep, HP!BeginKeeps, HP!BeginKeepsBatch, SameConstants

LEMMA ApplyKeeps ==
  ASSUME HP!IInv, HP!BatchInv, Hub!ApplyOp
  PROVE  HP!IInv' /\ HP!BatchInv' /\ HP!OneOp
BY SameHubStep, HP!ApplyKeeps, HP!ApplyKeepsBatch, HP!ApplyIsOneOp, SameConstants

LEMMA EndKeeps ==
  ASSUME HP!IInv, HP!BatchInv,
         Hub!CommitBatch \/ Hub!Abort \/ Hub!Reply \/ Hub!LoseReply
  PROVE  HP!IInv' /\ HP!BatchInv'
BY SameHubStep, HP!EndKeeps, HP!EndKeepsBatch, SameConstants

LEMMA HubStutterKeeps ==
  ASSUME HP!IInv, HP!BatchInv, UNCHANGED hubVars
  PROVE  HP!IInv' /\ HP!BatchInv'
<1>1. UNCHANGED HP!vars
  BY DEF hubVars, HP!vars, HP!caller, HP!txn
<1>2. HP!IInv'
  BY <1>1, HP!StutterKeeps, SameConstants
<1>3. HP!BatchInv'
  BY DEF hubVars, HP!BatchInv, HP!OpsOf
<1> QED
  BY <1>2, <1>3

LEMMA QueueStutters ==
  ASSUME UNCHANGED queueVars
  PROVE  UNCHANGED QP!vars
BY DEF queueVars, QP!vars, QP!fileVars, QP!procVars, QP!timeVars

--------------------------------------------------------------------------------
(* The ops of a call.                                                      *)

\* s lists S by what f gives each of its members.
Lists(s, S, f) ==
  /\ s \in [1..Cardinality(S) -> S]
  /\ \A i, j \in DOMAIN s : i < j => f[s[i]] < f[s[j]]

\* A set of ops whose client_seqs differ can be listed by them.
LEMMA Listed ==
  ASSUME NEW f \in [Ops -> Nat], NEW S \in SUBSET Ops,
         \A x, y \in S : f[x] = f[y] => x = y
  PROVE  \E s : Lists(s, S, f)
<1> DEFINE Distinct(T) == \A x, y \in T : f[x] = f[y] => x = y
           Bad == {T \in SUBSET Ops : Distinct(T) /\ ~ \E s : Lists(s, T, f)}
<1>1. SUFFICES ASSUME Bad # {}
               PROVE  FALSE
  BY <1>1
<1>2. PICK T \in Bad : \A U \in Bad : <<U, T>> \notin StrictSubsetOrdering(Ops)
  <2>1. Bad \subseteq FiniteSubsetsOf(Ops)
    BY FS_FiniteSubsetsOfFinite, OpsFinite
  <2>2. IsWellFoundedOn(StrictSubsetOrdering(Ops), FiniteSubsetsOf(Ops))
    BY FS_StrictSubsetOrderingWellFounded
  <2> QED
    BY <1>1, <2>1, <2>2, WFMin
<1>3. T \in SUBSET Ops /\ IsFiniteSet(T) /\ Distinct(T) /\ ~ \E s : Lists(s, T, f)
  BY <1>2, OpsFinite, FS_Subset
<1>4. T # {}
  <2>1. SUFFICES ASSUME T = {}
                 PROVE  FALSE
    BY <2>1
  <2> DEFINE e == [i \in 1..0 |-> i]
  <2>2. Lists(e, T, f)
    BY <2>1, FS_EmptySet DEF Lists
  <2> QED
    BY <1>3, <2>2
<1>5. PICK m \in T : \A y \in T : f[y] <= f[m]
  BY <1>3, <1>4, QP!LastLine, SameConstants
<1> DEFINE U == T \ {m}
           n == Cardinality(T)
<1>6. Cardinality(U) = n - 1 /\ n \in Nat /\ n > 0
  <2>1. n \in Nat /\ n # 0
    BY <1>3, <1>4, FS_CardinalityType, FS_EmptySet
  <2>2. Cardinality(T \ {m}) = n - 1
    BY <1>3, <1>5, FS_RemoveElement
  <2> QED
    BY <2>1, <2>2
<1>7. \E s : Lists(s, U, f)
  <2>1. U \in SUBSET Ops /\ Distinct(U)
    BY <1>3
  <2>2. <<U, T>> \in StrictSubsetOrdering(Ops)
    BY <1>3, <1>5 DEF StrictSubsetOrdering
  <2> HIDE DEF U, Distinct
  <2> QED
    BY <1>2, <2>1, <2>2
<1>8. PICK s : Lists(s, U, f)
  BY <1>7
<1> DEFINE t == [i \in 1..n |-> IF i = n THEN m ELSE s[i]]
<1>9. s \in [1..(n - 1) -> U] /\ \A i, j \in 1..(n - 1) : i < j => f[s[i]] < f[s[j]]
  BY <1>6, <1>8 DEF Lists
<1>10. t \in [1..n -> T]
  BY <1>5, <1>6, <1>9
<1>11. ASSUME NEW i \in 1..n, NEW j \in 1..n, i < j
       PROVE  f[t[i]] < f[t[j]]
  <2>1. i \in 1..(n - 1) /\ t[i] = s[i] /\ s[i] \in U
    BY <1>6, <1>9, <1>11
  <2>2. CASE j = n
    <3>1. t[j] = m
      BY <2>2
    <3>2. f[s[i]] <= f[m] /\ f[s[i]] # f[m]
      BY <1>3, <1>5, <2>1
    <3>3. f[s[i]] \in Nat /\ f[m] \in Nat
      BY <1>3, <1>5, <2>1
    <3> QED
      BY <2>1, <3>1, <3>2, <3>3
  <2>3. CASE j # n
    <3>1. j \in 1..(n - 1) /\ t[j] = s[j]
      BY <1>6, <2>3
    <3> QED
      BY <1>9, <1>11, <2>1, <3>1
  <2> QED
    BY <2>2, <2>3
<1>12. Lists(t, T, f)
  BY <1>10, <1>11 DEF Lists
<1> QED
  BY <1>3, <1>12

\* A call carries the ops of its chunk, each of them, and nothing else.
LEMMA InOrderLists ==
  ASSUME seq \in [Ops -> Nat], NEW S \in SUBSET Ops,
         \A x, y \in S : seq[x] = seq[y] => x = y
  PROVE  InOrder(S) \in Seq(Ops) /\ HP!OpsOf(InOrder(S)) = S
<1> DEFINE s == InOrder(S)
           n == Cardinality(S)
<1>1. IsFiniteSet(S) /\ n \in Nat
  BY OpsFinite, FS_Subset, FS_CardinalityType
<1>2. s \in [1..n -> S] /\ \A i, j \in DOMAIN s : i < j => seq[s[i]] < seq[s[j]]
  <2>1. PICK t : Lists(t, S, seq)
    BY Listed
  <2>2. t \in [1..n -> S] /\ \A i, j \in DOMAIN t : i < j => seq[t[i]] < seq[t[j]]
    BY <2>1 DEF Lists
  <2> QED
    BY <2>2 DEF InOrder
<1> HIDE DEF s
<1>3. Len(s) = n /\ s \in Seq(Ops) /\ DOMAIN s = 1..n
  BY <1>1, <1>2
<1>4. s \in Injection(1..n, S)
  <2>1. \A i, j \in 1..n : s[i] = s[j] => i = j
    <3> SUFFICES ASSUME NEW i \in 1..n, NEW j \in 1..n, s[i] = s[j], i # j
                 PROVE  FALSE
      OBVIOUS
    <3>1. seq[s[i]] \in Nat
      BY <1>2
    <3>2. i < j \/ j < i
      BY <1>1
    <3> QED
      BY <1>2, <1>3, <3>1, <3>2
  <2> QED
    BY <1>2, <2>1 DEF Injection, IsInjective
<1>5. s \in Surjection(1..n, S)
  <2>1. Cardinality(1..n) = n
    BY <1>1, FS_Interval
  <2> QED
    BY <1>1, <1>4, <2>1, FS_Injection
<1>6. \A o \in S : \E i \in 1..n : s[i] = o
  BY <1>5 DEF Surjection
<1>7. HP!OpsOf(s) = S
  BY <1>2, <1>3, <1>6 DEF HP!OpsOf
<1> QED
  BY <1>3, <1>7 DEF s

--------------------------------------------------------------------------------
(* The steps of the queue, as the fleet takes them.                        *)

\* The part of the queue's state the links are about.
LEMMA QueueFacts ==
  ASSUME QP!IInv, QP!LineInv
  PROVE  /\ seq \in [Ops -> Nat]
         /\ \A b \in Brokers : b \in DOMAIN pc /\ b \notin Writers /\ b # None
         /\ pc \in [Writers \cup Brokers ->
                    {"idle", "reap", "append", "return", "send", "wait", "mark", "write"}]
         /\ rows \in [Brokers -> SUBSET Ops]
         /\ chunk \in [Brokers -> SUBSET Ops]
         /\ receipts \in [Brokers -> [Ops -> Verdicts \cup {"pending"}]]
         /\ \A b \in Brokers :
              /\ rows[b] \subseteq QP!Accepted
              /\ \A x, y \in rows[b] : seq[x] = seq[y] => x = y
<1>1. QP!TypeOK
  BY DEF QP!IInv
<1>2. QP!SentInv
  BY DEF QP!LineInv
<1> QED
  BY <1>1, <1>2, NoneIsNoBroker DEF QP!TypeOK, QP!Procs, QP!Statuses, QP!SentInv

LEMMA LocalIsQueueStep ==
  ASSUME Local
  PROVE  QP!Next /\ UNCHANGED <<hubVars, netVars, faults>>
<1>1. UNCHANGED <<hubVars, netVars, faults>>
  BY DEF Local
<1>2. CASE \E w \in Writers : Queue!WriterStep(w) \/ Queue!Crash(w)
  BY <1>1, <1>2, SameWriterStep, SameOtherStep DEF QP!Next, QP!Procs
<1>3. CASE \E b \in Brokers : Queue!FlushStart(b) \/ Queue!MarkLock(b) \/ Queue!MarkWrite(b)
  BY <1>1, <1>3, SameBrokerStep DEF QP!Next, QP!BrokerStep
<1>4. CASE \E o \in Ops : Queue!Age(o)
  BY <1>1, <1>4, SameOtherStep DEF QP!Next
<1> QED
  BY <1>1, <1>2, <1>3, <1>4 DEF Local

\* A step of the queue alone never moves a broker that waits, nor the receipts
\* of one that is about to record them.
BrokersKeep ==
  \A b \in Brokers :
    /\ pc[b] = "wait" => pc'[b] = "wait" /\ chunk'[b] = chunk[b]
    /\ pc'[b] \in {"mark", "write"} =>
         pc[b] \in {"mark", "write"} /\ chunk'[b] = chunk[b] /\ receipts'[b] = receipts[b]

LEMMA DeadWriterKeepsBrokers ==
  ASSUME QP!IInv, QP!LineInv, NEW w \in Writers, QP!Die(w)
  PROVE  BrokersKeep
<1>1. \A b \in Brokers : b # w /\ b \in DOMAIN pc
  BY QueueFacts
<1>2. /\ pc' = [pc EXCEPT ![w] = "idle"]
      /\ chunk' = chunk /\ receipts' = receipts
  BY NoneIsNoBroker DEF QP!Die
<1> QED
  BY <1>1, <1>2, QueueFacts DEF BrokersKeep

LEMMA LocalKeepsBrokers ==
  ASSUME QP!IInv, QP!LineInv, Local
  PROVE  BrokersKeep
<1>0. /\ \A b \in Brokers : b \notin Writers
      /\ pc \in [Writers \cup Brokers ->
                {"idle", "reap", "append", "return", "send", "wait", "mark", "write"}]
      /\ chunk \in [Brokers -> SUBSET Ops]
      /\ receipts \in [Brokers -> [Ops -> Verdicts \cup {"pending"}]]
  BY QueueFacts
<1>1. ASSUME NEW w \in Writers, QP!WriterStep(w)
      PROVE  BrokersKeep
  <2>1. CASE QP!CrashInAppend(w)
    BY <2>1, DeadWriterKeepsBrokers DEF QP!CrashInAppend
  <2>2. CASE ~ QP!CrashInAppend(w)
    <3>1. UNCHANGED <<chunk, receipts>> /\ \A b \in Brokers : pc'[b] = pc[b]
      BY <1>0, <1>1, <2>2
         DEF QP!WriterStep, QP!EnqueueLock, QP!EnqueueDedup, QP!EnqueueReap,
             QP!EnqueueRefuse, QP!EnqueueAppend, QP!EnqueueReturn, QP!procVars
    <3> QED
      BY <3>1 DEF BrokersKeep
  <2> QED
    BY <2>1, <2>2
<1>2. ASSUME NEW w \in Writers, QP!Crash(w)
      PROVE  BrokersKeep
  BY <1>2, DeadWriterKeepsBrokers DEF QP!Crash
<1>3. ASSUME NEW b \in Brokers, QP!FlushStart(b)
      PROVE  BrokersKeep
  BY <1>0, <1>3 DEF QP!FlushStart, BrokersKeep
<1>4. ASSUME NEW b \in Brokers, QP!MarkLock(b)
      PROVE  BrokersKeep
  BY <1>0, <1>4 DEF QP!MarkLock, BrokersKeep
<1>5. ASSUME NEW b \in Brokers, QP!MarkWrite(b)
      PROVE  BrokersKeep
  BY <1>0, <1>5 DEF QP!MarkWrite, BrokersKeep
<1>6. ASSUME NEW o \in Ops, QP!Age(o)
      PROVE  BrokersKeep
  BY <1>6 DEF QP!Age, QP!procVars, BrokersKeep
<1> QED
  BY <1>1, <1>2, <1>3, <1>4, <1>5, <1>6, SameWriterStep, SameOtherStep, SameBrokerStep
     DEF Local

\* An op that was accepted stays accepted.
LEMMA AcceptedGrows ==
  ASSUME QP!Accepts \/ QP!Drops \/ QP!Learns
  PROVE  QP!Accepted \subseteq QP!Accepted'
BY DEF QP!Accepts, QP!Drops, QP!Learns

LEMMA LocalKeeps ==
  ASSUME QP!IInv, QP!LineInv, FleetInv, Local
  PROVE  FleetInv'
<1>1. UNCHANGED <<phase, batch, db, inbox, serving, answer>>
  BY LocalIsQueueStep DEF hubVars, netVars
<1>2. BrokersKeep
  BY LocalKeepsBrokers
<1>3. QP!Accepted \subseteq QP!Accepted'
  BY LocalIsQueueStep, QueueKeeps, AcceptedGrows
<1>4. CallType'
  BY <1>1 DEF FleetInv, CallType
<1>5. AcceptedInv'
  BY <1>1, <1>3 DEF FleetInv, AcceptedInv, HP!OpsOf
<1>6. OneCall'
  <2>1. ASSUME NEW c \in inbox', c.from # None
        PROVE  /\ pc'[c.from] = "wait" /\ HP!OpsOf(c.ops) = chunk'[c.from]
               /\ serving' # c.from /\ answer'[c.from] = None
               /\ \A d \in inbox' : d.from = c.from => d = c
    <3>1. c \in inbox /\ c.from \in Brokers
      BY <1>1, <2>1 DEF FleetInv, CallType
    <3> QED
      BY <1>1, <1>2, <2>1, <3>1 DEF FleetInv, OneCall, BrokersKeep
  <2>2. serving' # None =>
          /\ phase' # "idle"
          /\ pc'[serving'] = "wait" /\ HP!OpsOf(batch') = chunk'[serving']
          /\ answer'[serving'] = None
    BY <1>1, <1>2 DEF FleetInv, CallType, OneCall, HP!OpsOf, BrokersKeep
  <2>3. \A p \in Brokers : answer'[p] # None => pc'[p] = "wait"
    BY <1>1, <1>2 DEF FleetInv, OneCall, BrokersKeep
  <2> QED
    BY <2>1, <2>2, <2>3 DEF OneCall, HP!OpsOf
<1>7. ReceiptsInv'
  BY <1>1, <1>2 DEF FleetInv, OneCall, ReceiptsInv, BrokersKeep, Answers
<1> QED
  BY <1>4, <1>5, <1>6, <1>7 DEF FleetInv

--------------------------------------------------------------------------------
(* Calls.                                                                  *)

LEMMA SendIsQueueStep ==
  ASSUME NEW b \in Brokers, Send(b)
  PROVE  QP!Next
BY SameBrokerStep DEF Send, QP!Next, QP!BrokerStep

LEMMA SendKeeps ==
  ASSUME QP!IInv, QP!LineInv, FleetInv, NEW b \in Brokers, Send(b)
  PROVE  FleetInv'
<1> DEFINE S == Queue!Chunk(rows[b])
           call == [from |-> b, ops |-> InOrder(S)]
<1>1. /\ UNCHANGED <<phase, batch, db, serving, answer, seq, receipts>>
      /\ inbox' = inbox \cup {call}
      /\ pc[b] = "send" /\ pc' = [pc EXCEPT ![b] = "wait"]
      /\ chunk' = [chunk EXCEPT ![b] = S]
  BY DEF Send, hubVars, Queue!FlushSend, Queue!fileVars
<1>2. /\ S \subseteq QP!Accepted /\ S \subseteq Ops
      /\ \A x, y \in S : seq[x] = seq[y] => x = y
  <2>1. S \subseteq rows[b]
    BY DEF Queue!Chunk
  <2> QED
    BY <2>1, QueueFacts
<1> HIDE DEF S
<1>3. InOrder(S) \in Seq(Ops) /\ HP!OpsOf(InOrder(S)) = S
  BY <1>2, InOrderLists, QueueFacts
<1>4. /\ pc'[b] = "wait" /\ chunk'[b] = S
      /\ \A p \in Brokers \ {b} : pc'[p] = pc[p] /\ chunk'[p] = chunk[p]
  BY <1>1, QueueFacts
<1>5. call.from = b /\ call.ops = InOrder(S)
  OBVIOUS
<1>6. call \in [from : Brokers \cup {None}, ops : Seq(Ops)]
  BY <1>3
<1> HIDE DEF call
<1>7. CallType'
  BY <1>1, <1>6 DEF FleetInv, CallType
<1>8. AcceptedInv'
  BY <1>1, <1>2, <1>3, <1>5 DEF FleetInv, AcceptedInv, HP!OpsOf, QP!Accepted
<1>9. serving # b /\ answer[b] = None /\ b # None /\ \A c \in inbox : c.from # b
  BY <1>1, QueueFacts DEF FleetInv, OneCall
<1>10. OneCall'
  <2>1. ASSUME NEW c \in inbox', c.from # None
        PROVE  /\ pc'[c.from] = "wait" /\ HP!OpsOf(c.ops) = chunk'[c.from]
               /\ serving' # c.from /\ answer'[c.from] = None
               /\ \A d \in inbox' : d.from = c.from => d = c
    <3>1. CASE c = call
      BY <1>1, <1>3, <1>4, <1>5, <1>9, <3>1
    <3>2. CASE c # call
      <4>1. c \in inbox /\ c.from \in Brokers \ {b}
        BY <1>1, <1>9, <2>1, <3>2 DEF FleetInv, CallType
      <4> QED
        BY <1>1, <1>4, <1>5, <2>1, <4>1 DEF FleetInv, OneCall
    <3> QED
      BY <3>1, <3>2
  <2>2. serving' # None =>
          /\ phase' # "idle"
          /\ pc'[serving'] = "wait" /\ HP!OpsOf(batch') = chunk'[serving']
          /\ answer'[serving'] = None
    BY <1>1, <1>4, <1>9 DEF FleetInv, CallType, OneCall, HP!OpsOf
  <2>3. \A p \in Brokers : answer'[p] # None => pc'[p] = "wait"
    BY <1>1, <1>4 DEF FleetInv, OneCall
  <2> QED
    BY <2>1, <2>2, <2>3 DEF OneCall, HP!OpsOf
<1>11. ReceiptsInv'
  BY <1>1, <1>4, <1>9 DEF FleetInv, ReceiptsInv, Answers
<1> QED
  BY <1>7, <1>8, <1>10, <1>11 DEF FleetInv

LEMMA ReceiveIsQueueStep ==
  ASSUME QP!IInv, QP!LineInv, FleetInv, NEW b \in Brokers, Receive(b)
  PROVE  QP!Next
<1>1. QP!FlushAnswer(b, answer[b])
  BY SameBrokerStep DEF Receive
<1> DEFINE v == [o \in chunk[b] |-> answer[b][o]]
<1>2. /\ answer[b] \in [Ops -> Verdicts \cup {"pending"}]
      /\ \A o \in Ops \ chunk[b] : answer[b][o] = "pending"
      /\ \A o \in chunk[b] : answer[b][o] \in Verdicts
  BY DEF Receive, FleetInv, ReceiptsInv, Answers
<1>3. v \in [chunk[b] -> Verdicts]
  BY <1>2
<1>4. answer[b] = [o \in Ops |-> IF o \in chunk[b] THEN v[o] ELSE "pending"]
  BY <1>2
<1> HIDE DEF v
<1>5. QP!AnyAnswer(b)
  BY <1>1, <1>3, <1>4 DEF QP!AnyAnswer
<1> QED
  BY <1>5 DEF QP!Next

LEMMA ReceiveKeeps ==
  ASSUME QP!IInv, QP!LineInv, FleetInv, NEW b \in Brokers, Receive(b)
  PROVE  FleetInv'
<1>1. /\ UNCHANGED <<phase, batch, db, serving, inbox, seq, chunk>>
      /\ answer[b] # None /\ answer' = [answer EXCEPT ![b] = None]
      /\ pc[b] = "wait" /\ pc' = [pc EXCEPT ![b] = "mark"]
      /\ receipts' = [receipts EXCEPT ![b] = answer[b]]
  BY DEF Receive, hubVars, Queue!FlushAnswer, Queue!fileVars
<1>2. /\ answer'[b] = None /\ pc'[b] = "mark" /\ receipts'[b] = answer[b]
      /\ DOMAIN answer' = Brokers
      /\ \A p \in Brokers \ {b} :
           answer'[p] = answer[p] /\ pc'[p] = pc[p] /\ receipts'[p] = receipts[p]
  BY <1>1, QueueFacts DEF FleetInv, CallType
<1>3. serving # b /\ b # None /\ \A c \in inbox : c.from # b
  BY <1>1, QueueFacts DEF FleetInv, OneCall
<1>4. CallType'
  BY <1>1, <1>2 DEF FleetInv, CallType
<1>5. AcceptedInv'
  BY <1>1 DEF FleetInv, AcceptedInv, HP!OpsOf, QP!Accepted
<1>6. OneCall'
  <2>1. ASSUME NEW c \in inbox', c.from # None
        PROVE  /\ pc'[c.from] = "wait" /\ HP!OpsOf(c.ops) = chunk'[c.from]
               /\ serving' # c.from /\ answer'[c.from] = None
               /\ \A d \in inbox' : d.from = c.from => d = c
    <3>1. c \in inbox /\ c.from \in Brokers
      BY <1>1, <2>1 DEF FleetInv, CallType
    <3> QED
      BY <1>1, <1>2, <1>3, <2>1, <3>1 DEF FleetInv, OneCall
  <2>2. serving' # None =>
          /\ phase' # "idle"
          /\ pc'[serving'] = "wait" /\ HP!OpsOf(batch') = chunk'[serving']
          /\ answer'[serving'] = None
    BY <1>1, <1>2, <1>3 DEF FleetInv, CallType, OneCall, HP!OpsOf
  <2>3. \A p \in Brokers : answer'[p] # None => pc'[p] = "wait"
    BY <1>1, <1>2, <1>3 DEF FleetInv, OneCall
  <2> QED
    BY <2>1, <2>2, <2>3 DEF OneCall, HP!OpsOf
<1>7. ReceiptsInv'
  BY <1>1, <1>2 DEF FleetInv, ReceiptsInv, Answers
<1> QED
  BY <1>4, <1>5, <1>6, <1>7 DEF FleetInv

\* A broker that stops waiting, by its deadline or by its death.
LEMMA StoppedIsQueueStep ==
  ASSUME NEW b \in Brokers, GiveUp(b) \/ BrokerDies(b)
  PROVE  /\ QP!Next /\ Orphan(b) /\ UNCHANGED hubVars
         /\ pc' = [pc EXCEPT ![b] = "idle"]
         /\ \A p \in Brokers \ {b} : chunk'[p] = chunk[p] /\ receipts'[p] = receipts[p]
<1>1. CASE GiveUp(b)
  <2>1. QP!FlushBreak(b)
    BY <1>1, SameBrokerStep DEF GiveUp
  <2>2. QP!Next
    BY <2>1 DEF QP!Next, QP!BrokerStep
  <2> QED
    BY <1>1, <2>1, <2>2 DEF GiveUp, QP!FlushBreak
<1>2. CASE BrokerDies(b)
  <2>1. QP!Crash(b)
    BY <1>2, SameOtherStep DEF BrokerDies
  <2>2. QP!Next
    BY <2>1 DEF QP!Next, QP!Procs
  <2> QED
    BY <1>2, <2>1, <2>2 DEF BrokerDies, QP!Crash, QP!Die
<1> QED
  BY <1>1, <1>2

LEMMA StoppedKeeps ==
  ASSUME QP!IInv, QP!LineInv, FleetInv, NEW b \in Brokers, GiveUp(b) \/ BrokerDies(b)
  PROVE  FleetInv'
<1>1. /\ UNCHANGED <<phase, batch, db>>
      /\ serving' = (IF serving = b THEN None ELSE serving)
      /\ answer' = [answer EXCEPT ![b] = None]
      /\ inbox' = {[c EXCEPT !.from = IF @ = b THEN None ELSE @] : c \in inbox}
  BY StoppedIsQueueStep DEF hubVars, Orphan
<1>2. /\ pc'[b] = "idle" /\ answer'[b] = None /\ DOMAIN answer' = Brokers
      /\ \A p \in Brokers \ {b} :
           /\ answer'[p] = answer[p] /\ pc'[p] = pc[p]
           /\ chunk'[p] = chunk[p] /\ receipts'[p] = receipts[p]
  BY <1>1, StoppedIsQueueStep, QueueFacts DEF FleetInv, CallType
<1>3. QP!Accepted \subseteq QP!Accepted'
  BY StoppedIsQueueStep, QueueKeeps, AcceptedGrows
<1>4. /\ inbox' \subseteq [from : Brokers \cup {None}, ops : Seq(Ops)]
      /\ \A c \in inbox' : c.from # b
      /\ \A c \in inbox' : \E d \in inbox : d.ops = c.ops
      /\ \A c \in inbox' : c.from # None => c \in inbox
  <2> SUFFICES ASSUME NEW c \in inbox'
               PROVE  /\ c \in [from : Brokers \cup {None}, ops : Seq(Ops)]
                      /\ c.from # b /\ \E d \in inbox : d.ops = c.ops
                      /\ c.from # None => c \in inbox
    OBVIOUS
  <2>1. PICK d \in inbox : c = [d EXCEPT !.from = IF @ = b THEN None ELSE @]
    BY <1>1
  <2>2. d \in [from : Brokers \cup {None}, ops : Seq(Ops)] /\ b # None
    BY QueueFacts DEF FleetInv, CallType
  <2>3. CASE d.from = b
    <3>1. c = [from |-> None, ops |-> d.ops]
      BY <2>1, <2>2, <2>3
    <3> QED
      BY <2>2, <3>1
  <2>4. CASE d.from # b
    <3>1. c = d
      BY <2>1, <2>2, <2>4
    <3> QED
      BY <2>2, <2>4, <3>1
  <2> QED
    BY <2>3, <2>4
<1>5. CallType'
  BY <1>1, <1>2, <1>4 DEF FleetInv, CallType
<1>6. AcceptedInv'
  BY <1>1, <1>3, <1>4 DEF FleetInv, AcceptedInv, HP!OpsOf
<1>7. OneCall'
  <2>1. ASSUME NEW c \in inbox', c.from # None
        PROVE  /\ pc'[c.from] = "wait" /\ HP!OpsOf(c.ops) = chunk'[c.from]
               /\ serving' # c.from /\ answer'[c.from] = None
               /\ \A d \in inbox' : d.from = c.from => d = c
    <3>1. c \in inbox /\ c.from \in Brokers \ {b}
      BY <1>4, <2>1
    <3> QED
      BY <1>1, <1>2, <1>4, <2>1, <3>1 DEF FleetInv, OneCall
  <2>2. serving' # None =>
          /\ phase' # "idle"
          /\ pc'[serving'] = "wait" /\ HP!OpsOf(batch') = chunk'[serving']
          /\ answer'[serving'] = None
    BY <1>1, <1>2 DEF FleetInv, CallType, OneCall, HP!OpsOf
  <2>3. \A p \in Brokers : answer'[p] # None => pc'[p] = "wait"
    BY <1>2 DEF FleetInv, OneCall
  <2> QED
    BY <2>1, <2>2, <2>3 DEF OneCall, HP!OpsOf
<1>8. ReceiptsInv'
  BY <1>1, <1>2 DEF FleetInv, ReceiptsInv, Answers
<1> QED
  BY <1>5, <1>6, <1>7, <1>8 DEF FleetInv

--------------------------------------------------------------------------------
(* The steps of the hub and of the network.                                *)

\* A call that is lost or refused is not waited for any less.
LEMMA DroppedKeeps ==
  ASSUME FleetInv, NEW c \in inbox, Lose(c) \/ Refuse(c)
  PROVE  FleetInv'
<1>1. /\ inbox' \subseteq inbox
      /\ UNCHANGED <<phase, batch, db, serving, answer, seq, pc, chunk, receipts>>
  BY DEF Lose, Refuse, queueVars, hubVars
<1>2. CallType' /\ AcceptedInv'
  BY <1>1 DEF FleetInv, CallType, AcceptedInv, HP!OpsOf, QP!Accepted
<1>3. OneCall'
  BY <1>1 DEF FleetInv, OneCall, HP!OpsOf
<1>4. ReceiptsInv'
  BY <1>1 DEF FleetInv, ReceiptsInv, Answers
<1> QED
  BY <1>2, <1>3, <1>4 DEF FleetInv

LEMMA ServeKeeps ==
  ASSUME FleetInv, NEW c \in inbox, Serve(c) \/ ServeAgain(c)
  PROVE  FleetInv'
<1>1. /\ UNCHANGED <<db, answer, seq, pc, chunk, receipts>>
      /\ phase = "idle" /\ phase' = "apply" /\ batch' = c.ops
      /\ serving' = c.from
      /\ inbox' \subseteq inbox /\ (c \notin inbox' \/ c.from = None)
  BY DEF Serve, ServeAgain, Hub!Begin, queueVars
<1>2. c.from \in Brokers \cup {None}
  BY DEF FleetInv, CallType
<1>3. CallType'
  BY <1>1, <1>2 DEF FleetInv, CallType
<1>4. AcceptedInv'
  BY <1>1 DEF FleetInv, AcceptedInv, HP!OpsOf, QP!Accepted
<1>5. OneCall'
  <2>1. ASSUME NEW d \in inbox', d.from # None
        PROVE  /\ pc'[d.from] = "wait" /\ HP!OpsOf(d.ops) = chunk'[d.from]
               /\ serving' # d.from /\ answer'[d.from] = None
               /\ \A e \in inbox' : e.from = d.from => e = d
    <3>1. d \in inbox
      BY <1>1
    <3>2. d.from # c.from
      BY <1>1, <2>1, <3>1 DEF FleetInv, OneCall
    <3> QED
      BY <1>1, <2>1, <3>1, <3>2 DEF FleetInv, OneCall
  <2>2. serving' # None =>
          /\ phase' # "idle"
          /\ pc'[serving'] = "wait" /\ HP!OpsOf(batch') = chunk'[serving']
          /\ answer'[serving'] = None
    BY <1>1 DEF FleetInv, OneCall, HP!OpsOf
  <2>3. \A p \in Brokers : answer'[p] # None => pc'[p] = "wait"
    BY <1>1 DEF FleetInv, OneCall
  <2> QED
    BY <2>1, <2>2, <2>3 DEF OneCall, HP!OpsOf
<1>6. ReceiptsInv'
  BY <1>1 DEF FleetInv, ReceiptsInv, Answers
<1> QED
  BY <1>3, <1>4, <1>5, <1>6 DEF FleetInv

\* The committed ops of the database the hub is about to publish.
LEMMA CommitFacts ==
  ASSUME HP!IInv, HP!BatchInv
  PROVE  \A o \in Ops :
           /\ db.applied[o] = "committed" => work.applied[o] = "committed"
           /\ work.applied[o] = "committed" =>
                db.applied[o] = "committed" \/ o \in HP!OpsOf(batch)
<1>1. HP!Grows(db, work)
  BY DEF HP!IInv, HP!TxnInv
<1> QED
  BY <1>1 DEF HP!Grows, HP!BatchInv

LEMMA HubStepKeeps ==
  ASSUME QP!IInv, QP!LineInv, HP!IInv, HP!BatchInv, FleetInv, HubStep
  PROVE  FleetInv'
<1>1. UNCHANGED <<inbox, serving, answer, seq, pc, chunk, receipts>>
  BY DEF HubStep, queueVars, netVars
<1>2. /\ UNCHANGED batch /\ (phase' = phase \/ phase' = "reply")
      /\ db' = db \/ db' = work
  <2>1. CASE Hub!ApplyOp
    BY <2>1, ApplyKeeps DEF HP!OneOp
  <2>2. CASE Hub!CommitBatch
    BY <2>2 DEF Hub!CommitBatch
  <2> QED
    BY <2>1, <2>2 DEF HubStep
<1>3. \A o \in Ops : db.applied[o] = "committed" => db'.applied[o] = "committed"
  BY <1>2, CommitFacts
<1>4. CallType'
  BY <1>1 DEF FleetInv, CallType
<1>5. AcceptedInv'
  BY <1>1, <1>2, CommitFacts DEF FleetInv, AcceptedInv, HP!OpsOf, QP!Accepted
<1>6. OneCall'
  BY <1>1, <1>2 DEF FleetInv, OneCall, HP!OpsOf
<1>7. ReceiptsInv'
  <2> SUFFICES ASSUME NEW b \in Brokers
               PROVE  /\ answer[b] # None =>
                           /\ answer[b] \in [Ops -> Verdicts \cup {"pending"}]
                           /\ \A o \in Ops \ chunk[b] : answer[b][o] = "pending"
                           /\ Answers(answer[b], chunk[b])'
                      /\ pc[b] \in {"mark", "write"} => Answers(receipts[b], chunk[b])'
    BY <1>1 DEF ReceiptsInv, Answers
  <2>1. \A v, S : S \subseteq Ops /\ Answers(v, S) =>
          /\ \A o \in S : v[o] \in Verdicts
          /\ \A o \in S : v[o] \in {"committed", "duplicate"} => db'.applied[o] = "committed"
    BY <1>3 DEF Answers
  <2>2. answer[b] # None =>
          /\ answer[b] \in [Ops -> Verdicts \cup {"pending"}]
          /\ \A o \in Ops \ chunk[b] : answer[b][o] = "pending"
          /\ Answers(answer[b], chunk[b])
    BY DEF FleetInv, ReceiptsInv
  <2>3. pc[b] \in {"mark", "write"} => Answers(receipts[b], chunk[b])
    BY DEF FleetInv, ReceiptsInv
  <2>4. chunk[b] \subseteq Ops
    BY QueueFacts
  <2> QED
    BY <1>1, <2>1, <2>2, <2>3, <2>4 DEF Answers
<1> QED
  BY <1>4, <1>5, <1>6, <1>7 DEF FleetInv

\* The receipts of a batch that was committed are an answer to its call.
LEMMA ReceiptsAnswer ==
  ASSUME HP!IInv, HP!BatchInv, phase = "reply"
  PROVE  LET v == [o \in Ops |-> IF out[o] = "none" THEN "pending" ELSE out[o]]
         IN  /\ v \in [Ops -> Verdicts \cup {"pending"}]
             /\ \A o \in Ops \ HP!OpsOf(batch) : v[o] = "pending"
             /\ Answers(v, HP!OpsOf(batch))
<1> DEFINE v == [o \in Ops |-> IF out[o] = "none" THEN "pending" ELSE out[o]]
<1>1. /\ out \in [Ops -> Verdicts \cup {"none"}]
      /\ batch \in Seq(Ops) /\ at \in 1..(Len(batch) + 1)
      /\ work = db
      /\ \A o \in Ops : out[o] \in {"committed", "duplicate"} => work.applied[o] = "committed"
  BY DEF HP!IInv, HP!TypeOK, HP!Verdicts, Verdicts, HP!TxnInv, HP!ReceiptInv
<1>2. /\ at > Len(batch)
      /\ \A o \in Ops : out[o] # "none" <=> \E i \in 1..(at - 1) : batch[i] = o
  BY DEF HP!BatchInv
<1>3. at - 1 = Len(batch)
  BY <1>1, <1>2
<1>4. \A o \in Ops : out[o] # "none" <=> o \in HP!OpsOf(batch)
  BY <1>2, <1>3 DEF HP!OpsOf
<1>5. HP!OpsOf(batch) \subseteq Ops
  BY <1>1 DEF HP!OpsOf
<1>6. v \in [Ops -> Verdicts \cup {"pending"}]
  BY <1>1
<1>7. \A o \in Ops \ HP!OpsOf(batch) : v[o] = "pending"
  BY <1>4
<1>8. Answers(v, HP!OpsOf(batch))
  BY <1>1, <1>4, <1>5 DEF Answers, Verdicts
<1> QED
  BY <1>6, <1>7, <1>8

\* The hub is done with a batch, and whoever waited for it has an answer or not.
LEMMA DoneKeeps ==
  ASSUME FleetInv, NEW a,
         UNCHANGED <<db, inbox, seq, pc, chunk, receipts>>,
         batch' = <<>>, serving' = None,
         \/ answer' = answer
         \/ /\ serving # None /\ answer' = [answer EXCEPT ![serving] = a]
            /\ a \in [Ops -> Verdicts \cup {"pending"}]
            /\ \A o \in Ops \ chunk[serving] : a[o] = "pending"
            /\ Answers(a, chunk[serving])
  PROVE  FleetInv'
<1>1. serving \in Brokers \cup {None} /\ DOMAIN answer = Brokers
  BY DEF FleetInv, CallType
<1>2. /\ DOMAIN answer' = Brokers
      /\ \A b \in Brokers \ {serving} : answer'[b] = answer[b]
      /\ serving # None => answer'[serving] \in {a, None}
  BY <1>1 DEF FleetInv, OneCall
<1>3. CallType'
  BY <1>2 DEF FleetInv, CallType
<1>4. AcceptedInv'
  BY DEF FleetInv, AcceptedInv, HP!OpsOf, QP!Accepted
<1>5. OneCall'
  <2>1. ASSUME NEW c \in inbox', c.from # None
        PROVE  /\ pc'[c.from] = "wait" /\ HP!OpsOf(c.ops) = chunk'[c.from]
               /\ serving' # c.from /\ answer'[c.from] = None
               /\ \A d \in inbox' : d.from = c.from => d = c
    <3>1. c \in inbox /\ c.from \in Brokers \ {serving}
      BY <2>1 DEF FleetInv, CallType, OneCall
    <3> QED
      BY <1>2, <2>1, <3>1 DEF FleetInv, OneCall
  <2>2. \A b \in Brokers : answer'[b] # None => pc'[b] = "wait"
    BY <1>1, <1>2 DEF FleetInv, OneCall
  <2> QED
    BY <2>1, <2>2 DEF OneCall, HP!OpsOf
<1>6. ReceiptsInv'
  <2> SUFFICES ASSUME NEW b \in Brokers
               PROVE  /\ answer'[b] # None =>
                           /\ answer'[b] \in [Ops -> Verdicts \cup {"pending"}]
                           /\ \A o \in Ops \ chunk'[b] : answer'[b][o] = "pending"
                           /\ Answers(answer[b], chunk[b])'
                      /\ pc'[b] \in {"mark", "write"} => Answers(receipts[b], chunk[b])'
    BY DEF ReceiptsInv, Answers
  <2>1. pc'[b] \in {"mark", "write"} => Answers(receipts[b], chunk[b])'
    BY DEF FleetInv, ReceiptsInv, Answers
  <2>2. CASE answer'[b] = answer[b]
    BY <2>1, <2>2 DEF FleetInv, ReceiptsInv, Answers
  <2>3. CASE b = serving /\ answer'[b] = a /\ answer'[b] # answer[b]
    <3>1. /\ a \in [Ops -> Verdicts \cup {"pending"}]
          /\ \A o \in Ops \ chunk[b] : a[o] = "pending"
          /\ Answers(a, chunk[b])
      BY <2>3
    <3> QED
      BY <2>1, <2>3, <3>1 DEF Answers
  <2>4. CASE answer'[b] = None
    BY <2>1, <2>4
  <2> QED
    BY <1>1, <1>2, <2>2, <2>3, <2>4, NoneIsNoBroker
<1> QED
  BY <1>3, <1>4, <1>5, <1>6 DEF FleetInv

LEMMA ReplyKeeps ==
  ASSUME HP!IInv, HP!BatchInv, FleetInv, Reply
  PROVE  FleetInv'
<1> DEFINE v == [o \in Ops |-> IF out[o] = "none" THEN "pending" ELSE out[o]]
<1>1. /\ UNCHANGED <<db, inbox, seq, pc, chunk, receipts>>
      /\ phase = "reply" /\ batch' = <<>> /\ serving' = None
      /\ answer' = IF serving = None THEN answer ELSE [answer EXCEPT ![serving] = v]
  BY DEF Reply, Hub!Reply, Hub!Clear, queueVars
<1>2. /\ v \in [Ops -> Verdicts \cup {"pending"}]
      /\ \A o \in Ops \ HP!OpsOf(batch) : v[o] = "pending"
      /\ Answers(v, HP!OpsOf(batch))
  BY <1>1, ReceiptsAnswer
<1> HIDE DEF v
<1>3. serving # None => HP!OpsOf(batch) = chunk[serving]
  BY DEF FleetInv, OneCall
<1> QED
  BY <1>1, <1>2, <1>3, DoneKeeps

LEMMA HubDiesKeeps ==
  ASSUME FleetInv, HubDies
  PROVE  FleetInv'
<1>1. /\ UNCHANGED <<db, inbox, seq, pc, chunk, receipts, answer>>
      /\ batch' = <<>> /\ serving' = None
  BY DEF HubDies, Hub!Abort, Hub!LoseReply, Hub!Clear, queueVars
<1> QED
  BY <1>1, DoneKeeps

--------------------------------------------------------------------------------
(* The inductive invariant.                                                *)

LEMMA InitInv == Init => IInv
<1> SUFFICES ASSUME Init
             PROVE  IInv
  OBVIOUS
<1>1. QP!Init /\ HP!Init
  BY SameInit DEF Init
<1>2. QP!IInv /\ QP!LineInv
  BY <1>1, QP!InitInv, QP!InitLine, SameConstants
<1>3. HP!IInv /\ HP!BatchInv
  BY <1>1, HP!InitInv, HP!InitBatch, SameConstants
<1>4. /\ inbox = {} /\ serving = None /\ answer = [b \in Brokers |-> None]
      /\ batch = <<>> /\ \A o \in Ops : db.applied[o] # "committed"
      /\ \A b \in Brokers : pc[b] = "idle"
  BY DEF Init, Hub!Init, Queue!Init, Queue!Procs, Hub!EmptyDb, Hub!NoReceipts
<1>5. HP!OpsOf(batch) = {}
  BY <1>4 DEF HP!OpsOf
<1>6. FleetInv
  BY <1>4, <1>5 DEF FleetInv, CallType, AcceptedInv, OneCall, ReceiptsInv
<1> QED
  BY <1>2, <1>3, <1>6 DEF IInv

\* A step of the queue leaves the hub alone, and the other way round.
LEMMA QueueSideKeeps ==
  ASSUME IInv, QP!Next, UNCHANGED hubVars, FleetInv'
  PROVE  IInv'
BY QueueKeeps, HubStutterKeeps DEF IInv

LEMMA HubSideKeeps ==
  ASSUME IInv, UNCHANGED queueVars, HP!IInv', HP!BatchInv', FleetInv'
  PROVE  IInv'
BY QueueKeeps, QueueStutters DEF IInv

LEMMA NextInv == IInv /\ [Next]_vars => IInv'
<1> SUFFICES ASSUME IInv, [Next]_vars
             PROVE  IInv'
  OBVIOUS
<1>0. QP!IInv /\ QP!LineInv /\ HP!IInv /\ HP!BatchInv /\ FleetInv
  BY DEF IInv
<1>1. CASE Local
  BY <1>0, <1>1, LocalIsQueueStep, LocalKeeps, QueueSideKeeps
<1>2. ASSUME NEW b \in Brokers, Send(b)
      PROVE  IInv'
  BY <1>0, <1>2, SendIsQueueStep, SendKeeps, QueueSideKeeps DEF Send
<1>3. ASSUME NEW b \in Brokers, Receive(b)
      PROVE  IInv'
  BY <1>0, <1>3, ReceiveIsQueueStep, ReceiveKeeps, QueueSideKeeps DEF Receive
<1>4. ASSUME NEW b \in Brokers, GiveUp(b) \/ BrokerDies(b)
      PROVE  IInv'
  BY <1>0, <1>4, StoppedIsQueueStep, StoppedKeeps, QueueSideKeeps
<1>5. ASSUME NEW c \in inbox, Lose(c) \/ Refuse(c)
      PROVE  IInv'
  <2>1. UNCHANGED queueVars /\ UNCHANGED hubVars
    BY <1>5 DEF Lose, Refuse
  <2> QED
    BY <1>0, <1>5, <2>1, DroppedKeeps, HubStutterKeeps, HubSideKeeps
<1>6. ASSUME NEW c \in inbox, Serve(c) \/ ServeAgain(c)
      PROVE  IInv'
  <2>1. UNCHANGED queueVars /\ Hub!Begin(c.ops)
    BY <1>6 DEF Serve, ServeAgain
  <2>2. c.ops \in Seq(Ops)
    BY <1>0 DEF FleetInv, CallType
  <2> QED
    BY <1>0, <1>6, <2>1, <2>2, ServeKeeps, BeginKeeps, HubSideKeeps
<1>7. CASE HubStep
  <2>1. UNCHANGED queueVars /\ (Hub!ApplyOp \/ Hub!CommitBatch)
    BY <1>7 DEF HubStep
  <2> QED
    BY <1>0, <1>7, <2>1, HubStepKeeps, ApplyKeeps, EndKeeps, HubSideKeeps
<1>8. CASE Reply
  <2>1. UNCHANGED queueVars /\ Hub!Reply
    BY <1>8 DEF Reply
  <2> QED
    BY <1>0, <1>8, <2>1, ReplyKeeps, EndKeeps, HubSideKeeps
<1>9. CASE HubDies
  <2>1. UNCHANGED queueVars /\ (Hub!Abort \/ Hub!LoseReply)
    BY <1>9 DEF HubDies
  <2> QED
    BY <1>0, <1>9, <2>1, HubDiesKeeps, EndKeeps, HubSideKeeps
<1>10. CASE UNCHANGED vars
  <2>1. UNCHANGED queueVars /\ UNCHANGED hubVars
        /\ UNCHANGED <<inbox, serving, answer>>
    BY <1>10 DEF vars, netVars
  <2>2. UNCHANGED <<phase, batch, db, seq, pc, chunk, receipts>>
    BY <2>1 DEF queueVars, hubVars
  <2>3. CallType' /\ AcceptedInv'
    BY <1>0, <2>1, <2>2 DEF FleetInv, CallType, AcceptedInv, HP!OpsOf, QP!Accepted
  <2>4. OneCall'
    BY <1>0, <2>1, <2>2 DEF FleetInv, OneCall, HP!OpsOf
  <2>5. ReceiptsInv'
    BY <1>0, <2>1, <2>2 DEF FleetInv, ReceiptsInv, Answers
  <2>6. FleetInv'
    BY <2>3, <2>4, <2>5 DEF FleetInv
  <2> QED
    BY <1>0, <2>1, <2>6, HubStutterKeeps, HubSideKeeps
<1> QED
  BY <1>1, <1>2, <1>3, <1>4, <1>5, <1>6, <1>7, <1>8, <1>9, <1>10 DEF Next

--------------------------------------------------------------------------------
(* Every step is a step of the contract, or none of its business.          *)

LEMMA InitAbstract == Init => Abstract!Init
BY DEF Init, Queue!Init, Queue!NoFile, Hub!Init, Hub!EmptyDb, Hub!NoReceipts,
       Abstract!Init

\* The queue accepts, drops, or learns what the hub answered.
LEMMA QueueStepIsAbstract ==
  ASSUME QP!IInv, QP!LineInv, FleetInv, QP!Next, UNCHANGED db
  PROVE  Abstract!Next
<1>1. QP!Accepts \/ QP!Drops \/ QP!Learns
  BY QueueKeeps
<1>2. lines \subseteq Ops /\ db' = db
  BY DEF QP!IInv, QP!TypeOK
<1>3. CASE QP!Accepts
  BY <1>2, <1>3 DEF QP!Accepts, QP!Accepted, Abstract!Next, Abstract!Accept
<1>4. CASE QP!Drops
  BY <1>2, <1>4 DEF QP!Drops, QP!Accepted, Abstract!Next, Abstract!Drop
<1>5. CASE QP!Learns
  <2>1. PICK b \in Brokers, ops \in SUBSET QP!Pending :
          /\ pc[b] = "write" /\ ops \subseteq chunk[b]
          /\ QP!Accepted' = QP!Accepted /\ lines' = lines
          /\ status' = [o \in Ops |-> IF o \in ops THEN receipts[b][o] ELSE status[o]]
    BY <1>5 DEF QP!Learns
  <2>2. Answers(receipts[b], chunk[b])
    BY <2>1 DEF FleetInv, ReceiptsInv
  <2>3. ops \in SUBSET Ops /\ ops \subseteq {o \in lines : status[o] = "pending"}
    BY <1>2, <2>1 DEF QP!Pending
  <2> DEFINE v == [o \in ops |-> receipts[b][o]]
  <2>4. /\ v \in [ops -> Verdicts]
        /\ \A o \in ops : v[o] \in {"committed", "duplicate"} =>
             o \in {x \in Ops : db.applied[x] = "committed"}
    BY <2>1, <2>2, <2>3 DEF Answers
  <2>5. status' = [o \in Ops |-> IF o \in ops THEN v[o] ELSE status[o]]
    BY <2>1
  <2> HIDE DEF v
  <2>6. Abstract!Learn(ops)
    BY <1>2, <2>1, <2>3, <2>4, <2>5 DEF Abstract!Learn, QP!Accepted
  <2> QED
    BY <2>3, <2>6 DEF Abstract!Next
<1> QED
  BY <1>1, <1>3, <1>4, <1>5

\* A batch takes effect as a whole, and only ops that were accepted are in it.
LEMMA CommitIsAbstract ==
  ASSUME HP!IInv, HP!BatchInv, FleetInv, UNCHANGED queueVars, Hub!CommitBatch
  PROVE  Abstract!Next
<1> DEFINE applied == {o \in Ops : db.applied[o] = "committed"}
<1>0. PICK new \in SUBSET Ops :
        new = {o \in Ops : work.applied[o] = "committed"} \ applied
  OBVIOUS
<1>1. db' = work /\ UNCHANGED <<lines, seq, status>>
  BY DEF Hub!CommitBatch, queueVars
<1>2. new \subseteq {o \in Ops : seq[o] > 0} \ applied
  BY <1>0, CommitFacts DEF FleetInv, AcceptedInv, QP!Accepted
<1>3. {o \in Ops : db'.applied[o] = "committed"} = applied \cup new
  BY <1>0, <1>1, CommitFacts
<1>4. Abstract!Apply(new)
  BY <1>1, <1>2, <1>3 DEF Abstract!Apply
<1> QED
  BY <1>4 DEF Abstract!Next

LEMMA OthersAreNone ==
  ASSUME UNCHANGED queueVars, UNCHANGED db
  PROVE  UNCHANGED Abstract!vars
BY DEF queueVars, Abstract!vars

LEMMA NextAbstract == IInv /\ [Next]_vars => [Abstract!Next]_(Abstract!vars)
<1> SUFFICES ASSUME IInv, [Next]_vars
             PROVE  [Abstract!Next]_(Abstract!vars)
  OBVIOUS
<1>0. QP!IInv /\ QP!LineInv /\ HP!IInv /\ HP!BatchInv /\ FleetInv
  BY DEF IInv
<1>1. CASE Local
  <2>1. QP!Next /\ UNCHANGED db
    BY <1>1, LocalIsQueueStep DEF hubVars
  <2> QED
    BY <1>0, <2>1, QueueStepIsAbstract
<1>2. ASSUME NEW b \in Brokers, Send(b) \/ Receive(b) \/ GiveUp(b) \/ BrokerDies(b)
      PROVE  [Abstract!Next]_(Abstract!vars)
  <2>1. QP!Next
    BY <1>0, <1>2, SendIsQueueStep, ReceiveIsQueueStep, StoppedIsQueueStep
  <2>2. UNCHANGED db
    BY <1>2, StoppedIsQueueStep DEF Send, Receive, hubVars
  <2> QED
    BY <1>0, <2>1, <2>2, QueueStepIsAbstract
<1>3. ASSUME NEW c \in inbox, Lose(c) \/ Refuse(c) \/ Serve(c) \/ ServeAgain(c)
      PROVE  [Abstract!Next]_(Abstract!vars)
  <2>1. UNCHANGED queueVars /\ UNCHANGED db
    BY <1>3 DEF Lose, Refuse, Serve, ServeAgain, Hub!Begin, hubVars
  <2> QED
    BY <2>1, OthersAreNone
<1>4. CASE HubStep
  <2>1. UNCHANGED queueVars
    BY <1>4 DEF HubStep
  <2>2. CASE Hub!ApplyOp
    <3>1. UNCHANGED db
      BY <1>0, <2>2, ApplyKeeps DEF HP!OneOp
    <3> QED
      BY <2>1, <3>1, OthersAreNone
  <2>3. CASE Hub!CommitBatch
    BY <1>0, <2>1, <2>3, CommitIsAbstract
  <2> QED
    BY <1>4, <2>2, <2>3 DEF HubStep
<1>5. CASE Reply \/ HubDies
  <2>1. UNCHANGED queueVars /\ UNCHANGED db
    BY <1>5 DEF Reply, HubDies, Hub!Reply, Hub!Abort, Hub!LoseReply, Hub!Clear
  <2> QED
    BY <2>1, OthersAreNone
<1>6. CASE UNCHANGED vars
  <2>1. UNCHANGED queueVars /\ UNCHANGED db
    BY <1>6 DEF vars, hubVars
  <2> QED
    BY <2>1, OthersAreNone
<1> QED
  BY <1>1, <1>2, <1>3, <1>4, <1>5, <1>6 DEF Next

--------------------------------------------------------------------------------

\* In every state a broker waits for at most one call, which is in one place, and
\* the receipts it records are a verdict for each op of its chunk, a success only
\* of an op that is committed at the hub; and no op takes effect there that was
\* not first durable in the queue.
THEOREM Invariance == Spec => []IInv
BY InitInv, NextInv, PTL DEF Spec

\* The queue, the hub and the calls between them implement the exactly-once
\* contract (apply_ops answers a replay from op_receipts, flush records receipts
\* under the file lock): whatever is lost, late, killed or sent again, an op
\* takes effect at most once and its recorded verdict is a success only if it did.
THEOREM Refinement == Spec => ImplementsExactlyOnce
<1>1. Init => Abstract!Init
  BY InitAbstract
<1>2. IInv /\ [Next]_vars => [Abstract!Next]_(Abstract!vars)
  BY NextAbstract
<1>3. Spec => []IInv
  BY Invariance
<1> QED
  BY <1>1, <1>2, <1>3, PTL DEF Spec, ImplementsExactlyOnce, Abstract!Spec

================================================================================
