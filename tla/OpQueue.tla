-------------------------------- MODULE OpQueue --------------------------------
(***************************************************************************)
(* The client half of the durable typed operation queue:                   *)
(* skills/memory/scripts/fleet/opqueue.py.  One principal's queue file is  *)
(* shared by short-lived processes: hooks and CLI commands that enqueue    *)
(* (Writers) and broker moments that flush (Brokers).  Any of them may be  *)
(* killed between two steps.                                               *)
(*                                                                         *)
(* A line of the file is named by the op_id it carries.  The order of the  *)
(* lines is the order of their client_seq: enqueue appends last + 1 and    *)
(* the rewrites keep the order.  Fragments a crash left behind are counted *)
(* and never parsed, as _read_file does.                                   *)
(***************************************************************************)
EXTENDS Naturals, FiniteSets, FiniteSetsExt

CONSTANTS
  Ops,          \* op_ids: uuid4 hex, each minted once
  Writers,      \* processes that call enqueue
  Brokers,      \* processes that call flush
  None,         \* no process, no op, no key
  Keys,         \* dedup keys of captured events
  KeyOf,        \* the dedup_key an op is enqueued with, or None
  Verdicts,     \* the statuses a hub receipt can carry
  FlushChunk,   \* ops sent in one call: _FLUSH_CHUNK, or all (ops-flush --local)
  MaxLines      \* the byte bound of the file, in lines

Procs == Writers \cup Brokers

ASSUME ProcsAssumption ==
  /\ Writers \cap Brokers = {}
  /\ None \notin Procs \cup Ops \cup Keys
ASSUME OpsAssumption == IsFiniteSet(Ops)
ASSUME KeysAssumption == KeyOf \in [Ops -> Keys \cup {None}]
ASSUME VerdictsAssumption == "pending" \notin Verdicts
ASSUME BoundsAssumption == FlushChunk \in Nat \ {0} /\ MaxLines \in Nat \ {0}

VARIABLES
  lines,        \* op_ids with a well-formed line in the file
  seq,          \* client_seq written on an op's line (0: never written)
  status,       \* status on an op's line
  torn,         \* fragments of lines in the file
  tail,         \* what follows the last newline of the file
  lock,         \* holder of the inter-process lock, or None
  pc,           \* where each process is
  cur,          \* the op a writer is enqueuing
  nextSeq,      \* the client_seq a writer computed from what it read
  seen,         \* the file as read at the start of a process's locked rewrite
  rows,         \* what is left of a broker's snapshot of the pending ops
  chunk,        \* the ops of a broker's hub call
  receipts      \* the verdicts a broker got and has not recorded

VARIABLES
  unminted,     \* op_ids not yet handed out by uuid4
  aged,         \* ops whose line is older than the age bound
  acked,        \* ops whose enqueue returned normally
  reaped        \* ops whose line was dropped by age

fileVars == <<lines, seq, status, torn, tail>>
procVars == <<pc, cur, nextSeq, seen, rows, chunk, receipts>>
timeVars == <<unminted, aged, acked, reaped>>
vars == <<fileVars, lock, procVars, timeVars>>

Statuses == Verdicts \cup {"pending"}
Tails == {"newline", "fragment", "entry"}

File == [lines : SUBSET Ops, status : [Ops -> Statuses]]

TypeOK ==
  /\ lines \subseteq Ops
  /\ seq \in [Ops -> Nat]
  /\ status \in [Ops -> Statuses]
  /\ torn \in Nat
  /\ tail \in Tails
  /\ lock \in Procs \cup {None}
  /\ pc \in [Procs -> {"idle", "reap", "append", "return",
                       "send", "wait", "mark", "write"}]
  /\ cur \in [Writers -> Ops \cup {None}]
  /\ nextSeq \in [Writers -> Nat]
  /\ seen \in [Procs -> File]
  /\ rows \in [Brokers -> SUBSET Ops]
  /\ chunk \in [Brokers -> SUBSET Ops]
  /\ receipts \in [Brokers -> [Ops -> Statuses]]
  /\ unminted \subseteq Ops
  /\ aged \subseteq Ops
  /\ acked \subseteq Ops
  /\ reaped \subseteq Ops

NoFile == [lines |-> {}, status |-> [o \in Ops |-> "pending"]]

Init ==
  /\ lines = {} /\ torn = 0 /\ tail = "newline"
  /\ seq = [o \in Ops |-> 0]
  /\ status = [o \in Ops |-> "pending"]
  /\ lock = None
  /\ pc = [p \in Procs |-> "idle"]
  /\ cur = [w \in Writers |-> None]
  /\ nextSeq = [w \in Writers |-> 0]
  /\ seen = [p \in Procs |-> NoFile]
  /\ rows = [b \in Brokers |-> {}]
  /\ chunk = [b \in Brokers |-> {}]
  /\ receipts = [b \in Brokers |-> NoFile.status]
  /\ unminted = Ops
  /\ aged = {} /\ acked = {} /\ reaped = {}

--------------------------------------------------------------------------------
(* The file.                                                               *)

Contents == [lines |-> lines, status |-> status]

\* seqs[-1] + 1 of the lines read, 1 when there is none.
SeqAfter(ls) == IF ls = {} THEN 1 ELSE Max({seq[o] : o \in ls}) + 1

\* Variant: only an entry that is still pending suppresses a replay.
DedupPending(ls, o) ==
  KeyOf[o] # None /\ \E x \in ls : KeyOf[x] = KeyOf[o] /\ status[x] = "pending"

\* _dedup_live: any line with the key, whatever its status.
DedupHit(ls, o) == KeyOf[o] # None /\ \E x \in ls : KeyOf[x] = KeyOf[o]

\* The projected size bound: the file and one more entry.
Fits == Cardinality(lines) + torn < MaxLines

\* _write_entries: the whole file is replaced; fragments move to its end.
Rewrite(ls, st) ==
  /\ lines' = ls
  /\ status' = [o \in Ops |-> IF o \in ls THEN st[o] ELSE "pending"]
  /\ tail' = IF torn = 0 THEN "newline" ELSE "fragment"

\* Variant: no fusion guard.  The new line and what it is fused with are one
\* line nobody can parse.
AppendFused(o, s, end) ==
  /\ lines' = CASE tail = "newline"  -> lines \cup {o}
               [] tail = "fragment" -> lines
               [] tail = "entry"    -> {x \in lines : \E y \in lines : seq[x] < seq[y]}
  /\ seq' = [seq EXCEPT ![o] = s]
  /\ status' = [status EXCEPT ![o] = "pending"]
  /\ tail' = end

\* The append with its fusion guard: what precedes the new line is closed first,
\* so that neither a fragment nor an unterminated entry is fused with it.
AppendLine(o, s, end) ==
  /\ lines' = lines \cup {o}
  /\ seq' = [seq EXCEPT ![o] = s]
  /\ status' = [status EXCEPT ![o] = "pending"]
  /\ tail' = end

\* Variant: the read-modify-write windows take no lock.
NoLock(p) == TRUE

LockIsFree(p) == lock = None

--------------------------------------------------------------------------------
(* enqueue.                                                                *)

\* Lock, look for the dedup key, read the last client_seq.
EnqueueLock(w, o) ==
  /\ pc[w] = "idle" /\ o \in unminted
  /\ LockIsFree(w)
  /\ unminted' = unminted \ {o}
  /\ ~ DedupHit(lines, o)
  /\ lock' = w
  /\ pc' = [pc EXCEPT ![w] = "reap"]
  /\ cur' = [cur EXCEPT ![w] = o]
  /\ nextSeq' = [nextSeq EXCEPT ![w] = SeqAfter(lines)]
  /\ seen' = [seen EXCEPT ![w] = Contents]
  /\ UNCHANGED <<fileVars, rows, chunk, receipts, aged, acked, reaped>>

\* The existing entry is returned: the lock is taken and released, and the
\* op_id is never minted.
EnqueueDedup(w, o) ==
  /\ pc[w] = "idle" /\ o \in unminted
  /\ LockIsFree(w)
  /\ DedupHit(lines, o)
  /\ unminted' = unminted \ {o}
  /\ UNCHANGED <<fileVars, lock, procVars, aged, acked, reaped>>

\* _reap_expired: every line past the age bound goes, whatever its status.
EnqueueReap(w) ==
  LET old == seen[w].lines \cap aged IN
  /\ pc[w] = "reap"
  /\ pc' = [pc EXCEPT ![w] = "append"]
  /\ IF old = {} THEN UNCHANGED <<lines, status, tail, reaped>>
     ELSE /\ Rewrite(seen[w].lines \ old, seen[w].status)
          /\ reaped' = reaped \cup old
  /\ seen' = [seen EXCEPT ![w] = NoFile]
  /\ UNCHANGED <<seq, torn, lock, cur, nextSeq, rows, chunk, receipts,
                 unminted, aged, acked>>

\* QueueOverflowError: raised after the reap, before the append.
EnqueueRefuse(w) ==
  /\ pc[w] = "append" /\ ~ Fits
  /\ pc' = [pc EXCEPT ![w] = "idle"]
  /\ cur' = [cur EXCEPT ![w] = None]
  /\ nextSeq' = [nextSeq EXCEPT ![w] = 0]
  /\ lock' = None
  /\ UNCHANGED <<fileVars, seen, rows, chunk, receipts, timeVars>>

EnqueueAppend(w) ==
  /\ pc[w] = "append" /\ Fits
  /\ pc' = [pc EXCEPT ![w] = "return"]
  /\ AppendLine(cur[w], nextSeq[w], "newline")
  /\ UNCHANGED <<torn, lock, cur, nextSeq, seen, rows, chunk, receipts, timeVars>>

\* After the fsync: the lock is released and the caller gets its entry.
EnqueueReturn(w) ==
  /\ pc[w] = "return"
  /\ pc' = [pc EXCEPT ![w] = "idle"]
  /\ acked' = acked \cup {cur[w]}
  /\ cur' = [cur EXCEPT ![w] = None]
  /\ nextSeq' = [nextSeq EXCEPT ![w] = 0]
  /\ lock' = None
  /\ UNCHANGED <<fileVars, seen, rows, chunk, receipts,
                 unminted, aged, reaped>>

--------------------------------------------------------------------------------
(* flush and mark_receipts.                                                *)

Pending == {o \in lines : status[o] = "pending"}

\* Variant: the whole backlog in one hub call.
WholeBacklog(rs) == rs

\* The ops of the next hub call: the oldest FlushChunk rows of the snapshot.
Chunk(rs) ==
  {o \in rs : Cardinality({x \in rs : seq[x] < seq[o]}) < FlushChunk}

\* pending(): read without the lock.
FlushStart(b) ==
  /\ pc[b] = "idle" /\ Pending # {}
  /\ rows' = [rows EXCEPT ![b] = Pending]
  /\ pc' = [pc EXCEPT ![b] = "send"]
  /\ UNCHANGED <<fileVars, lock, cur, nextSeq, seen, chunk, receipts, timeVars>>

\* One hub call; no lock is held while it lasts.
FlushSend(b) ==
  /\ pc[b] = "send"
  /\ chunk' = [chunk EXCEPT ![b] = Chunk(rows[b])]
  /\ rows' = [rows EXCEPT ![b] = @ \ Chunk(@)]
  /\ pc' = [pc EXCEPT ![b] = "wait"]
  /\ UNCHANGED <<fileVars, lock, cur, nextSeq, seen, receipts, timeVars>>

\* The hub answered ok with one receipt per op of the call.
FlushAnswer(b, rc) ==
  /\ pc[b] = "wait"
  /\ receipts' = [receipts EXCEPT ![b] = rc]
  /\ pc' = [pc EXCEPT ![b] = "mark"]
  /\ UNCHANGED <<fileVars, lock, cur, nextSeq, seen, rows, chunk, timeVars>>

\* No answer before the deadline, or a refusal: the rest is not sent.
FlushBreak(b) ==
  /\ pc[b] = "wait"
  /\ pc' = [pc EXCEPT ![b] = "idle"]
  /\ rows' = [rows EXCEPT ![b] = {}]
  /\ chunk' = [chunk EXCEPT ![b] = {}]
  /\ UNCHANGED <<fileVars, lock, cur, nextSeq, seen, receipts, timeVars>>

MarkLock(b) ==
  /\ pc[b] = "mark"
  /\ LockIsFree(b)
  /\ lock' = b
  /\ seen' = [seen EXCEPT ![b] = Contents]
  /\ pc' = [pc EXCEPT ![b] = "write"]
  /\ UNCHANGED <<fileVars, cur, nextSeq, rows, chunk, receipts, timeVars>>

\* Variant: every receipt is written, whatever the line says.
MarkedAny(b, f) == f.lines \cap chunk[b]

\* Only lines still pending take the receipt.
Marked(b, f) == {o \in f.lines \cap chunk[b] : f.status[o] = "pending"}

MarkWrite(b) ==
  LET marked == Marked(b, seen[b]) IN
  /\ pc[b] = "write"
  /\ IF marked = {} THEN UNCHANGED <<lines, status, tail>>
     ELSE Rewrite(seen[b].lines,
                  [o \in Ops |-> IF o \in marked THEN receipts[b][o]
                                 ELSE seen[b].status[o]])
  /\ lock' = None
  /\ seen' = [seen EXCEPT ![b] = NoFile]
  /\ chunk' = [chunk EXCEPT ![b] = {}]
  /\ receipts' = [receipts EXCEPT ![b] = NoFile.status]
  /\ pc' = [pc EXCEPT ![b] = IF rows[b] = {} THEN "idle" ELSE "send"]
  /\ UNCHANGED <<seq, torn, cur, nextSeq, rows, timeVars>>

--------------------------------------------------------------------------------
(* The environment.                                                        *)

\* The kernel drops a dead process's lock.  What the process read is gone.
Die(p) ==
  /\ pc[p] # "idle"
  /\ pc' = [pc EXCEPT ![p] = "idle"]
  /\ lock' = IF lock = p THEN None ELSE lock
  /\ cur' = IF p \in Writers THEN [cur EXCEPT ![p] = None] ELSE cur
  /\ rows' = IF p \in Brokers THEN [rows EXCEPT ![p] = {}] ELSE rows
  /\ chunk' = IF p \in Brokers THEN [chunk EXCEPT ![p] = {}] ELSE chunk
  /\ receipts' = IF p \in Brokers
                 THEN [receipts EXCEPT ![p] = NoFile.status] ELSE receipts
  /\ seen' = [seen EXCEPT ![p] = NoFile]
  /\ nextSeq' = IF p \in Writers THEN [nextSeq EXCEPT ![p] = 0] ELSE nextSeq
  /\ UNCHANGED timeVars

\* Killed between two steps: the rewrites replace the file in one rename.
Crash(p) == Die(p) /\ UNCHANGED fileVars

\* Killed inside the append: the guard's newline alone, a fragment of the
\* line, or the whole line without its newline reached the disk.
CrashInAppend(w) ==
  /\ pc[w] = "append" /\ Fits
  /\ Die(w)
  /\ \/ tail' = "newline" /\ tail # "newline"
        /\ UNCHANGED <<lines, seq, status, torn>>
     \/ tail' = "fragment" /\ torn' = torn + 1
        /\ UNCHANGED <<lines, seq, status>>
     \/ AppendLine(cur[w], nextSeq[w], "entry")
        /\ UNCHANGED torn

\* enqueued_at is read under the lock, so the oldest line ages first.
Age(o) ==
  /\ o \in lines \ aged
  /\ \A x \in lines : seq[x] < seq[o] => x \in aged
  /\ aged' = aged \cup {o}
  /\ UNCHANGED <<fileVars, lock, procVars, unminted, acked, reaped>>

--------------------------------------------------------------------------------

WriterStep(w) ==
  \/ \E o \in Ops : EnqueueLock(w, o)
  \/ \E o \in Ops : EnqueueDedup(w, o)
  \/ EnqueueReap(w)
  \/ EnqueueRefuse(w)
  \/ EnqueueAppend(w)
  \/ EnqueueReturn(w)
  \/ CrashInAppend(w)

BrokerStep(b) ==
  \/ FlushStart(b)
  \/ FlushSend(b)
  \/ FlushBreak(b)
  \/ MarkLock(b)
  \/ MarkWrite(b)

\* On its own the queue takes any verdict for any op of a call.
AnyAnswer(b) ==
  \E v \in [chunk[b] -> Verdicts] :
     FlushAnswer(b, [o \in Ops |-> IF o \in chunk[b] THEN v[o] ELSE "pending"])

Next ==
  \/ \E w \in Writers : WriterStep(w)
  \/ \E b \in Brokers : BrokerStep(b) \/ AnyAnswer(b)
  \/ \E p \in Procs : Crash(p)
  \/ \E o \in Ops : Age(o)

Spec == Init /\ [][Next]_vars

--------------------------------------------------------------------------------
(* What the queue promises.                                                *)

\* "enqueue refused (never silently dropped)": an entry the caller was told is
\* queued is in the file until the age bound drops it, whatever crashes,
\* rewrites and torn appends came in between.
NoSilentLoss == acked \subseteq lines \cup reaped

\* Capture replay suppression: two lines of the file never carry one dedup key,
\* however many hooks replay the same event at once.
OneLinePerKey ==
  \A a, b \in lines : KeyOf[a] # None /\ KeyOf[a] = KeyOf[b] => a = b

\* Two lines of the file never carry the same client_seq, so their order is the
\* order in which they were enqueued.
SeqsDistinct == \A a, b \in lines : seq[a] = seq[b] => a = b

\* mark_receipts retires an entry once: no later receipt and no rewrite from an
\* older reading of the file changes a recorded verdict or makes it pending again.
VerdictsFinal ==
  [][\A o \in lines \cap lines' : status[o] # "pending" => status'[o] = status[o]]_vars

\* A dropped line never comes back, so a reaped op is not sent after all.
ReapedStaysGone == [][\A o \in Ops \ lines : o \in reaped => o \notin lines']_vars

================================================================================
