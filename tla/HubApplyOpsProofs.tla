--------------------------- MODULE HubApplyOpsProofs ---------------------------
(***************************************************************************)
(* Proofs about the hub's apply_ops, for any ops, rows, namespaces, texts, *)
(* callers and batches, and any other client of the hub.                   *)
(*                                                                         *)
(* The argument: a database is sound (Sound) when each row an op minted is *)
(* of an op recorded as committed, and only rows that left have            *)
(* successors.  Every write takes a sound database to a sound one that     *)
(* grows out of it (Grows) and differs from it within the caller's scope   *)
(* (Within).  Both relations compose, so they hold between the committed   *)
(* database and the transaction's copy after any number of ops (TxnInv),   *)
(* and the commit, which publishes the copy, inherits them.                *)
(***************************************************************************)
EXTENDS HubApplyOps, TLAPS

\* What a database of the hub satisfies whichever batches it went through.
OneRow(w) == w.live \cap w.dead = {}

\* A row named by an op is there only if that op is recorded as committed.
Minted(w) == \A o \in Ops : o \in w.live \cup w.dead => w.applied[o] = "committed"

\* An op counts as having changed the memory table once, when it commits.
Counted(w) == \A o \in Ops : /\ w.effects[o] <= 1
                             /\ w.applied[o] # "committed" => w.effects[o] = 0

Ordered(w) == \A o \in Ops : w.applied[o] = "committed" /\ cmd[o].dep # None
                               => w.applied[cmd[o].dep] = "committed"

\* A row that has a successor is dead, and has only one.
Succession(w) ==
  \A r \in w.live \cup w.dead :
    w.parent[r] # None =>
      /\ w.parent[r] \in w.dead
      /\ \A s \in w.live \cup w.dead : w.parent[s] = w.parent[r] => s = r

Sound(w) == OneRow(w) /\ Minted(w) /\ Counted(w) /\ Ordered(w) /\ Succession(w)

\* v comes later in the history of the same store than w.
Grows(w, v) ==
  /\ w.dead \subseteq v.dead
  /\ w.live \cup w.dead \subseteq v.live \cup v.dead
  /\ \A r \in w.live \cup w.dead : v.text[r] = w.text[r] /\ v.ns[r] = w.ns[r]
  /\ \A o \in Ops : w.applied[o] # "none"
                      => v.applied[o] = w.applied[o] /\ v.canon[o] = w.canon[o]

\* Rows that appeared or left between w and v are in the caller's scope.
Within(w, v) ==
  \A r \in Rows : (r \in w.live /\ r \notin v.live) \/ (r \notin w.live /\ r \in v.live)
                    => v.ns[r] \in principal.scope

\* The transaction's copy is ahead of the database only while ops are applied.
TxnInv ==
  /\ phase # "apply" => work = db
  /\ Grows(db, work) /\ Within(db, work)

\* A receipt is about a commit of the copy, and what was told of the database.
ReceiptInv ==
  /\ \A o \in settled : work.applied[o] = "committed"
  /\ \A o \in Ops : out[o] \in {"committed", "duplicate"}
                      => work.applied[o] = "committed"
  /\ \A o \in told : db.applied[o] = "committed"

\* The ops of the batch, and how far the transaction is: the ops with a receipt,
\* and those whose commit is not in the database yet, are of the batch.
OpsOf(ops) == {ops[i] : i \in 1..Len(ops)}

BatchInv ==
  /\ \A o \in Ops : out[o] # "none" <=> \E i \in 1..(at - 1) : batch[i] = o
  /\ \A o \in Ops : work.applied[o] # db.applied[o] => o \in OpsOf(batch)
  /\ phase = "reply" => at > Len(batch)
  /\ phase = "idle" => batch = <<>>

IInv == TypeOK /\ Sound(db) /\ Sound(work) /\ TxnInv /\ ReceiptInv

--------------------------------------------------------------------------------
(* The writes, field by field.                                             *)

LEMMA TombstoneIs ==
  ASSUME NEW w \in Db, NEW t \in Rows
  PROVE  LET v == Tombstone(w, t)
         IN  /\ v \in Db
             /\ v.live = w.live \ {t} /\ v.dead = w.dead \cup {t}
             /\ v.ns = w.ns /\ v.text = w.text /\ v.parent = w.parent
             /\ v.applied = w.applied /\ v.canon = w.canon /\ v.effects = w.effects
BY DEF Tombstone, Db

LEMMA InsertIs ==
  ASSUME NEW w \in Db, NEW r \in Rows, NEW ns \in Namespaces, NEW text \in Texts,
         NEW expiry \in Expiries \cup {None}, NEW p \in Rows \cup {None}
  PROVE  LET v == Insert(w, r, ns, text, expiry, p)
         IN  /\ v \in Db
             /\ v.live = w.live \cup {r} /\ v.dead = w.dead
             /\ v.ns = [w.ns EXCEPT ![r] = ns]
             /\ v.text = [w.text EXCEPT ![r] = text]
             /\ v.parent = [w.parent EXCEPT ![r] = p]
             /\ v.applied = w.applied /\ v.canon = w.canon /\ v.effects = w.effects
BY DEF Insert, Db

LEMMA CommitIs ==
  ASSUME NEW w \in Db, NEW o \in Ops, NEW r \in Rows
  PROVE  LET v == Commit(w, o, r)
         IN  /\ v \in Db
             /\ v.live = w.live /\ v.dead = w.dead
             /\ v.ns = w.ns /\ v.text = w.text /\ v.parent = w.parent
             /\ v.applied = [w.applied EXCEPT ![o] = "committed"]
             /\ v.canon = [w.canon EXCEPT ![o] = r]
             /\ v.effects = [w.effects EXCEPT ![o] = @ + 1]
<1>1. /\ w.effects \in [Ops -> Nat] /\ w.effects[o] + 1 \in Nat
      /\ [w.effects EXCEPT ![o] = @ + 1] \in [Ops -> Nat]
  BY DEF Db
<1> QED
  BY <1>1 DEF Commit, Db

--------------------------------------------------------------------------------
(* Growing.                                                                *)

LEMMA GrowsReflexive == ASSUME NEW w PROVE Grows(w, w) /\ Within(w, w)
BY DEF Grows, Within

LEMMA GrowsTransitive ==
  ASSUME NEW u \in Db, NEW v \in Db, NEW w \in Db, Grows(u, v), Grows(v, w)
  PROVE  Grows(u, w)
BY DEF Grows

LEMMA WithinTransitive ==
  ASSUME NEW u \in Db, NEW v \in Db, NEW w \in Db,
         Grows(u, v), Grows(v, w), Within(u, v), Within(v, w)
  PROVE  Within(u, w)
<1> SUFFICES ASSUME NEW r \in Rows,
                    (r \in u.live /\ r \notin w.live) \/ (r \notin u.live /\ r \in w.live)
             PROVE  w.ns[r] \in principal.scope
  BY DEF Within
<1>1. CASE r \in v.live <=> r \in w.live
  <2>1. v.ns[r] \in principal.scope
    BY <1>1 DEF Within
  <2>2. r \in v.live \cup v.dead
    BY <1>1 DEF Grows
  <2> QED
    BY <2>1, <2>2 DEF Grows
<1>2. CASE ~ (r \in v.live <=> r \in w.live)
  BY <1>2 DEF Within
<1> QED
  BY <1>1, <1>2

--------------------------------------------------------------------------------
(* What each write keeps.                                                  *)

LEMMA CmdType ==
  ASSUME TypeOK, NEW o \in Ops
  PROVE  /\ cmd[o] \in Cmd /\ cmd[o].kind \in Kinds
         /\ cmd[o].ns \in Namespaces \cup {None} /\ cmd[o].text \in Texts \cup {None}
         /\ cmd[o].expiry \in Expiries \cup {None}
         /\ cmd[o].id \in Rows \cup {None} /\ cmd[o].via \in Ops \cup {None}
         /\ cmd[o].dep \in Ops \cup {None}
         /\ None \notin Rows /\ None \notin Ops /\ Ops \subseteq Rows
<1>1. cmd[o] \in Cmd
  BY DEF TypeOK
<1>2. None \notin Rows /\ None \notin Ops /\ Ops \subseteq Rows
  BY HubConstants DEF Rows
<1> QED
  BY <1>1, <1>2 DEF Cmd

LEMMA TombstoneKeeps ==
  ASSUME NEW w \in Db, NEW t \in w.live, Sound(w)
  PROVE  /\ Tombstone(w, t) \in Db /\ Sound(Tombstone(w, t)) /\ Grows(w, Tombstone(w, t))
         /\ w.ns[t] \in principal.scope => Within(w, Tombstone(w, t))
<1>1. t \in Rows
  BY DEF Db
<1> DEFINE v == Tombstone(w, t)
<1>2. /\ v \in Db
      /\ v.live = w.live \ {t} /\ v.dead = w.dead \cup {t}
      /\ v.ns = w.ns /\ v.text = w.text /\ v.parent = w.parent
      /\ v.applied = w.applied /\ v.canon = w.canon /\ v.effects = w.effects
  BY <1>1, TombstoneIs
<1> HIDE DEF v
<1>3. v.live \cup v.dead = w.live \cup w.dead
  BY <1>2
<1>4. OneRow(v) /\ Minted(v)
  BY <1>2, <1>3 DEF Sound, OneRow, Minted
<1>5. Counted(v) /\ Ordered(v)
  BY <1>2 DEF Sound, Counted, Ordered
<1>6. Succession(v)
  BY <1>2, <1>3 DEF Sound, Succession
<1>7. Grows(w, v)
  BY <1>2, <1>3 DEF Grows
<1>8. w.ns[t] \in principal.scope => Within(w, v)
  BY <1>2 DEF Within
<1> QED
  BY <1>2, <1>4, <1>5, <1>6, <1>7, <1>8 DEF Sound, v

\* An op with no verdict yet commits without a row of its own.
LEMMA CommitKeeps ==
  ASSUME TypeOK, NEW w \in Db, NEW o \in Ops, NEW r \in Rows, Sound(w),
         w.applied[o] = "none",
         cmd[o].dep # None => w.applied[cmd[o].dep] = "committed"
  PROVE  /\ Commit(w, o, r) \in Db /\ Sound(Commit(w, o, r))
         /\ Grows(w, Commit(w, o, r)) /\ Within(w, Commit(w, o, r))
<1> DEFINE v == Commit(w, o, r)
<1>1. /\ v \in Db
      /\ v.live = w.live /\ v.dead = w.dead
      /\ v.ns = w.ns /\ v.text = w.text /\ v.parent = w.parent
      /\ v.applied = [w.applied EXCEPT ![o] = "committed"]
      /\ v.canon = [w.canon EXCEPT ![o] = r]
      /\ v.effects = [w.effects EXCEPT ![o] = @ + 1]
  BY CommitIs
<1> HIDE DEF v
<1>2. /\ w.applied \in [Ops -> {"none", "committed", "rejected"}]
      /\ w.effects \in [Ops -> Nat] /\ w.canon \in [Ops -> Rows \cup {None}]
  BY DEF Db
<1>3. OneRow(v) /\ Minted(v)
  BY <1>1, <1>2 DEF Sound, OneRow, Minted
<1>4. Counted(v)
  BY <1>1, <1>2 DEF Sound, Counted
<1>5. Ordered(v)
  BY <1>1, <1>2, CmdType DEF Sound, Ordered
<1>6. Succession(v)
  BY <1>1 DEF Sound, Succession
<1>7. Grows(w, v) /\ Within(w, v)
  BY <1>1, <1>2 DEF Grows, Within
<1> QED
  BY <1>1, <1>3, <1>4, <1>5, <1>6, <1>7 DEF Sound, v

\* The replay guard: a verdict and no write.
LEMMA RecordKeeps ==
  ASSUME TypeOK, NEW w \in Db, NEW o \in Ops, NEW r \in Rows, Sound(w),
         NEW st \in {"committed", "rejected"},
         w.applied[o] = "none",
         cmd[o].dep # None => w.applied[cmd[o].dep] = "committed"
  PROVE  /\ Record(w, o, st, r) \in Db /\ Sound(Record(w, o, st, r))
         /\ Grows(w, Record(w, o, st, r)) /\ Within(w, Record(w, o, st, r))
<1> DEFINE v == Record(w, o, st, r)
<1>1. /\ v \in Db
      /\ v.live = w.live /\ v.dead = w.dead
      /\ v.ns = w.ns /\ v.text = w.text /\ v.parent = w.parent
      /\ v.applied = [w.applied EXCEPT ![o] = st]
      /\ v.canon = [w.canon EXCEPT ![o] = r]
      /\ v.effects = w.effects
  BY DEF Record, Db
<1> HIDE DEF v
<1>2. /\ w.applied \in [Ops -> {"none", "committed", "rejected"}]
      /\ w.effects \in [Ops -> Nat] /\ w.canon \in [Ops -> Rows \cup {None}]
  BY DEF Db
<1>3. OneRow(v) /\ Minted(v)
  BY <1>1, <1>2 DEF Sound, OneRow, Minted
<1>4. Counted(v)
  BY <1>1, <1>2 DEF Sound, Counted
<1>5. Ordered(v)
  BY <1>1, <1>2, CmdType DEF Sound, Ordered
<1>6. Succession(v)
  BY <1>1 DEF Sound, Succession
<1>7. Grows(w, v) /\ Within(w, v)
  BY <1>1, <1>2 DEF Grows, Within
<1> QED
  BY <1>1, <1>3, <1>4, <1>5, <1>6, <1>7 DEF Sound, v

\* An op with no verdict yet commits with the row it minted, new or in the place
\* of a dead one that has no successor.
LEMMA InsertKeeps ==
  ASSUME TypeOK, NEW w \in Db, NEW o \in Ops, Sound(w),
         NEW ns \in Namespaces, NEW text \in Texts,
         NEW expiry \in Expiries \cup {None}, NEW p \in w.dead \cup {None},
         \A s \in w.live \cup w.dead : p # None => w.parent[s] # p,
         w.applied[o] = "none",
         cmd[o].dep # None => w.applied[cmd[o].dep] = "committed"
  PROVE  LET v == Commit(Insert(w, o, ns, text, expiry, p), o, o)
         IN  /\ v \in Db /\ Sound(v) /\ Grows(w, v)
             /\ ns \in principal.scope => Within(w, v)
<1>1. /\ o \in Rows /\ p \in Rows \cup {None} /\ None \notin Rows /\ o \notin w.live \cup w.dead
      /\ w.live \subseteq Rows /\ w.dead \subseteq Rows
  BY CmdType DEF Db, Sound, Minted
<1> DEFINE u == Insert(w, o, ns, text, expiry, p)
           v == Commit(u, o, o)
<1>2. /\ u \in Db
      /\ u.live = w.live \cup {o} /\ u.dead = w.dead
      /\ u.ns = [w.ns EXCEPT ![o] = ns]
      /\ u.text = [w.text EXCEPT ![o] = text]
      /\ u.parent = [w.parent EXCEPT ![o] = p]
      /\ u.applied = w.applied /\ u.canon = w.canon /\ u.effects = w.effects
  BY <1>1, InsertIs
<1> HIDE DEF u
<1>3. /\ v \in Db
      /\ v.live = u.live /\ v.dead = u.dead
      /\ v.ns = u.ns /\ v.text = u.text /\ v.parent = u.parent
      /\ v.applied = [u.applied EXCEPT ![o] = "committed"]
      /\ v.canon = [u.canon EXCEPT ![o] = o]
      /\ v.effects = [u.effects EXCEPT ![o] = @ + 1]
  <2>1. u \in Db /\ o \in Rows
    BY <1>1, <1>2
  <2> QED
    BY <2>1, CommitIs
<1> HIDE DEF v
<1>4. /\ w.applied \in [Ops -> {"none", "committed", "rejected"}]
      /\ w.effects \in [Ops -> Nat] /\ w.canon \in [Ops -> Rows \cup {None}]
      /\ w.ns \in [Rows -> Namespaces] /\ w.text \in [Rows -> Texts]
      /\ w.parent \in [Rows -> Rows \cup {None}]
  BY DEF Db
<1>5. OneRow(v) /\ Minted(v)
  BY <1>1, <1>2, <1>3, <1>4 DEF Sound, OneRow, Minted
<1>6. Counted(v)
  BY <1>2, <1>3, <1>4 DEF Sound, Counted
<1>7. Ordered(v)
  BY <1>2, <1>3, <1>4, CmdType DEF Sound, Ordered
<1>8. Succession(v)
  <2> SUFFICES ASSUME NEW r \in v.live \cup v.dead, v.parent[r] # None
               PROVE  /\ v.parent[r] \in v.dead
                      /\ \A s \in v.live \cup v.dead : v.parent[s] = v.parent[r] => s = r
    BY DEF Succession
  <2>1. CASE r = o
    BY <2>1, <1>1, <1>2, <1>3, <1>4
  <2>2. CASE r # o
    <3>1. r \in w.live \cup w.dead /\ v.parent[r] = w.parent[r]
      BY <2>2, <1>1, <1>2, <1>3, <1>4
    <3>2. /\ w.parent[r] \in w.dead
          /\ \A s \in w.live \cup w.dead : w.parent[s] = w.parent[r] => s = r
      BY <3>1 DEF Sound, Succession
    <3>3. v.parent[o] # v.parent[r]
      BY <3>1, <1>1, <1>2, <1>3, <1>4
    <3> QED
      BY <3>1, <3>2, <3>3, <1>1, <1>2, <1>3, <1>4
  <2> QED
    BY <2>1, <2>2
<1>9. Grows(w, v)
  BY <1>1, <1>2, <1>3, <1>4 DEF Grows
<1>10. ns \in principal.scope => Within(w, v)
  BY <1>1, <1>2, <1>3, <1>4 DEF Within
<1> QED
  BY <1>3, <1>5, <1>6, <1>7, <1>8, <1>9, <1>10 DEF Sound, u, v

--------------------------------------------------------------------------------
(* One op of the batch.                                                    *)

LEMMA InitInv == Init => IInv
<1> SUFFICES ASSUME Init
             PROVE  IInv
  OBVIOUS
<1>1. EmptyDb \in Db
  <2>1. (CHOOSE c \in Texts : TRUE) \in Texts
    BY HubConstants
  <2>2. \A r \in Seeds : /\ SeedRows[r].ns \in Namespaces /\ SeedRows[r].text \in Texts
                         /\ SeedRows[r].expiry \in Expiries \cup {None}
    BY HubConstants
  <2>3. Global \in Namespaces /\ Seeds \subseteq Rows
    BY HubConstants DEF Rows
  <2> QED
    BY <2>1, <2>2, <2>3 DEF EmptyDb, Db, NoRows
<1>2. TypeOK
  <2>1. cmd \in [Ops -> Cmd] /\ \A o \in Ops : cmd[o] \in Cmds[o]
    <3>1. cmd \in [Ops -> UNION {Cmds[o] : o \in Ops}] /\ \A o \in Ops : cmd[o] \in Cmds[o]
      BY DEF Init
    <3>2. \A o \in Ops : Cmds[o] \subseteq Cmd
      BY HubConstants
    <3> QED
      BY <3>1, <3>2
  <2>2. batch \in Seq(Ops) /\ at \in 1..(Len(batch) + 1)
    BY DEF Init
  <2> QED
    BY <1>1, <2>1, <2>2 DEF Init, TypeOK, NoRows, NoReceipts
<1>3. Sound(EmptyDb)
  <2>1. OneRow(EmptyDb) /\ Minted(EmptyDb)
    BY HubConstants DEF EmptyDb, OneRow, Minted
  <2>2. Counted(EmptyDb) /\ Ordered(EmptyDb)
    BY DEF EmptyDb, Counted, Ordered
  <2>3. Succession(EmptyDb)
    BY DEF EmptyDb, Succession, Rows
  <2> QED
    BY <2>1, <2>2, <2>3 DEF Sound
<1>4. TxnInv
  BY GrowsReflexive DEF Init, TxnInv
<1>5. ReceiptInv
  BY DEF Init, ReceiptInv, NoReceipts
<1> QED
  BY <1>2, <1>3, <1>4, <1>5 DEF Init, IInv

LEMMA CurType ==
  ASSUME TypeOK, phase = "apply", at <= Len(batch)
  PROVE  Cur \in Ops
BY DEF TypeOK, Cur

\* Whatever the op asked for: its step keeps the invariant if the database it
\* leaves is sound, grew within the scope, and holds the commit its receipt is of.
LEMMA SettleKeeps ==
  ASSUME IInv, NEW w \in Db, NEW st \in Verdicts, NEW r \in Rows \cup {None},
         Settle(st, w, r), Sound(w), Grows(work, w), Within(work, w),
         st \in {"committed", "duplicate"} => w.applied[Cur] = "committed"
  PROVE  IInv'
<1>1. Cur \in Ops
  BY CurType DEF IInv, Settle
<1>2. /\ work' = w /\ UNCHANGED <<cmd, principal, db, phase, batch, told>>
      /\ phase = "apply"
  BY DEF Settle, caller
<1>3. TypeOK'
  <2>1. out' \in [Ops -> Verdicts \cup {"none"}]
    BY <1>1 DEF Settle, IInv, TypeOK
  <2>2. canonical' \in [Ops -> Rows \cup {None}]
    BY <1>1 DEF Settle, IInv, TypeOK
  <2>3. settled' \subseteq Ops
    BY <1>1 DEF Settle, IInv, TypeOK
  <2>4. at' \in 1..(Len(batch') + 1)
    BY <1>2 DEF Settle, IInv, TypeOK
  <2> QED
    BY <1>2, <2>1, <2>2, <2>3, <2>4 DEF IInv, TypeOK
<1>4. Sound(db)' /\ Sound(work)'
  BY <1>2 DEF IInv, Sound, OneRow, Minted, Counted, Ordered, Succession
<1>5. TxnInv'
  <2>1. db \in Db /\ work \in Db
    BY DEF IInv, TypeOK
  <2>2. Grows(db, w) /\ Within(db, w)
    BY <2>1, GrowsTransitive, WithinTransitive DEF IInv, TxnInv
  <2>3. Grows(db, work)'
    BY <1>2, <2>2 DEF Grows
  <2>4. Within(db, work)'
    BY <1>2, <2>2 DEF Within
  <2> QED
    BY <1>2, <2>3, <2>4 DEF TxnInv
<1>6. ReceiptInv'
  <2>1. \A o \in Ops : work.applied[o] = "committed" => w.applied[o] = "committed"
    BY DEF Grows
  <2>2. \A o \in settled' : w.applied[o] = "committed"
    BY <1>1, <2>1 DEF IInv, TypeOK, ReceiptInv, Settle
  <2>3. \A o \in Ops : out'[o] \in {"committed", "duplicate"} => w.applied[o] = "committed"
    BY <1>1, <2>1 DEF IInv, TypeOK, ReceiptInv, Settle
  <2> QED
    BY <1>2, <2>2, <2>3 DEF IInv, ReceiptInv
<1> QED
  BY <1>3, <1>4, <1>5, <1>6 DEF IInv

\* An op that passed the gates has no verdict yet, and its dependency is committed.
LEMMA AdmittedFacts ==
  ASSUME IInv, phase = "apply", at <= Len(batch), Admitted(Cur)
  PROVE  /\ Cur \in Ops /\ work \in Db /\ Sound(work) /\ TypeOK
         /\ work.applied[Cur] = "none"
         /\ cmd[Cur].dep # None => work.applied[cmd[Cur].dep] = "committed"
<1>1. Cur \in Ops /\ work \in Db /\ Sound(work) /\ TypeOK
  BY CurType DEF IInv, TypeOK
<1>2. work.applied[Cur] = "none"
  BY DEF Admitted, Known
<1>3. cmd[Cur].dep # None => work.applied[cmd[Cur].dep] = "committed"
  BY DEF Admitted, Unblocked, IInv, ReceiptInv
<1> QED
  BY <1>1, <1>2, <1>3

LEMMA RefusalKeeps ==
  ASSUME IInv, NEW st \in {"blocked", "rejected"}, Settle(st, work, None)
  PROVE  IInv'
BY SettleKeeps, GrowsReflexive DEF IInv, TypeOK, Verdicts

LEMMA ReplayKeeps ==
  ASSUME IInv, ApplyReplay
  PROVE  IInv'
<1>1. CASE work.applied[Cur] = "committed"
  <2>1. Cur \in Ops
    BY CurType DEF ApplyReplay, IInv
  <2>2. work \in Db /\ work.canon[Cur] \in Rows \cup {None} /\ Sound(work)
    BY <2>1 DEF IInv, TypeOK, Db
  <2>3. Settle("duplicate", work, work.canon[Cur])
    BY <1>1 DEF ApplyReplay
  <2> QED
    BY <1>1, <2>2, <2>3, SettleKeeps, GrowsReflexive DEF Verdicts
<1>2. CASE work.applied[Cur] # "committed"
  BY <1>2, RefusalKeeps DEF ApplyReplay
<1> QED
  BY <1>1, <1>2

LEMMA FoldKeeps ==
  ASSUME IInv, ApplyFold
  PROVE  IInv'
<1>1. PICK r \in Identical(Cur) :
        IF cmd[Cur].expiry \in {None, work.expiry[r]}
        THEN Settle("committed", Record(work, Cur, "committed", r), r)
        ELSE Settle("rejected", Record(work, Cur, "rejected", r), r)
  BY DEF ApplyFold
<1>2. PICK st \in {"committed", "rejected"} : Settle(st, Record(work, Cur, st, r), r)
  BY <1>1
<1>3. /\ Cur \in Ops /\ work \in Db /\ Sound(work) /\ TypeOK
      /\ work.applied[Cur] = "none"
      /\ cmd[Cur].dep # None => work.applied[cmd[Cur].dep] = "committed"
  BY AdmittedFacts DEF ApplyFold
<1>4. r \in Rows
  BY <1>3 DEF Identical, Db
<1> DEFINE v == Record(work, Cur, st, r)
<1>5. v \in Db /\ Sound(v) /\ Grows(work, v) /\ Within(work, v)
  BY <1>3, <1>4, RecordKeeps
<1>6. st = "committed" => v.applied[Cur] = "committed"
  BY <1>3 DEF Record, Db
<1> HIDE DEF v
<1>7. Settle(st, v, r)
  BY <1>2 DEF v
<1> QED
  BY <1>4, <1>5, <1>6, <1>7, SettleKeeps DEF Verdicts

\* The commits, once the database the op leaves has been dealt with.
LEMMA CommitSettles ==
  ASSUME IInv, NEW w \in Db, NEW r \in Rows, Settle("committed", Commit(w, Cur, r), r),
         Cur \in Ops,
         LET v == Commit(w, Cur, r)
         IN  v \in Db /\ Sound(v) /\ Grows(work, v) /\ Within(work, v)
  PROVE  IInv'
<1> DEFINE v == Commit(w, Cur, r)
<1>1. v.applied[Cur] = "committed"
  BY DEF Commit, Db
<1> HIDE DEF v
<1>2. v \in Db /\ Sound(v) /\ Grows(work, v) /\ Within(work, v) /\ Settle("committed", v, r)
  BY DEF v
<1> QED
  BY <1>1, <1>2, SettleKeeps DEF Verdicts

LEMMA AddKeeps ==
  ASSUME IInv, ApplyAdd
  PROVE  IInv'
<1>1. /\ Cur \in Ops /\ work \in Db /\ Sound(work) /\ TypeOK
      /\ work.applied[Cur] = "none"
      /\ cmd[Cur].dep # None => work.applied[cmd[Cur].dep] = "committed"
  BY AdmittedFacts DEF ApplyAdd
<1>2. Cur \in Rows
  BY <1>1, CmdType
<1>3. CASE Settle("committed",
                  Commit(Insert(work, Cur, Effective(Cur), cmd[Cur].text,
                                cmd[Cur].expiry, None), Cur, Cur), Cur)
  <2> DEFINE w == Insert(work, Cur, Effective(Cur), cmd[Cur].text, cmd[Cur].expiry, None)
  <2>1. /\ Effective(Cur) \in Namespaces /\ Effective(Cur) \in principal.scope
        /\ cmd[Cur].text \in Texts /\ cmd[Cur].expiry \in Expiries \cup {None}
    BY <1>1, CmdType, HubConstants
       DEF ApplyAdd, Admitted, InScope, Effective, Applicable, Storable
  <2>2. w \in Db
    BY <1>1, <1>2, <2>1, InsertIs
  <2>3. LET v == Commit(w, Cur, Cur)
        IN  v \in Db /\ Sound(v) /\ Grows(work, v) /\ Within(work, v)
    BY <1>1, <2>1, InsertKeeps
  <2> HIDE DEF w
  <2>4. Settle("committed", Commit(w, Cur, Cur), Cur)
    BY <1>3 DEF w
  <2> QED
    BY <1>1, <1>2, <2>2, <2>3, <2>4, CommitSettles
<1>4. ASSUME NEW r \in FoldRows(Cur), Settle("committed", Commit(work, Cur, r), r)
      PROVE  IInv'
  <2>1. r \in Rows
    BY <1>1 DEF ApplyAdd, FoldRows, Similar, Db
  <2>2. LET v == Commit(work, Cur, r)
        IN  v \in Db /\ Sound(v) /\ Grows(work, v) /\ Within(work, v)
    BY <1>1, <2>1, CommitKeeps
  <2> QED
    BY <1>1, <1>4, <2>1, <2>2, CommitSettles
<1> QED
  BY <1>3, <1>4 DEF ApplyAdd

\* The target of a mutation is a live row in the caller's scope.
LEMMA TargetFacts ==
  ASSUME IInv, phase = "apply", at <= Len(batch), Admitted(Cur), Applicable(Cur),
         cmd[Cur].kind \in {"update", "supersede", "invalidate"}
  PROVE  LET w == Tombstone(work, Target(Cur))
         IN  /\ Target(Cur) \in work.live /\ Target(Cur) \in Rows
             /\ work.ns[Target(Cur)] \in principal.scope
             /\ w \in Db /\ Sound(w) /\ Grows(work, w) /\ Within(work, w)
             /\ w.applied = work.applied
<1>1. Cur \in Ops /\ work \in Db /\ Sound(work)
  BY AdmittedFacts
<1>2. Target(Cur) \in work.live
  BY DEF Applicable
<1>3. Target(Cur) \in Rows
  BY <1>1, <1>2 DEF Db
<1>4. work.ns[Target(Cur)] \in principal.scope
  BY <1>2 DEF Admitted, InScope
<1> QED
  BY <1>1, <1>2, <1>3, <1>4, TombstoneKeeps, TombstoneIs

LEMMA SupersedeKeeps ==
  ASSUME IInv, ApplySupersede
  PROVE  IInv'
<1> DEFINE t == Target(Cur)
           w == Tombstone(work, t)
           v == Commit(w, Cur, t)
<1>1. /\ Cur \in Ops /\ work \in Db /\ TypeOK
      /\ work.applied[Cur] = "none"
      /\ cmd[Cur].dep # None => work.applied[cmd[Cur].dep] = "committed"
  BY AdmittedFacts DEF ApplySupersede
<1>2. /\ t \in Rows /\ w \in Db /\ Sound(w) /\ Grows(work, w) /\ Within(work, w)
      /\ w.applied = work.applied
  BY TargetFacts DEF ApplySupersede
<1>3. Settle("committed", v, t)
  BY DEF ApplySupersede
<1> HIDE DEF t, w
<1>4. v \in Db /\ Sound(v) /\ Grows(w, v) /\ Within(w, v)
  BY <1>1, <1>2, CommitKeeps
<1> HIDE DEF v
<1>5. Grows(work, v) /\ Within(work, v)
  BY <1>1, <1>2, <1>4, GrowsTransitive, WithinTransitive
<1> QED
  BY <1>1, <1>2, <1>3, <1>4, <1>5, CommitSettles DEF v

\* An expiry of a row is no part of what makes a database sound.
LEMMA ExpiryKeeps ==
  ASSUME NEW w \in Db, NEW r \in Rows, NEW e \in Expiries \cup {None}, Sound(w)
  PROVE  LET v == [w EXCEPT !.expiry[r] = e]
         IN  /\ v \in Db /\ Sound(v) /\ Grows(w, v) /\ Within(w, v)
             /\ v.applied = w.applied
<1> DEFINE v == [w EXCEPT !.expiry[r] = e]
<1>1. /\ v \in Db
      /\ v.live = w.live /\ v.dead = w.dead
      /\ v.ns = w.ns /\ v.text = w.text /\ v.parent = w.parent
      /\ v.applied = w.applied /\ v.canon = w.canon /\ v.effects = w.effects
  BY DEF Db
<1> HIDE DEF v
<1>2. Sound(v)
  BY <1>1 DEF Sound, OneRow, Minted, Counted, Ordered, Succession
<1>3. Grows(w, v) /\ Within(w, v)
  BY <1>1 DEF Grows, Within
<1> QED
  BY <1>1, <1>2, <1>3 DEF v

LEMMA UpdateKeeps ==
  ASSUME IInv, ApplyUpdate
  PROVE  IInv'
<1> DEFINE t == Target(Cur)
           ns == IF cmd[Cur].ns = None THEN work.ns[t] ELSE cmd[Cur].ns
           want == cmd[Cur].expiry
           expiry == IF want = None THEN work.expiry[t] ELSE want
           w == Tombstone(work, t)
<1>1. /\ Cur \in Ops /\ work \in Db /\ TypeOK /\ Sound(work)
      /\ work.applied[Cur] = "none"
      /\ cmd[Cur].dep # None => work.applied[cmd[Cur].dep] = "committed"
  BY AdmittedFacts DEF ApplyUpdate
<1>2. /\ t \in work.live /\ t \in Rows /\ work.ns[t] \in principal.scope
      /\ w \in Db /\ Sound(w) /\ Grows(work, w) /\ Within(work, w)
      /\ w.applied = work.applied
  BY TargetFacts DEF ApplyUpdate
<1>3. w.dead = work.dead \cup {t} /\ w.live = work.live \ {t} /\ w.parent = work.parent
  BY <1>1, <1>2, TombstoneIs
<1>4. /\ ns \in Namespaces /\ ns \in principal.scope
      /\ cmd[Cur].text \in Texts /\ expiry \in Expiries \cup {None}
  <2>1. /\ cmd[Cur].ns \in Namespaces \cup {None} /\ cmd[Cur].text \in Texts \cup {None}
        /\ want \in Expiries \cup {None}
    BY <1>1, CmdType
  <2>2. work.ns[t] \in Namespaces /\ work.expiry[t] \in Expiries \cup {None}
    BY <1>1, <1>2 DEF Db
  <2>3. cmd[Cur].ns # None => cmd[Cur].ns \in principal.scope
    BY DEF ApplyUpdate, Admitted, InScope
  <2>4. cmd[Cur].text # None
    BY DEF ApplyUpdate, Applicable, Storable
  <2> QED
    BY <1>2, <2>1, <2>2, <2>3, <2>4
<1>5. CASE Settle("committed",
                  Commit(Insert(w, Cur, ns, cmd[Cur].text, expiry, t), Cur, Cur), Cur)
  <2> DEFINE u == Insert(w, Cur, ns, cmd[Cur].text, expiry, t)
             v == Commit(u, Cur, Cur)
  <2>1. Cur \in Rows /\ t # None
    BY <1>1, <1>2, CmdType
  <2>2. \A s \in w.live \cup w.dead : w.parent[s] # t
    <3>1. \A s \in work.live \cup work.dead : work.parent[s] # t
      BY <1>1, <1>2, <2>1 DEF Sound, Succession, OneRow
    <3> QED
      BY <1>2, <1>3, <3>1
  <2>3. Settle("committed", v, Cur)
    BY <1>5
  <2> HIDE DEF t, ns, expiry, w
  <2>4. t \in w.dead
    BY <1>3
  <2>5. u \in Db
    BY <1>2, <1>4, <2>1, InsertIs
  <2>6. v \in Db /\ Sound(v) /\ Grows(w, v) /\ Within(w, v)
    BY <1>1, <1>2, <1>4, <2>2, <2>4, InsertKeeps
  <2> HIDE DEF u, v
  <2>7. Grows(work, v) /\ Within(work, v)
    BY <1>1, <1>2, <2>6, GrowsTransitive, WithinTransitive
  <2> QED
    BY <1>1, <2>1, <2>3, <2>5, <2>6, <2>7, CommitSettles DEF v
<1>6. ASSUME NEW r \in FoldRows(Cur),
             Settle("committed",
                    Commit([w EXCEPT !.expiry[r] = IF want = None THEN @ ELSE want],
                           Cur, r), r)
      PROVE  IInv'
  <2> DEFINE e == IF want = None THEN w.expiry[r] ELSE want
             u == [w EXCEPT !.expiry[r] = e]
             v == Commit(u, Cur, r)
  <2>1. r \in Rows
    BY <1>1 DEF ApplyUpdate, FoldRows, Similar, Db
  <2>2. e \in Expiries \cup {None}
    BY <1>1, <1>2, <2>1, CmdType DEF Db
  <2>3. Settle("committed", v, r)
    BY <1>6
  <2> HIDE DEF t, w, e
  <2>4. /\ u \in Db /\ Sound(u) /\ Grows(w, u) /\ Within(w, u)
        /\ u.applied = w.applied
    BY <1>2, <2>1, <2>2, ExpiryKeeps
  <2> HIDE DEF u
  <2>5. v \in Db /\ Sound(v) /\ Grows(u, v) /\ Within(u, v)
    BY <1>1, <1>2, <2>1, <2>4, CommitKeeps
  <2> HIDE DEF v
  <2>6. Grows(work, u) /\ Within(work, u)
    BY <1>1, <1>2, <2>4, GrowsTransitive, WithinTransitive
  <2>7. Grows(work, v) /\ Within(work, v)
    BY <1>1, <2>4, <2>5, <2>6, GrowsTransitive, WithinTransitive
  <2> QED
    BY <1>1, <2>1, <2>3, <2>4, <2>5, <2>7, CommitSettles DEF v
<1> QED
  BY <1>5, <1>6 DEF ApplyUpdate

--------------------------------------------------------------------------------
(* The batch.                                                              *)

LEMMA BatchType ==
  ASSUME NEW ops \in Batches
  PROVE  ops \in Seq(Ops)
<1>1. PICK n \in 1..MaxBatch : ops \in [1..n -> Ops]
  BY DEF Batches
<1>2. n \in Nat \ {0}
  BY HubConstants
<1> QED
  BY <1>1, <1>2

LEMMA BeginKeeps ==
  ASSUME IInv, NEW ops \in Seq(Ops), Begin(ops)
  PROVE  IInv'
<1>1. /\ UNCHANGED <<cmd, principal, db, told>> /\ work' = db /\ phase' = "apply"
      /\ batch' = ops /\ at' = 1
      /\ canonical' = NoRows /\ settled' = {} /\ out' = NoReceipts
  BY DEF Begin, caller
<1>2. batch' \in Seq(Ops) /\ at' \in 1..(Len(batch') + 1)
  BY <1>1
<1>3. TypeOK'
  BY <1>1, <1>2 DEF IInv, TypeOK, NoRows, NoReceipts
<1>4. Sound(db)' /\ Sound(work)'
  BY <1>1 DEF IInv, Sound, OneRow, Minted, Counted, Ordered, Succession
<1>5. TxnInv'
  BY <1>1 DEF TxnInv, Grows, Within
<1>6. ReceiptInv'
  BY <1>1 DEF IInv, ReceiptInv, NoReceipts
<1> QED
  BY <1>3, <1>4, <1>5, <1>6 DEF IInv

\* The ends of a batch that leave the database as it is.
LEMMA ClearKeeps ==
  ASSUME IInv, Clear, UNCHANGED <<caller, db>>, work' = db,
         told' \subseteq told \cup {o \in Ops : out[o] \in {"committed", "duplicate"}},
         work = db \/ told' = told
  PROVE  IInv'
<1>1. /\ UNCHANGED <<cmd, principal, db>> /\ work' = db /\ phase' = "idle"
      /\ batch' = <<>> /\ at' = 1
      /\ canonical' = NoRows /\ settled' = {} /\ out' = NoReceipts
  BY DEF Clear, caller
<1>2. batch' \in Seq(Ops) /\ at' \in 1..(Len(batch') + 1)
  BY <1>1
<1>3. TypeOK'
  BY <1>1, <1>2 DEF IInv, TypeOK, NoRows, NoReceipts
<1>4. Sound(db)' /\ Sound(work)'
  BY <1>1 DEF IInv, Sound, OneRow, Minted, Counted, Ordered, Succession
<1>5. TxnInv'
  BY <1>1 DEF TxnInv, Grows, Within
<1>6. ReceiptInv'
  BY <1>1 DEF IInv, ReceiptInv, NoReceipts
<1> QED
  BY <1>3, <1>4, <1>5, <1>6 DEF IInv

LEMMA CommitBatchKeeps ==
  ASSUME IInv, CommitBatch
  PROVE  IInv'
<1>1. /\ UNCHANGED <<cmd, principal, work, batch, at, canonical, settled, out, told>>
      /\ db' = work /\ phase' = "reply"
  BY DEF CommitBatch, caller
<1>2. TypeOK'
  BY <1>1 DEF IInv, TypeOK
<1>3. Sound(db)' /\ Sound(work)'
  BY <1>1 DEF IInv, Sound, OneRow, Minted, Counted, Ordered, Succession
<1>4. TxnInv'
  BY <1>1 DEF TxnInv, Grows, Within
<1>5. ReceiptInv'
  BY <1>1 DEF IInv, TypeOK, ReceiptInv, TxnInv, Grows
<1> QED
  BY <1>2, <1>3, <1>4, <1>5 DEF IInv

LEMMA OtherKeeps ==
  ASSUME IInv, NEW r \in Rows, OtherSupersede(r)
  PROVE  IInv' /\ Grows(db, db')
<1> DEFINE v == Tombstone(db, r)
<1>1. db \in Db /\ r \in db.live /\ work = db /\ Sound(db)
  BY DEF OtherSupersede, IInv, TypeOK, TxnInv
<1>2. v \in Db /\ Sound(v) /\ Grows(db, v) /\ v.applied = db.applied
  BY <1>1, TombstoneKeeps, TombstoneIs
<1>3. /\ UNCHANGED <<cmd, principal, phase, batch, at, canonical, settled, out, told>>
      /\ db' = v /\ work' = v
  BY DEF OtherSupersede, caller, txn
<1> HIDE DEF v
<1>4. TypeOK'
  BY <1>2, <1>3 DEF IInv, TypeOK
<1>5. Sound(db)' /\ Sound(work)'
  BY <1>2, <1>3 DEF Sound, OneRow, Minted, Counted, Ordered, Succession
<1>6. TxnInv'
  BY <1>3 DEF TxnInv, Grows, Within
<1>7. ReceiptInv'
  BY <1>1, <1>2, <1>3 DEF IInv, ReceiptInv
<1> QED
  BY <1>2, <1>3, <1>4, <1>5, <1>6, <1>7 DEF IInv

LEMMA StutterKeeps ==
  ASSUME IInv, UNCHANGED vars
  PROVE  IInv'
<1>1. UNCHANGED <<cmd, principal, db, work, phase, batch, at, canonical, settled, out, told>>
  BY DEF vars, caller, txn
<1> QED
  BY <1>1 DEF IInv, TypeOK, Sound, OneRow, Minted, Counted, Ordered, Succession,
              TxnInv, Grows, Within, ReceiptInv

LEMMA ApplyKeeps ==
  ASSUME IInv, ApplyOp
  PROVE  IInv'
<1>1. CASE ApplyReplay
  BY <1>1, ReplayKeeps
<1>2. CASE ApplyBlocked
  BY <1>2, RefusalKeeps DEF ApplyBlocked
<1>3. CASE ApplyDenied
  BY <1>3, RefusalKeeps DEF ApplyDenied
<1>4. CASE ApplyFold
  BY <1>4, FoldKeeps
<1>5. CASE ApplyAdd
  BY <1>5, AddKeeps
<1>6. CASE ApplyUpdate
  BY <1>6, UpdateKeeps
<1>7. CASE ApplySupersede
  BY <1>7, SupersedeKeeps
<1>8. CASE ApplyRefused
  BY <1>8, RefusalKeeps DEF ApplyRefused
<1> QED
  BY <1>1, <1>2, <1>3, <1>4, <1>5, <1>6, <1>7, <1>8 DEF ApplyOp

LEMMA EndKeeps ==
  ASSUME IInv, CommitBatch \/ Abort \/ Reply \/ LoseReply
  PROVE  IInv'
<1>1. CASE CommitBatch
  BY <1>1, CommitBatchKeeps
<1>2. CASE Abort
  BY <1>2, ClearKeeps DEF Abort
<1>3. CASE Reply
  <2>1. work = db
    BY <1>3 DEF Reply, IInv, TxnInv
  <2> QED
    BY <1>3, <2>1, ClearKeeps DEF Reply
<1>4. CASE LoseReply
  <2>1. work = db
    BY <1>4 DEF LoseReply, IInv, TxnInv
  <2> QED
    BY <1>4, <2>1, ClearKeeps DEF LoseReply
<1> QED
  BY <1>1, <1>2, <1>3, <1>4

LEMMA StepInv == IInv /\ [Next]_vars => IInv'
BY BatchType, BeginKeeps, ApplyKeeps, EndKeeps, OtherKeeps, StutterKeeps DEF Next

--------------------------------------------------------------------------------
(* The batch a transaction is at.                                          *)

\* What a step of a batch does to the receipts and to the verdicts recorded.
OneOp ==
  /\ UNCHANGED <<db, phase, batch>>
  /\ phase = "apply" /\ at \in 1..Len(batch) /\ at' = at + 1 /\ Cur \in Ops
  /\ out'[Cur] \in Verdicts
  /\ \A o \in Ops \ {Cur} : out'[o] = out[o] /\ work'.applied[o] = work.applied[o]

LEMMA SettleIsOneOp ==
  ASSUME TypeOK, NEW w, NEW st \in Verdicts, NEW r, Settle(st, w, r),
         \A o \in Ops \ {Cur} : w.applied[o] = work.applied[o]
  PROVE  OneOp
<1>1. Cur \in Ops
  BY CurType DEF Settle
<1>2. at \in 1..Len(batch) /\ at' = at + 1
  BY DEF Settle, TypeOK
<1> QED
  BY <1>1, <1>2 DEF OneOp, Settle, TypeOK

\* A write that records a verdict records it of the op the transaction is at.
LEMMA CommitIsOneOp ==
  ASSUME TypeOK, NEW w \in Db, NEW r, w.applied = work.applied, Cur \in Ops,
         Settle("committed", Commit(w, Cur, r), r), r \in Rows
  PROVE  OneOp
<1> DEFINE v == Commit(w, Cur, r)
<1>1. \A o \in Ops \ {Cur} : v.applied[o] = work.applied[o]
  BY DEF Commit, Db
<1>2. Settle("committed", v, r)
  OBVIOUS
<1> HIDE DEF v
<1> QED
  BY <1>1, <1>2, SettleIsOneOp DEF Verdicts

LEMMA ApplyIsOneOp ==
  ASSUME IInv, ApplyOp
  PROVE  OneOp
<1>0. TypeOK /\ work \in Db
  BY DEF IInv, TypeOK
<1>1. CASE ApplyReplay \/ ApplyBlocked \/ ApplyDenied \/ ApplyRefused
  BY <1>0, <1>1, SettleIsOneOp
     DEF ApplyReplay, ApplyBlocked, ApplyDenied, ApplyRefused, Verdicts
<1>2. CASE ApplyFold
  <2>1. PICK r \in Identical(Cur), st \in {"committed", "rejected"} :
          Settle(st, Record(work, Cur, st, r), r)
    BY <1>2 DEF ApplyFold
  <2>2. Cur \in Ops /\ r \in Rows
    BY <1>0, <1>2, CurType DEF ApplyFold, Identical, Db
  <2> DEFINE v == Record(work, Cur, st, r)
  <2>3. v \in Db /\ \A o \in Ops \ {Cur} : v.applied[o] = work.applied[o]
    BY <1>0, <2>2 DEF Record, Db
  <2>4. Settle(st, v, r)
    BY <2>1
  <2> HIDE DEF v
  <2> QED
    BY <1>0, <2>3, <2>4, SettleIsOneOp DEF Verdicts
<1>3. CASE ApplyAdd
  <2>1. Cur \in Ops /\ Cur \in Rows
    BY <1>0, <1>3, CurType, CmdType DEF ApplyAdd
  <2>2. /\ Effective(Cur) \in Namespaces
        /\ cmd[Cur].text \in Texts /\ cmd[Cur].expiry \in Expiries \cup {None}
    BY <1>0, <1>3, <2>1, CmdType, HubConstants DEF ApplyAdd, Effective, Applicable, Storable
  <2>3. CASE Settle("committed",
                  Commit(Insert(work, Cur, Effective(Cur), cmd[Cur].text,
                                cmd[Cur].expiry, None), Cur, Cur), Cur)
    <3> DEFINE w == Insert(work, Cur, Effective(Cur), cmd[Cur].text, cmd[Cur].expiry, None)
    <3>1. w \in Db
      BY <1>0, <2>1, <2>2, InsertIs
    <3>2. w.applied = work.applied
      BY <1>0 DEF Insert, Db
    <3>3. Settle("committed", Commit(w, Cur, Cur), Cur)
      BY <2>3
    <3> HIDE DEF w
    <3> QED
      BY <1>0, <2>1, <3>1, <3>2, <3>3, CommitIsOneOp
  <2>4. ASSUME NEW r \in FoldRows(Cur), Settle("committed", Commit(work, Cur, r), r)
        PROVE  OneOp
    <3>1. r \in Rows
      BY <1>0, <1>3, <2>4 DEF ApplyAdd, FoldRows, Similar, Db
    <3> QED
      BY <1>0, <2>1, <2>4, <3>1, CommitIsOneOp
  <2> QED
    BY <1>3, <2>3, <2>4 DEF ApplyAdd
<1>4. CASE ApplySupersede
  <2>1. Target(Cur) \in Rows /\ Cur \in Ops
    BY <1>0, <1>4, CurType DEF ApplySupersede, Applicable, Db
  <2>2. /\ Tombstone(work, Target(Cur)) \in Db
        /\ Tombstone(work, Target(Cur)).applied = work.applied
    BY <1>0, <2>1, TombstoneIs
  <2> QED
    BY <1>0, <1>4, <2>1, <2>2, CommitIsOneOp DEF ApplySupersede
<1>5. CASE ApplyUpdate
  <2> DEFINE t == Target(Cur)
             ns == IF cmd[Cur].ns = None THEN work.ns[t] ELSE cmd[Cur].ns
             want == cmd[Cur].expiry
             expiry == IF want = None THEN work.expiry[t] ELSE want
             w == Tombstone(work, t)
  <2>1. t \in Rows /\ Cur \in Ops /\ Cur \in Rows
    BY <1>0, <1>5, CurType, CmdType DEF ApplyUpdate, Applicable, Db
  <2>2. w \in Db /\ w.applied = work.applied
    BY <1>0, <2>1, TombstoneIs
  <2>3. /\ ns \in Namespaces /\ cmd[Cur].text \in Texts
        /\ want \in Expiries \cup {None} /\ expiry \in Expiries \cup {None}
    BY <1>0, <1>5, <2>1, CmdType DEF ApplyUpdate, Applicable, Storable, Db
  <2>4. CASE Settle("committed",
                    Commit(Insert(w, Cur, ns, cmd[Cur].text, expiry, t), Cur, Cur), Cur)
    <3> DEFINE u == Insert(w, Cur, ns, cmd[Cur].text, expiry, t)
    <3>1. Settle("committed", Commit(u, Cur, Cur), Cur)
      BY <2>4
    <3> HIDE DEF t, ns, expiry, w
    <3>2. u \in Db
      BY <2>1, <2>2, <2>3, InsertIs
    <3>3. u.applied = w.applied
      BY <2>2 DEF Insert, Db
    <3> HIDE DEF u
    <3> QED
      BY <1>0, <2>1, <2>2, <3>1, <3>2, <3>3, CommitIsOneOp
  <2>5. ASSUME NEW r \in FoldRows(Cur),
               Settle("committed",
                      Commit([w EXCEPT !.expiry[r] = IF want = None THEN @ ELSE want],
                             Cur, r), r)
        PROVE  OneOp
    <3> DEFINE e == IF want = None THEN w.expiry[r] ELSE want
               u == [w EXCEPT !.expiry[r] = e]
    <3>1. r \in Rows
      BY <1>0, <1>5 DEF ApplyUpdate, FoldRows, Similar, Db
    <3>2. e \in Expiries \cup {None}
      BY <2>2, <2>3, <3>1 DEF Db
    <3>3. Settle("committed", Commit(u, Cur, r), r)
      BY <2>5
    <3> HIDE DEF t, w, want, e
    <3>4. u \in Db /\ u.applied = w.applied
      BY <2>2, <3>1, <3>2 DEF Db
    <3> HIDE DEF u
    <3> QED
      BY <1>0, <2>1, <2>2, <3>1, <3>3, <3>4, CommitIsOneOp
  <2> QED
    BY <1>5, <2>4, <2>5 DEF ApplyUpdate
<1> QED
  BY <1>1, <1>2, <1>3, <1>4, <1>5 DEF ApplyOp

LEMMA InitBatch == Init => BatchInv
BY DEF Init, BatchInv, NoReceipts, EmptyDb

LEMMA ApplyKeepsBatch ==
  ASSUME IInv, BatchInv, ApplyOp
  PROVE  BatchInv'
<1>1. OneOp
  BY ApplyIsOneOp
<1>2. at \in Nat /\ Len(batch) \in Nat
  BY DEF IInv, TypeOK
<1>3. \A o \in Ops : out'[o] # "none" <=> \E i \in 1..(at' - 1) : batch'[i] = o
  <2>1. 1..(at' - 1) = (1..(at - 1)) \cup {at}
    BY <1>1, <1>2 DEF OneOp
  <2>2. out'[Cur] # "none" /\ batch[at] = Cur
    BY <1>1 DEF OneOp, Verdicts, Cur
  <2> QED
    BY <1>1, <2>1, <2>2 DEF OneOp, BatchInv
<1>4. \A o \in Ops : work'.applied[o] # db'.applied[o] => o \in OpsOf(batch')
  BY <1>1 DEF OneOp, BatchInv, OpsOf, Cur
<1> QED
  BY <1>1, <1>3, <1>4 DEF OneOp, BatchInv

LEMMA BeginKeepsBatch ==
  ASSUME NEW ops, Begin(ops)
  PROVE  BatchInv'
BY DEF Begin, BatchInv, NoReceipts

LEMMA EndKeepsBatch ==
  ASSUME IInv, BatchInv, CommitBatch \/ Abort \/ Reply \/ LoseReply
  PROVE  BatchInv'
<1>1. CASE CommitBatch
  BY <1>1 DEF CommitBatch, BatchInv
<1>2. CASE Abort
  BY <1>2 DEF Abort, Clear, BatchInv, NoReceipts
<1>3. CASE Reply \/ LoseReply
  BY <1>3 DEF Reply, LoseReply, Clear, BatchInv, NoReceipts, IInv, TxnInv
<1> QED
  BY <1>1, <1>2, <1>3

--------------------------------------------------------------------------------
(* The theorems.                                                           *)

\* The hub's state is what IInv says in every reachable state.
THEOREM Invariance == Spec => []IInv
<1>1. Init => IInv
  BY InitInv
<1>2. IInv /\ [Next]_vars => IInv'
  BY StepInv
<1> QED
  BY <1>1, <1>2, PTL DEF Spec

\* Every variable of the hub keeps its type, the databases among them.
THEOREM TypeCorrect == Spec => []TypeOK
<1>1. IInv => TypeOK
  BY DEF IInv
<1> QED
  BY <1>1, Invariance, PTL

\* However often and in whatever batches an op arrives, it changes the memory
\* table at most once.
THEOREM OpsApplyAtMostOnce == Spec => []AtMostOnce
<1>1. IInv => AtMostOnce
  BY DEF IInv, Sound, Counted, AtMostOnce
<1> QED
  BY <1>1, Invariance, PTL

\* What a caller was told is committed is recorded as committed, whatever is
\* killed or rolled back afterwards.
THEOREM ReceiptsAreDurable == Spec => []ToldIsDurable
<1>1. IInv => ToldIsDurable
  BY DEF IInv, ReceiptInv, ToldIsDurable
<1> QED
  BY <1>1, Invariance, PTL

\* An op is committed only after the op it depends on.
THEOREM DependenciesCommitFirst == Spec => []DependencyCommitted
<1>1. IInv => DependencyCommitted
  BY DEF IInv, Sound, Ordered, DependencyCommitted
<1> QED
  BY <1>1, Invariance, PTL

\* A row is never updated twice: it has at most one successor.
THEOREM SuccessorsAreUnique == Spec => []OneSuccessor
<1>1. IInv => OneSuccessor
  BY DEF IInv, Sound, Succession, OneSuccessor
<1> QED
  BY <1>1, Invariance, PTL

\* What a step does to the committed database: nothing, the commit of the
\* transaction's copy, or another client's tombstone.  It only ever grows.
LEMMA DatabaseGrows ==
  ASSUME IInv, [Next]_vars
  PROVE  Grows(db, db')
<1>1. CASE db' = db
  BY <1>1 DEF Grows
<1>2. CASE CommitBatch
  BY <1>2 DEF CommitBatch, IInv, TxnInv
<1>3. CASE \E r \in Rows : OtherSupersede(r)
  BY <1>3, OtherKeeps
<1> QED
  BY <1>1, <1>2, <1>3
     DEF Next, ApplyOp, Begin, ApplyReplay, ApplyBlocked, ApplyDenied, ApplyFold, ApplyAdd,
         ApplyUpdate, ApplySupersede, ApplyRefused, Settle, Abort, Reply, LoseReply, vars

\* History is append-only: a dead row stays dead, and no row's text or namespace
\* is ever rewritten.
THEOREM HistoryIsAppendOnly == Spec => AppendOnly
<1>1. IInv /\ [Next]_vars
        => [/\ db.dead \subseteq db'.dead
            /\ \A r \in db.live \cup db.dead :
                 /\ r \in db'.live \cup db'.dead
                 /\ db'.text[r] = db.text[r] /\ db'.ns[r] = db.ns[r]]_vars
  BY DatabaseGrows DEF Grows
<1> QED
  BY <1>1, Invariance, PTL DEF Spec, AppendOnly

\* The verdict recorded for an op, and the row it names, stay: each replay of the
\* op gets the answer of its first run.
THEOREM VerdictsAreFinal == Spec => VerdictStable
<1>1. IInv /\ [Next]_vars
        => [\A o \in Ops : db.applied[o] # "none"
              => (db'.applied[o] = db.applied[o] /\ db'.canon[o] = db.canon[o])]_vars
  BY DatabaseGrows DEF Grows
<1> QED
  BY <1>1, Invariance, PTL DEF Spec, VerdictStable

\* While a batch runs, rows appear and leave only in the caller's namespaces.
THEOREM BatchesStayInScope == Spec => ScopeKept
<1>1. ASSUME IInv, [Next]_vars, phase = "apply", NEW r \in Rows,
             (r \in db.live /\ r \notin db'.live) \/ (r \notin db.live /\ r \in db'.live)
      PROVE  db'.ns[r] \in principal.scope
  <2>1. CASE db' = db
    BY <1>1, <2>1
  <2>2. CASE CommitBatch
    BY <1>1, <2>2 DEF CommitBatch, IInv, TxnInv, Within
  <2> QED
    BY <1>1, <2>1, <2>2
       DEF Next, ApplyOp, Begin, ApplyReplay, ApplyBlocked, ApplyDenied, ApplyFold, ApplyAdd,
           ApplyUpdate, ApplySupersede, ApplyRefused, Settle, Abort, Reply, LoseReply,
           OtherSupersede, vars
<1>2. IInv /\ [Next]_vars
        => [phase = "apply" =>
             \A r \in Rows : ((r \in db.live /\ r \notin db'.live)
                             \/ (r \notin db.live /\ r \in db'.live))
                             => db'.ns[r] \in principal.scope]_vars
  BY <1>1
<1> QED
  BY <1>2, Invariance, PTL DEF Spec, ScopeKept

================================================================================
