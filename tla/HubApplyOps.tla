------------------------------ MODULE HubApplyOps ------------------------------
(***************************************************************************)
(* The hub half of the operation queue: storelib/ops.py apply_ops, with    *)
(* the parts of storelib/write.py an op reaches, the batch gate of         *)
(* server/mcp_server.py, and the subprocess that runs it, which may be     *)
(* killed at any point.  One principal's batches; the ops of a batch are   *)
(* applied one step at a time inside one BEGIN IMMEDIATE transaction, on   *)
(* the working copy of the database that only the commit publishes.        *)
(***************************************************************************)
EXTENDS Naturals, FiniteSets, Sequences

CONSTANTS
  Ops,          \* op_ids
  Seeds,        \* rows that exist before the first batch
  None,
  Namespaces,
  Global,       \* user:global, the namespace of an op that names none
  Texts,     \* texts; a row's content or an op's content/reason
  Refused,      \* texts the capture policy refuses to store
  Splits,       \* texts with a line boundary that JSON leaves as it is (U+2028)
  Near,         \* Near[c]: contents of rows dedup-on-write folds c into
  Expiries,     \* expiry classes of state rows
  Cmds,         \* Cmds[o]: the typed operations op o may be
  Principals,   \* what the authenticated caller may do
  SeedRows,     \* ns, content and expiry of the seed rows
  MaxBatch      \* _MAX_OPS_PER_BATCH

\* A row is named by the seed or by the op that minted it: uuid4 ids are fresh.
Rows == Seeds \cup Ops

\* capture is applied as an add.
Kinds == {"add", "update", "supersede", "invalidate"}
Mutating == {"update", "supersede", "invalidate"}

\* id: a store id; via: an op_id in id_or_dep; text: content or reason.
Cmd == [kind : Kinds, ns : Namespaces \cup {None}, text : Texts \cup {None},
        expiry : Expiries \cup {None}, id : Rows \cup {None},
        via : Ops \cup {None}, dep : Ops \cup {None}]

Principal == [known : BOOLEAN, mutate : BOOLEAN, scope : SUBSET Namespaces]

ASSUME HubConstants ==
  /\ None \notin Ops \cup Seeds \cup Namespaces \cup Texts \cup Expiries
  /\ Ops \cap Seeds = {}
  /\ Global \in Namespaces
  /\ Texts # {} /\ Refused \subseteq Texts /\ Splits \subseteq Texts
  /\ Near \in [Texts -> SUBSET Texts]
  /\ \A c \in Texts : c \in Near[c]
  /\ Cmds \in [Ops -> SUBSET Cmd]
  /\ \A o \in Ops : \A c \in Cmds[o] : c.kind = "add" => c.text # None
  /\ Principals \subseteq Principal
  /\ SeedRows \in [Seeds -> [ns : Namespaces, text : Texts,
                             expiry : Expiries \cup {None}]]
  /\ MaxBatch \in Nat \ {0}

VARIABLES
  cmd,          \* the operation each op_id carries
  principal,    \* the caller
  db,           \* the committed database
  work,         \* the database as the open transaction sees it
  phase,        \* of the apply-ops subprocess
  batch,        \* the ops it was given
  at,           \* the op it is at
  canonical,    \* op_id -> row, within the batch
  settled,      \* committed_ids, within the batch
  out,          \* receipts of the batch
  told          \* ops a caller was told are committed (committed or duplicate)

caller == <<cmd, principal>>
txn == <<phase, batch, at, canonical, settled, out>>
vars == <<caller, db, work, txn, told>>

Verdicts == {"committed", "duplicate", "rejected", "blocked"}

\* The memory table, its expiry side table and applied_ops.  effects counts how
\* often an op changed the memory table; no code reads it.
Db == [live : SUBSET Rows, dead : SUBSET Rows,
       ns : [Rows -> Namespaces], text : [Rows -> Texts],
       expiry : [Rows -> Expiries \cup {None}],
       parent : [Rows -> Rows \cup {None}],
       applied : [Ops -> {"none", "committed", "rejected"}],
       canon : [Ops -> Rows \cup {None}],
       effects : [Ops -> Nat]]

TypeOK ==
  /\ cmd \in [Ops -> Cmd] /\ \A o \in Ops : cmd[o] \in Cmds[o]
  /\ principal \in Principals
  /\ db \in Db /\ work \in Db
  /\ phase \in {"idle", "apply", "reply"}
  /\ batch \in Seq(Ops)
  /\ at \in 1..(Len(batch) + 1)
  /\ canonical \in [Ops -> Rows \cup {None}]
  /\ settled \subseteq Ops
  /\ out \in [Ops -> Verdicts \cup {"none"}]
  /\ told \subseteq Ops

NoReceipts == [o \in Ops |-> "none"]
NoRows == [o \in Ops |-> None]

EmptyDb ==
  [live |-> Seeds, dead |-> {},
   ns |-> [r \in Rows |-> IF r \in Seeds THEN SeedRows[r].ns ELSE Global],
   text |-> [r \in Rows |-> IF r \in Seeds THEN SeedRows[r].text
                            ELSE CHOOSE c \in Texts : TRUE],
   expiry |-> [r \in Rows |-> IF r \in Seeds THEN SeedRows[r].expiry ELSE None],
   parent |-> [r \in Rows |-> None],
   applied |-> [o \in Ops |-> "none"],
   canon |-> NoRows,
   effects |-> [o \in Ops |-> 0]]

Init ==
  /\ cmd \in {c \in [Ops -> UNION {Cmds[o] : o \in Ops}] :
                \A o \in Ops : c[o] \in Cmds[o]}
  /\ principal \in Principals
  /\ db = EmptyDb /\ work = EmptyDb
  /\ phase = "idle" /\ batch = <<>> /\ at = 1
  /\ canonical = NoRows /\ settled = {} /\ out = NoReceipts
  /\ told = {}

--------------------------------------------------------------------------------
(* What an op asks for, and the gates in front of it.                      *)

\* The op the transaction is at.
Cur == batch[at]

Effective(o) == IF cmd[o].ns = None THEN Global ELSE cmd[o].ns

\* _resolve_target: an op_id stands for the row it got in this batch; one that
\* got none is taken for a store id and names no row.
Target(o) == IF cmd[o].via # None THEN canonical[cmd[o].via] ELSE cmd[o].id

\* Variant: replays are recognised within the batch only.
KnownInBatch(o) == o \in settled

\* Variant: only a commit is recognised, a recorded rejection is run again.
KnownCommit(o) == work.applied[o] = "committed"

Known(o) == work.applied[o] # "none"

\* Variant: a dependency that was seen in the batch is good enough.
DepSeen(o) == cmd[o].dep = None \/ \E i \in 1..(at - 1) : batch[i] = cmd[o].dep

Unblocked(o) == cmd[o].dep = None \/ cmd[o].dep \in settled

\* mutate_allowed, and the deny-all of an unresolved principal.
Permitted(o) ==
  principal.known /\ (cmd[o].kind \in Mutating => principal.mutate)

\* Variant: only the namespace an op declares is checked.
InDeclaredScope(o) == cmd[o].ns # None => cmd[o].ns \in principal.scope

\* The declared namespace of an add, the row's own namespace of a mutation and
\* the destination of an update.
InScope(o) ==
  IF cmd[o].kind = "add" THEN Effective(o) \in principal.scope
  ELSE /\ Target(o) \in work.live \cup work.dead
             => work.ns[Target(o)] \in principal.scope
       /\ cmd[o].kind = "update" /\ cmd[o].ns # None
             => cmd[o].ns \in principal.scope

Admitted(o) == ~ Known(o) /\ Unblocked(o) /\ Permitted(o) /\ InScope(o)

\* _identical_content_row: live, same namespace, same bytes.
Identical(o) ==
  {r \in work.live : work.ns[r] = Effective(o) /\ work.text[r] = cmd[o].text}

Folds(o) == cmd[o].kind = "add" /\ Identical(o) # {}

\* Rows dedup-on-write folds a text into.
Similar(ns, text, live) ==
  {r \in live : work.ns[r] = ns /\ work.text[r] \in Near[text]}

Storable(text) == text # None /\ text \notin Refused

\* Variant: an update does not look whether its target is still live.
ApplicableToDead(o) ==
  CASE cmd[o].kind = "add"        -> Storable(cmd[o].text)
    [] cmd[o].kind = "update"     -> /\ Target(o) \in work.live \cup work.dead
                                     /\ Storable(cmd[o].text)
    [] cmd[o].kind = "supersede"  -> Target(o) \in work.live
    [] cmd[o].kind = "invalidate" -> Target(o) \in work.live /\ cmd[o].text # None

\* The write path accepts the op.
Applicable(o) ==
  CASE cmd[o].kind = "add"        -> Storable(cmd[o].text)
    [] cmd[o].kind = "update"     -> Target(o) \in work.live /\ Storable(cmd[o].text)
    [] cmd[o].kind = "supersede"  -> Target(o) \in work.live
    [] cmd[o].kind = "invalidate" -> Target(o) \in work.live /\ cmd[o].text # None

--------------------------------------------------------------------------------
(* The writes.  Each takes the database and returns it changed.            *)

\* An op that changed the memory table, settled as committed on row r.
Commit(w, o, r) ==
  [w EXCEPT !.applied[o] = "committed", !.canon[o] = r, !.effects[o] = @ + 1]

\* Variant: the receipt's flavour is stored for the verdict.
RecordFlavour(w, o, st, r) == [w EXCEPT !.applied[o] = "deduped", !.canon[o] = r]

\* A fold of the replay guard: a verdict and no write.
Record(w, o, st, r) == [w EXCEPT !.applied[o] = st, !.canon[o] = r]

Insert(w, r, ns, text, expiry, parent) ==
  [w EXCEPT !.live = @ \cup {r}, !.ns[r] = ns, !.text[r] = text,
            !.expiry[r] = expiry, !.parent[r] = parent]

\* Variant: the superseded row is deleted.
DeleteRow(w, r) == [w EXCEPT !.live = @ \ {r}, !.expiry[r] = None]

\* supersede_memory: the row and its side-table record.
Tombstone(w, r) ==
  [w EXCEPT !.live = @ \ {r}, !.dead = @ \cup {r}, !.expiry[r] = None]

\* The rows an op's text is folded into; an update's own target is no candidate.
FoldRows(o) ==
  IF cmd[o].kind = "add"
  THEN Similar(Effective(o), cmd[o].text, work.live)
  ELSE Similar(IF cmd[o].ns = None THEN work.ns[Target(o)] ELSE cmd[o].ns,
               cmd[o].text, work.live \ {Target(o)})

--------------------------------------------------------------------------------
(* One op of the batch.                                                    *)

\* The op gets its receipt and the transaction goes to the next one.
Settle(st, w, r) ==
  /\ phase = "apply" /\ at <= Len(batch)
  /\ out' = [out EXCEPT ![Cur] = st]
  /\ work' = w
  /\ canonical' = IF r = None THEN canonical ELSE [canonical EXCEPT ![Cur] = r]
  /\ settled' = IF st \in {"committed", "duplicate"}
                THEN settled \cup {Cur} ELSE settled
  /\ at' = at + 1
  /\ UNCHANGED <<caller, db, phase, batch, told>>

\* The (op_id, principal) key is looked up before anything else.
ApplyReplay ==
  /\ phase = "apply" /\ at <= Len(batch) /\ Known(Cur)
  /\ IF work.applied[Cur] = "committed"
     THEN Settle("duplicate", work, work.canon[Cur])
     ELSE Settle("rejected", work, None)

ApplyBlocked ==
  /\ phase = "apply" /\ at <= Len(batch) /\ ~ Known(Cur) /\ ~ Unblocked(Cur)
  /\ Settle("blocked", work, None)

ApplyDenied ==
  /\ phase = "apply" /\ at <= Len(batch) /\ ~ Known(Cur) /\ Unblocked(Cur)
  /\ ~ (Permitted(Cur) /\ InScope(Cur))
  /\ Settle("rejected", work, None)

\* The replay guard: an add whose bytes are live already commits without a write,
\* unless it asks for an expiry the row does not have.
ApplyFold ==
  /\ phase = "apply" /\ at <= Len(batch) /\ Admitted(Cur) /\ Folds(Cur)
  /\ \E r \in Identical(Cur) :
       IF cmd[Cur].expiry \in {None, work.expiry[r]}
       THEN Settle("committed", Record(work, Cur, "committed", r), r)
       ELSE Settle("rejected", Record(work, Cur, "rejected", r), r)

ApplyAdd ==
  /\ phase = "apply" /\ at <= Len(batch) /\ Admitted(Cur) /\ ~ Folds(Cur)
  /\ cmd[Cur].kind = "add" /\ Applicable(Cur)
  /\ \/ FoldRows(Cur) = {}
        /\ Settle("committed",
                  Commit(Insert(work, Cur, Effective(Cur), cmd[Cur].text,
                                cmd[Cur].expiry, None), Cur, Cur), Cur)
     \/ \E r \in FoldRows(Cur) : Settle("committed", Commit(work, Cur, r), r)

\* update_memory: the target is tombstoned, then the text is folded into another
\* live row or becomes the target's successor.  An expiry is only folded into a
\* row that has one.
ApplyUpdate ==
  LET t == Target(Cur)
      ns == IF cmd[Cur].ns = None THEN work.ns[t] ELSE cmd[Cur].ns
      want == cmd[Cur].expiry
      successor == Insert(Tombstone(work, t), Cur, ns, cmd[Cur].text,
                          IF want = None THEN work.expiry[t] ELSE want, t)
  IN
  /\ phase = "apply" /\ at <= Len(batch) /\ Admitted(Cur)
  /\ cmd[Cur].kind = "update" /\ Applicable(Cur)
  /\ \/ /\ \/ FoldRows(Cur) = {}
           \/ want # None /\ \E r \in FoldRows(Cur) : work.expiry[r] = None
        /\ Settle("committed", Commit(successor, Cur, Cur), Cur)
     \/ \E r \in FoldRows(Cur) :
          /\ want # None => work.expiry[r] # None
          /\ Settle("committed",
                    Commit([Tombstone(work, t) EXCEPT
                              !.expiry[r] = IF want = None THEN @ ELSE want],
                           Cur, r), r)

ApplySupersede ==
  /\ phase = "apply" /\ at <= Len(batch) /\ Admitted(Cur)
  /\ cmd[Cur].kind \in {"supersede", "invalidate"} /\ Applicable(Cur)
  /\ Settle("committed", Commit(Tombstone(work, Target(Cur)), Cur, Target(Cur)),
            Target(Cur))

\* The write path refused: the savepoint is rolled back and nothing is recorded.
ApplyRefused ==
  /\ phase = "apply" /\ at <= Len(batch) /\ Admitted(Cur)
  /\ ~ Folds(Cur) /\ ~ Applicable(Cur)
  /\ Settle("rejected", work, None)

--------------------------------------------------------------------------------
(* The batch.                                                              *)

\* What keeps a whole batch out: the limit, one declared namespace the caller may
\* not touch, or one text that the subprocess reads as two lines, neither of
\* which is an op.
Accepts(ops) ==
  /\ Len(ops) <= MaxBatch
  /\ \A i \in 1..Len(ops) :
       /\ cmd[ops[i]].ns # None => cmd[ops[i]].ns \in principal.scope
       /\ cmd[ops[i]].text \notin Splits

Begin(ops) ==
  /\ phase = "idle" /\ Accepts(ops)
  /\ phase' = "apply"
  /\ batch' = ops /\ at' = 1
  /\ work' = db
  /\ canonical' = NoRows /\ settled' = {} /\ out' = NoReceipts
  /\ UNCHANGED <<caller, db, told>>

CommitBatch ==
  /\ phase = "apply" /\ at > Len(batch)
  /\ phase' = "reply"
  /\ db' = work
  /\ UNCHANGED <<caller, work, batch, at, canonical, settled, out, told>>

Clear ==
  /\ phase' = "idle" /\ batch' = <<>> /\ at' = 1
  /\ canonical' = NoRows /\ settled' = {} /\ out' = NoReceipts

\* Killed at the deadline, or an exception out of the loop: rolled back.
Abort ==
  /\ phase = "apply"
  /\ Clear /\ work' = db
  /\ UNCHANGED <<caller, db, told>>

\* Variant: the receipts leave before the commit.
ReplyEarly ==
  /\ phase \in {"apply", "reply"} /\ at > Len(batch)
  /\ Clear
  /\ told' = told \cup {o \in Ops : out[o] \in {"committed", "duplicate"}}
  /\ UNCHANGED <<caller, db, work>>

\* The receipts leave the hub.
Reply ==
  /\ phase = "reply"
  /\ Clear
  /\ told' = told \cup {o \in Ops : out[o] \in {"committed", "duplicate"}}
  /\ UNCHANGED <<caller, db, work>>

\* Killed after the commit: the outcome is unknown to the caller.
LoseReply ==
  /\ phase = "reply"
  /\ Clear
  /\ UNCHANGED <<caller, db, work, told>>

\* Another client of the hub tombstones a row, in a transaction of its own.
OtherSupersede(r) ==
  /\ phase = "idle" /\ r \in db.live
  /\ db' = Tombstone(db, r)
  /\ work' = Tombstone(db, r)
  /\ UNCHANGED <<caller, txn, told>>

ApplyOp ==
  \/ ApplyReplay
  \/ ApplyBlocked
  \/ ApplyDenied
  \/ ApplyFold
  \/ ApplyAdd
  \/ ApplyUpdate
  \/ ApplySupersede
  \/ ApplyRefused

\* The batches clients send name an op once.
Batches ==
  UNION {{s \in [1..n -> Ops] : \A i, j \in 1..n : s[i] = s[j] => i = j} :
           n \in 1..MaxBatch}

Next ==
  \/ \E ops \in Batches : Begin(ops)
  \/ ApplyOp
  \/ CommitBatch
  \/ Abort
  \/ Reply
  \/ LoseReply
  \/ \E r \in Rows : OtherSupersede(r)

Spec == Init /\ [][Next]_vars

--------------------------------------------------------------------------------
(* What the hub promises.                                                  *)

\* "applied_ops is the at-most-once record": however often and in whatever
\* batches an op arrives, it changes the memory table at most once.
AtMostOnce == \A o \in Ops : db.effects[o] <= 1

\* A receipt that says committed or duplicate is about a commit that survived:
\* no rollback or kill takes back what a caller was told.
ToldIsDurable == \A o \in told : db.applied[o] = "committed"

\* An op that depends on another is committed only if the other one is, whatever
\* the order, split or repetition of the batches they came in.
DependencyCommitted ==
  \A o \in Ops : db.applied[o] = "committed" /\ cmd[o].dep # None
                   => db.applied[cmd[o].dep] = "committed"

\* update_memory under its lock: a row has at most one successor.
OneSuccessor ==
  \A r, s \in db.live \cup db.dead :
     db.parent[r] # None /\ db.parent[r] = db.parent[s] => r = s

\* Rows that had a successor or were superseded are never live again, and no
\* row's text or namespace is rewritten: history is append-only.
AppendOnly ==
  [][/\ db.dead \subseteq db'.dead
     /\ \A r \in db.live \cup db.dead :
          /\ r \in db'.live \cup db'.dead
          /\ db'.text[r] = db.text[r] /\ db'.ns[r] = db.ns[r]]_vars

\* A recorded verdict and the row it names are never replaced, so every replay
\* of an op gets the answer of its first run.
VerdictStable ==
  [][\A o \in Ops : db.applied[o] # "none"
       => db'.applied[o] = db.applied[o] /\ db'.canon[o] = db.canon[o]]_vars

\* A committed batch leaves every row outside the caller's scope as it was.
ScopeKept ==
  [][phase = "apply" =>
       \A r \in Rows : (r \in db.live /\ r \notin db'.live)
                       \/ (r \notin db.live /\ r \in db'.live)
                       => db'.ns[r] \in principal.scope]_vars

================================================================================
