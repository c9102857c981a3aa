----------------------------- MODULE StoreSync -----------------------------
(***************************************************************************)
(* Stores that exchange their rows as files (storelib/sync.py): an export  *)
(* is one snapshot of a store, and may be ingested at any store, late, in  *)
(* any order, again, or never.  The streaming ingest commits row by row    *)
(* beside other writers of its store and may be killed between two rows;   *)
(* the strict one commits a file as a whole.                               *)
(*                                                                         *)
(* A row is named by its id and abstracted to absent, live or tombstoned;  *)
(* ids are numbered in the order of their ingestion_ts.  Two rows have one *)
(* text when dedup-on-write takes them for the same.  Links, episodes,     *)
(* evidence, the capture policy and malformed lines are left out; that a   *)
(* fold writes its keeper is kept, what it writes there is not; an expiry  *)
(* record is present or not.                                               *)
(***************************************************************************)
EXTENDS Naturals

CONSTANTS Stores, Ids,
          Home, Text,   \* [Ids -> ...]: the store that mints a row; what it says
          StateIds,     \* rows of type state, which have an expiry record
          Jobs,         \* processes of ingest-jsonl
          Modes,        \* how a file is ingested
          MaxLocal,     \* bound: adds, supersedes and purges
          MaxExports, MaxIngests

Status == {"absent", "live", "dead"}
None   == [store |-> "none"]
Lanes  == {"plain",  \* the default: tombstones are refused
           "own",    \* --allow-tombstones
           "peer",   \* --trust untrusted-peer
           "strict"} \* --strict --allow-tombstones, one transaction

ASSUME SyncAssumption == /\ Ids \in SUBSET Nat /\ Home \in [Ids -> Stores]
                         /\ StateIds \in SUBSET Ids /\ Modes \in SUBSET Lanes
                         /\ MaxLocal \in Nat /\ MaxExports \in Nat /\ MaxIngests \in Nat

VARIABLES row,      \* the memory table of each store
          side,     \* ... its expiry records
          purged,   \* ... its purge deny-list
          files,    \* exports
          job,      \* each ingest
          last,     \* the file and mode of the ingest that last changed a store's statuses
          reworked, \* what an ingest changed of what its own last run had left
          local, exports, ingests

vars == <<row, side, purged, files, job, last, reworked, local, exports, ingests>>

Init ==
  /\ row = [s \in Stores |-> [i \in Ids |-> "absent"]]
  /\ side = [s \in Stores |-> {}] /\ purged = [s \in Stores |-> {}]
  /\ files = {} /\ job = [p \in Jobs |-> None]
  /\ last = [s \in Stores |-> None] /\ reworked = {}
  /\ local = 0 /\ exports = 0 /\ ingests = 0

Working(p) == job[p] # None
LiveWith(s, t) == {i \in Ids : row[s][i] = "live" /\ Text[i] = t}

\* the jobs, after somebody else than those in P changed store s under them
Elsewhere(s, P) ==
  [q \in Jobs |-> IF Working(q) /\ q \notin P /\ job[q].store = s
                  THEN [job[q] EXCEPT !.quiet = FALSE, !.again = FALSE] ELSE job[q]]
Touch(s) == last' = [last EXCEPT ![s] = None]

-----------------------------------------------------------------------------
(* What the store's own commands do.                                       *)

Local(s) == /\ local < MaxLocal /\ local' = local + 1
            /\ job' = Elsewhere(s, {}) /\ Touch(s)
            /\ UNCHANGED <<files, reworked, exports, ingests>>

\* add_memory; a text that is live already only merges into its row
Add(s, i) ==
  /\ Home[i] = s /\ row[s][i] = "absent" /\ i \notin purged[s] /\ LiveWith(s, Text[i]) = {}
  /\ row' = [row EXCEPT ![s][i] = "live"]
  /\ side' = [side EXCEPT ![s] = @ \union ({i} \cap StateIds)]
  /\ Local(s) /\ UNCHANGED purged

\* supersede_memory: the tombstone takes the expiry record with it
Superseded(s, i) ==
  row' = [row EXCEPT ![s][i] = "dead"] /\ side' = [side EXCEPT ![s] = @ \ {i}]

Supersede(s, i) ==
  /\ row[s][i] = "live" /\ Superseded(s, i) /\ Local(s) /\ UNCHANGED purged

\* purge runs under the maintenance lock: no ingest has a lease on the store
Purge(s, i) ==
  /\ row[s][i] # "absent" /\ \A p \in Jobs : Working(p) => job[p].store # s
  /\ row' = [row EXCEPT ![s][i] = "absent"] /\ side' = [side EXCEPT ![s] = @ \ {i}]
  /\ purged' = [purged EXCEPT ![s] = @ \union {i}] /\ Local(s)

-----------------------------------------------------------------------------
(* Export: the rows and the expiry records of the exported ones, read in   *)
(* one snapshot; tombstones on demand (whole).                             *)

Exported(s, whole) ==
  LET out == {i \in Ids : row[s][i] = "live" \/ (whole /\ row[s][i] = "dead")} IN
  [whole |-> whole, side |-> side[s] \cap out,
   row |-> [i \in Ids |-> IF i \in out THEN row[s][i] ELSE "absent"]]

Export(s, whole) ==
  /\ exports < MaxExports /\ exports' = exports + 1
  /\ files' = files \union {Exported(s, whole)}
  /\ UNCHANGED <<row, side, purged, job, last, reworked, local, ingests>>

-----------------------------------------------------------------------------
(* The streaming ingest.                                                   *)

Lines(f) == {i \in Ids : f.row[i] # "absent"}

\* The dedup cache is one scan of the live rows, taken before the first line.
Start(p, s, f, m) ==
  /\ ~Working(p) /\ m # "strict" /\ ingests < MaxIngests /\ ingests' = ingests + 1
  /\ job' = [job EXCEPT ![p] =
       [store |-> s, file |-> f, mode |-> m, todo |-> Lines(f),
        cache |-> {i \in Ids : row[s][i] = "live"}, landed |-> {}, folded |-> {},
        quiet |-> TRUE, again |-> last[s] = [store |-> s, file |-> f, mode |-> m]]]
  /\ UNCHANGED <<row, side, purged, files, last, reworked, local, exports>>

\* lines are applied in file order, each in a transaction of its own
Incoming(p, i) == job[p].file.row[i]
Stored(p, i) == row[job[p].store][i]
KnownLive(p, i) == Stored(p, i) = "live"
Known(p, i) == Stored(p, i) # "absent"
DeniedNever(p, i) == FALSE
Denied(p, i) == i \in purged[job[p].store]
New(p, i) == ~Known(p, i) /\ ~Denied(p, i)
\* what a peer says about superseded rows is dropped before anything else
Heard(p, i) == ~(job[p].mode = "peer" /\ Incoming(p, i) = "dead")
Reading(p, i) == Working(p) /\ i \in job[p].todo /\ \A j \in job[p].todo : i <= j

Done(j, i) == [j EXCEPT !.todo = @ \ {i}]
Folded(j, i) == [j EXCEPT !.todo = @ \ {i}, !.folded = @ \union {i}]
Landed(j, i) == [j EXCEPT !.todo = @ \ {i}, !.landed = @ \union {i}, !.cache = @ \union {i}]
Rework(p, what) ==
  reworked' = IF job[p].again THEN reworked \union {[mode |-> job[p].mode, what |-> what]} ELSE reworked

\* the line changes nothing: refused, denied, or known and not tombstoned by it
Pass(p, i) ==
  /\ Reading(p, i)
  /\ \/ ~Heard(p, i)
     \/ ~Known(p, i) /\ Denied(p, i)
     \/ Known(p, i) /\ ~(Incoming(p, i) = "dead" /\ Stored(p, i) = "live" /\ job[p].mode = "own")
  /\ job' = [job EXCEPT ![p] = Done(@, i)]
  /\ UNCHANGED <<row, side, purged, files, last, reworked, local, exports, ingests>>

Tombstone(p, i) ==
  /\ Reading(p, i) /\ Incoming(p, i) = "dead" /\ Stored(p, i) = "live" /\ job[p].mode = "own"
  /\ Superseded(job[p].store, i)
  /\ job' = [Elsewhere(job[p].store, {p}) EXCEPT ![p] = Done(@, i)]
  /\ Touch(job[p].store) /\ Rework(p, "rows")
  /\ UNCHANGED <<purged, files, local, exports, ingests>>

\* a new row that is superseded already lands as history
History(p, i) ==
  /\ Reading(p, i) /\ Heard(p, i) /\ New(p, i) /\ Incoming(p, i) = "dead"
  /\ row' = [row EXCEPT ![job[p].store][i] = "dead"]
  /\ job' = [Elsewhere(job[p].store, {p}) EXCEPT ![p] = Done(@, i)]
  /\ Touch(job[p].store) /\ Rework(p, "rows")
  /\ UNCHANGED <<side, purged, files, local, exports, ingests>>

\* a hit of the cache counts when its row is live still; a peer's row never folds
TwinsCached(p, i) == {j \in job[p].cache : job[p].mode # "peer" /\ Text[j] = Text[i]}
TwinsOfAny(p, i)  == {j \in job[p].cache : Text[j] = Text[i] /\ row[job[p].store][j] = "live"}
Twins(p, i) == {j \in TwinsCached(p, i) : row[job[p].store][j] = "live"}

\* The keeper is written: its counters and last_retrieved, tags, taint, confidence.
Fold(p, i) ==
  /\ Reading(p, i) /\ New(p, i) /\ Incoming(p, i) = "live" /\ Twins(p, i) # {}
  /\ job' = [job EXCEPT ![p] = Folded(@, i)] /\ Rework(p, "keeper")
  /\ UNCHANGED <<row, side, purged, files, last, local, exports, ingests>>

\* the expiry record the file has for a live row is committed together with it
PairNone(p, i) == {}
Pair(p, i) == {i} \cap job[p].file.side \cap StateIds

Land(p, i) ==
  LET s == job[p].store IN
  /\ Reading(p, i) /\ New(p, i) /\ Incoming(p, i) = "live" /\ Twins(p, i) = {}
  /\ row' = [row EXCEPT ![s][i] = "live"]
  /\ side' = [side EXCEPT ![s] = @ \union Pair(p, i)]
  /\ job' = [Elsewhere(s, {p}) EXCEPT ![p] = Landed(@, i)]
  /\ Touch(s) /\ Rework(p, "rows")
  /\ UNCHANGED <<purged, files, local, exports, ingests>>

\* After the last line: the records of no row that landed, which need a live
\* parent without one; a peer's are refused.
Leftover(p) ==
  {i \in (job[p].file.side \cap StateIds) \ (job[p].landed \union job[p].folded) :
     job[p].mode # "peer" /\ row[job[p].store][i] = "live"}

Finish(p) ==
  LET s == job[p].store IN
  /\ Working(p) /\ job[p].todo = {}
  /\ side' = [side EXCEPT ![s] = @ \union Leftover(p)]
  /\ job' = [job EXCEPT ![p] = None]
  /\ last' = IF job[p].quiet THEN [last EXCEPT ![s] = [store |-> s, file |-> job[p].file, mode |-> job[p].mode]] ELSE last
  /\ UNCHANGED <<row, purged, files, reworked, local, exports, ingests>>

Kill(p) ==
  /\ Working(p) /\ job' = [job EXCEPT ![p] = None]
  /\ UNCHANGED <<row, side, purged, files, last, reworked, local, exports, ingests>>

-----------------------------------------------------------------------------
(* The strict lane: no dedup, and one transaction, which any row or record *)
(* that cannot be applied rolls back.                                      *)

Merged(s, f) ==
  [i \in Ids |->
     IF f.row[i] = "absent" \/ (row[s][i] = "absent" /\ i \in purged[s]) THEN row[s][i]
     ELSE IF row[s][i] = "dead" THEN "dead" ELSE f.row[i]]
StrictSide(s, f) == (side[s] \ {i \in Ids : Merged(s, f)[i] = "dead"}) \union (f.side \ purged[s])

Strict(s, f) ==
  /\ "strict" \in Modes /\ ingests < MaxIngests /\ ingests' = ingests + 1
  /\ \A i \in f.side \ purged[s] : Merged(s, f)[i] = "live"
  /\ row' = [row EXCEPT ![s] = Merged(s, f)]
  /\ side' = [side EXCEPT ![s] = StrictSide(s, f)]
  /\ job' = Elsewhere(s, {}) /\ Touch(s)
  /\ UNCHANGED <<purged, files, reworked, local, exports>>
-----------------------------------------------------------------------------
Next ==
  \/ \E s \in Stores :
       \/ \E i \in Ids : Add(s, i) \/ Supersede(s, i) \/ Purge(s, i)
       \/ \E whole \in BOOLEAN : Export(s, whole)
       \/ \E f \in files : Strict(s, f)
       \/ \E f \in files, p \in Jobs, m \in Modes : Start(p, s, f, m)
  \/ \E p \in Jobs :
       \/ \E i \in Ids : Pass(p, i) \/ Tombstone(p, i) \/ History(p, i) \/ Fold(p, i) \/ Land(p, i)
       \/ Finish(p) \/ Kill(p)
Spec == Init /\ [][Next]_vars

-----------------------------------------------------------------------------
Rows  == [Ids -> Status]
\* A file that was not asked for tombstones has none, and each live state row of it
\* has its expiry record.
Files == {f \in [whole : BOOLEAN, row : Rows, side : SUBSET Ids] :
            /\ f.side = {i \in StateIds : f.row[i] = "live"}
            /\ ~f.whole => \A i \in Ids : f.row[i] # "dead"}
Ingests == [store : Stores, file : Files, mode : Modes, todo : SUBSET Ids, cache : SUBSET Ids,
            landed : SUBSET Ids, folded : SUBSET Ids, quiet : BOOLEAN, again : BOOLEAN]

TypeOK ==
  /\ row \in [Stores -> Rows] /\ side \in [Stores -> SUBSET Ids] /\ purged \in [Stores -> SUBSET Ids]
  /\ files \in SUBSET Files
  /\ job \in [Jobs -> {None} \union Ingests]
  /\ reworked \in SUBSET [mode : Modes, what : {"rows", "keeper"}]
  /\ local \in 0 .. MaxLocal /\ exports \in 0 .. MaxExports /\ ingests \in 0 .. MaxIngests

\* "An id that is absent because it was PURGED must not read as genuinely new"
\* (sync.py, _ingest_row): no file, however old, brings back a purged row.
PurgedStaysGone == \A s \in Stores : \A i \in purged[s] : row[s][i] = "absent"

\* "a live state row commits atomically WITH its side record so no concurrent reader
\* can observe the half-applied pair" (#347), and no record outlives its parent
\* (#173), whatever is killed or runs beside it.
ExpiryPaired == \A s \in Stores : side[s] = {i \in StateIds : row[s][i] = "live"}

\* An ingest that ran to its end, alone on its store, has applied its file: each
\* live row of it is known there, or denied, or its text is live in another row; and
\* its tombstones hold.  (Except that a row folded into a keeper whose tombstone
\* comes later in the same file goes with the keeper: see ReplayKeepsRows.)
FileApplied ==
  \A p \in Jobs : (Working(p) /\ job[p].todo = {} /\ job[p].quiet) =>
    LET s == job[p].store  f == job[p].file IN
    \A i \in Ids :
      /\ f.row[i] = "live" => \/ row[s][i] # "absent" \/ i \in purged[s] \/ LiveWith(s, Text[i]) # {}
                              \/ \E j \in Ids : j > i /\ Text[j] = Text[i] /\ f.row[j] = "dead"
      /\ f.row[i] = "dead" /\ job[p].mode = "own" => row[s][i] # "live"

\* "re-ingesting the same file is an exact no-op" (SKILL.md:3069, 3102): an ingest of
\* the file and in the mode that made the store what it is adds, tombstones and
\* revives no row.
ReplayKeepsRows == \A x \in reworked : x.what # "rows"

\* What is so: a peer's replay changes nothing; a plain one adds, tombstones and revives
\* no row, and writes the keepers its lines fold into.
PlainReplayKeepsRows ==
  \A x \in reworked : x.mode = "own" \/ (x.mode = "plain" /\ x.what = "keeper")

\* "Tombstone ... does not delete — keeps history" (supersede_memory), and append-only
\* history is never revived: not by an older file of another store, nor by a strict
\* import.
DeadStaysDead == [][\A s \in Stores, i \in Ids : row[s][i] = "dead" => row'[s][i] # "live"]_vars

\* "a peer is never authoritative over a row it did not author" (#282): a line of a
\* peer's file changes no row, no record and no merged field of a row that was there.
PeerTouchesNothing ==
  [][\A p \in Jobs : (Working(p) /\ job[p].mode = "peer" /\ job'[p] # None /\ job'[p].todo # job[p].todo) =>
       /\ job'[p].folded = {}
       /\ \A s \in Stores, i \in Ids : row[s][i] # "absent" =>
            row'[s][i] = row[s][i] /\ (i \in side'[s] <=> i \in side[s])]_vars
=============================================================================
