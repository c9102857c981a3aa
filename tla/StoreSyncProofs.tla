--------------------------- MODULE StoreSyncProofs ---------------------------
(***************************************************************************)
(* Proofs about the exchange of rows between stores, for any number of     *)
(* stores, rows, files and ingests, any of them killed at any line.        *)
(*                                                                         *)
(* The argument: an ingest that is alone on its store has the store's live *)
(* rows in its cache, so each line it is past is applied (JobInv); a store *)
(* whose last change was such an ingest is a fixpoint of it (LastInv), and *)
(* a second run finds no line left to apply.                               *)
(***************************************************************************)
EXTENDS StoreSync, TLAPS

\* With the rows r and the deny-list d, line i of file f has nothing left to do.
Applied(r, d, f, m, i) ==
  /\ f.row[i] = "live" =>
       \/ r[i] # "absent" \/ i \in d
       \/ m # "peer" /\ \E j \in Ids : r[j] = "live" /\ Text[j] = Text[i]
       \/ m = "own" /\ \E j \in Ids : j > i /\ Text[j] = Text[i] /\ f.row[j] = "dead"
  /\ f.row[i] = "dead" => m = "peer" \/ r[i] # "absent" \/ i \in d
  /\ f.row[i] = "dead" /\ m = "own" => r[i] # "live"

AppliedAt(s, f, m, S) == \A i \in S : Applied(row[s], purged[s], f, m, i)

JobInv(p) == Working(p) =>
  /\ job[p].mode # "strict" /\ job[p].todo \subseteq Lines(job[p].file)
  /\ \A i \in Lines(job[p].file) \ job[p].todo, j \in job[p].todo : i < j
  /\ job[p].quiet =>
       /\ \A i \in Ids : row[job[p].store][i] = "live" => i \in job[p].cache
       /\ AppliedAt(job[p].store, job[p].file, job[p].mode, Lines(job[p].file) \ job[p].todo)
  /\ job[p].again => /\ job[p].quiet
                     /\ job[p].mode # "own" =>
                          AppliedAt(job[p].store, job[p].file, job[p].mode, Lines(job[p].file))

LastTypes == last \in [Stores -> {None} \union [store : Stores, file : Files, mode : Modes]]

LastInv(s) == last[s] # None =>
  /\ last[s].store = s
  /\ last[s].mode # "own" => AppliedAt(s, last[s].file, last[s].mode, Lines(last[s].file))

IInv == /\ TypeOK /\ PurgedStaysGone /\ ExpiryPaired /\ LastTypes /\ PlainReplayKeepsRows
        /\ \A p \in Jobs : JobInv(p)
        /\ \A s \in Stores : LastInv(s)

-----------------------------------------------------------------------------
(* What the steps do to an ingest.                                         *)

\* The fields of an ingest whose line is done.
LEMMA DoneFields ==
  ASSUME NEW j \in Ingests, NEW i \in Ids
  PROVE  /\ Done(j, i) \in Ingests /\ Done(j, i).todo = j.todo \ {i}
         /\ Done(j, i).store = j.store /\ Done(j, i).file = j.file /\ Done(j, i).mode = j.mode
         /\ Done(j, i).cache = j.cache /\ Done(j, i).landed = j.landed /\ Done(j, i).folded = j.folded
         /\ Done(j, i).quiet = j.quiet /\ Done(j, i).again = j.again
BY DEF Done, Ingests

\* A change of a store makes the others of its ingests no longer quiet, and nothing else.
LEMMA ElsewhereFields ==
  ASSUME job \in [Jobs -> {None} \union Ingests], NEW s \in Stores, NEW P, NEW q \in Jobs
  PROVE  /\ Elsewhere(s, P) \in [Jobs -> {None} \union Ingests]
         /\ ~Working(q) => Elsewhere(s, P)[q] = None
         /\ q \in P \/ job[q].store # s => Elsewhere(s, P)[q] = job[q]
         /\ Working(q) =>
              /\ Elsewhere(s, P)[q] \in Ingests
              /\ Elsewhere(s, P)[q].store = job[q].store /\ Elsewhere(s, P)[q].file = job[q].file
              /\ Elsewhere(s, P)[q].mode = job[q].mode /\ Elsewhere(s, P)[q].todo = job[q].todo
              /\ Elsewhere(s, P)[q].cache = job[q].cache
              /\ Elsewhere(s, P)[q].quiet => q \in P \/ job[q].store # s
              /\ Elsewhere(s, P)[q].again => q \in P \/ job[q].store # s
<1> DEFINE Marked(j) == [j EXCEPT !.quiet = FALSE, !.again = FALSE]
<1>1. ASSUME NEW j \in Ingests
      PROVE  /\ Marked(j) \in Ingests /\ Marked(j).store = j.store /\ Marked(j).file = j.file
             /\ Marked(j).mode = j.mode /\ Marked(j).todo = j.todo /\ Marked(j).cache = j.cache
             /\ Marked(j).quiet = FALSE /\ Marked(j).again = FALSE
  BY DEF Ingests
<1>2. \A r \in Jobs : Working(r) => job[r] \in Ingests
  BY DEF Working
<1>3. Elsewhere(s, P) = [r \in Jobs |-> IF Working(r) /\ r \notin P /\ job[r].store = s THEN Marked(job[r]) ELSE job[r]]
  BY DEF Elsewhere
<1> HIDE DEF Marked
<1>4. Elsewhere(s, P) \in [Jobs -> {None} \union Ingests]
  BY <1>1, <1>2, <1>3
<1>5. CASE Working(q) /\ q \notin P /\ job[q].store = s
  <2>1. Elsewhere(s, P)[q] = Marked(job[q]) /\ job[q] \in Ingests
    BY <1>2, <1>3, <1>5
  <2> QED BY <2>1, <1>1, <1>4, <1>5
<1>6. CASE ~(Working(q) /\ q \notin P /\ job[q].store = s)
  BY <1>2, <1>3, <1>4, <1>6 DEF Working
<1> QED BY <1>5, <1>6

\* The ingests outside P go on as they were, not quiet if on a store in S.
Others(S, P) == \A q \in Jobs \ P :
  /\ ~Working(q) => job'[q] = None
  /\ Working(q) =>
       /\ job'[q] \in Ingests
       /\ job'[q].store = job[q].store /\ job'[q].file = job[q].file
       /\ job'[q].mode = job[q].mode /\ job'[q].todo = job[q].todo /\ job'[q].cache = job[q].cache
       /\ IF job[q].store \in S THEN ~job'[q].quiet /\ ~job'[q].again ELSE job'[q] = job[q]

Beside(S) == \A t \in Stores \ S : row'[t] = row[t] /\ purged'[t] = purged[t]

LEMMA OthersKeep ==
  ASSUME IInv, NEW S, NEW P, Others(S, P), Beside(S), NEW q \in Jobs, q \notin P
  PROVE  JobInv(q)'
<1> SUFFICES ASSUME Working(q)' PROVE JobInv(q)'
  BY DEF JobInv
<1>1. Working(q) /\ job[q] \in Ingests /\ JobInv(q)
  BY DEF Working, Others, IInv, TypeOK
<1>2. job[q].store \in Stores
  BY <1>1 DEF Ingests
<1>3. job[q].store \notin S => row'[job[q].store] = row[job[q].store] /\ purged'[job[q].store] = purged[job[q].store]
  BY <1>2 DEF Beside
<1>4. /\ job'[q].store = job[q].store /\ job'[q].file = job[q].file
      /\ job'[q].mode = job[q].mode /\ job'[q].todo = job[q].todo /\ job'[q].cache = job[q].cache
      /\ IF job[q].store \in S THEN ~job'[q].quiet /\ ~job'[q].again ELSE job'[q] = job[q]
  BY <1>1 DEF Others
<1>5. Lines(job[q].file)' = Lines(job[q].file)
  BY <1>4 DEF Lines
<1>6. (job[q].mode # "strict" /\ job[q].todo \subseteq Lines(job[q].file))'
      /\ (\A i \in Lines(job[q].file) \ job[q].todo, j \in job[q].todo : i < j)'
  BY <1>1, <1>4, <1>5 DEF JobInv
<1>7. ASSUME job'[q].quiet
      PROVE  (/\ \A i \in Ids : row[job[q].store][i] = "live" => i \in job[q].cache
              /\ AppliedAt(job[q].store, job[q].file, job[q].mode, Lines(job[q].file) \ job[q].todo))'
  BY <1>1, <1>3, <1>4, <1>5, <1>7 DEF JobInv, AppliedAt
<1>8. ASSUME job'[q].again
      PROVE  (/\ job[q].quiet
              /\ job[q].mode # "own" => AppliedAt(job[q].store, job[q].file, job[q].mode, Lines(job[q].file)))'
  BY <1>1, <1>3, <1>4, <1>5, <1>8 DEF JobInv, AppliedAt
<1> QED BY <1>6, <1>7, <1>8 DEF JobInv

LEMMA LastKeeps ==
  ASSUME IInv, NEW t \in Stores, last'[t] = last[t], row'[t] = row[t], purged'[t] = purged[t]
  PROVE  LastInv(t)'
<1>1. LastInv(t)
  BY DEF IInv
<1>2. \A f : Lines(f)' = Lines(f)
  BY DEF Lines
<1> QED BY <1>1 DEF LastInv, AppliedAt, Lines

\* A step that changes one store, forgets what made it, and disturbs its other ingests.
LEMMA StoreChanged ==
  ASSUME IInv, NEW s \in Stores, NEW P, Others({s}, P), Beside({s}), Touch(s)
  PROVE  /\ LastTypes' /\ \A t \in Stores : LastInv(t)'
         /\ \A q \in Jobs \ P : JobInv(q)'
<1>1. last' = [last EXCEPT ![s] = None] /\ LastTypes
  BY DEF Touch, IInv
<1>2. LastTypes'
  BY <1>1 DEF LastTypes
<1>3. ASSUME NEW t \in Stores PROVE LastInv(t)'
  <2>1. CASE t = s
    BY <1>1, <2>1 DEF LastInv, LastTypes
  <2>2. CASE t # s
    BY <1>1, <2>2, LastKeeps DEF Beside, LastTypes
  <2> QED BY <2>1, <2>2
<1>4. ASSUME NEW q \in Jobs, q \notin P PROVE JobInv(q)'
  BY <1>4, OthersKeep
<1> QED BY <1>2, <1>3, <1>4

\* A step that changes no store but what an ingest p is doing.
LEMMA StoresKept ==
  ASSUME IInv, NEW p \in Jobs, NEW x \in {None} \union Ingests, job' = [job EXCEPT ![p] = x],
         UNCHANGED <<row, purged>>
  PROVE  /\ job' \in [Jobs -> {None} \union Ingests] /\ job'[p] = x
         /\ \A q \in Jobs \ {p} : JobInv(q)'
<1>1. job \in [Jobs -> {None} \union Ingests]
  BY DEF IInv, TypeOK
<1>2. Others({}, {p}) /\ Beside({})
  BY <1>1 DEF Others, Beside, Working
<1>3. ASSUME NEW q \in Jobs \ {p} PROVE JobInv(q)'
  BY <1>2, OthersKeep
<1> QED BY <1>1, <1>3

\* A command, or the strict lane, changes a store under every ingest.
LEMMA CommandKeeps ==
  ASSUME IInv, NEW s \in Stores, job' = Elsewhere(s, {}), Touch(s), Beside({s})
  PROVE  /\ job' \in [Jobs -> {None} \union Ingests] /\ LastTypes'
         /\ \A t \in Stores : LastInv(t)'
         /\ \A q \in Jobs : JobInv(q)'
<1>1. job \in [Jobs -> {None} \union Ingests]
  BY DEF IInv, TypeOK
<1>2. Others({s}, {})
  <2> SUFFICES ASSUME NEW q \in Jobs
               PROVE  /\ ~Working(q) => job'[q] = None
                      /\ Working(q) =>
                           /\ job'[q] \in Ingests
                           /\ job'[q].store = job[q].store /\ job'[q].file = job[q].file
                           /\ job'[q].mode = job[q].mode /\ job'[q].todo = job[q].todo
                           /\ job'[q].cache = job[q].cache
                           /\ IF job[q].store \in {s} THEN ~job'[q].quiet /\ ~job'[q].again
                                                       ELSE job'[q] = job[q]
    BY DEF Others
  <2> QED BY <1>1, ElsewhereFields
<1>3. job' \in [Jobs -> {None} \union Ingests]
  <2>1. CASE Jobs = {}
    BY <2>1, <1>1 DEF Elsewhere
  <2>2. CASE Jobs # {}
    BY <2>2, <1>1, ElsewhereFields
  <2> QED BY <2>1, <2>2
<1> QED BY <1>2, <1>3, StoreChanged

\* A line of p changes p's store: the other ingests are disturbed, p goes on as x.
LEMMA LineKeeps ==
  ASSUME IInv, NEW p \in Jobs, Working(p), NEW x \in Ingests, NEW s \in Stores,
         job' = [Elsewhere(s, {p}) EXCEPT ![p] = x], Touch(s), Beside({s})
  PROVE  /\ job' \in [Jobs -> {None} \union Ingests] /\ LastTypes' /\ job'[p] = x
         /\ \A t \in Stores : LastInv(t)'
         /\ \A q \in Jobs \ {p} : JobInv(q)'
<1>1. job \in [Jobs -> {None} \union Ingests]
  BY DEF IInv, TypeOK
<1>2. Elsewhere(s, {p}) \in [Jobs -> {None} \union Ingests]
  BY <1>1, ElsewhereFields
<1>3. Others({s}, {p})
  <2> SUFFICES ASSUME NEW q \in Jobs \ {p}
               PROVE  /\ ~Working(q) => job'[q] = None
                      /\ Working(q) =>
                           /\ job'[q] \in Ingests
                           /\ job'[q].store = job[q].store /\ job'[q].file = job[q].file
                           /\ job'[q].mode = job[q].mode /\ job'[q].todo = job[q].todo
                           /\ job'[q].cache = job[q].cache
                           /\ IF job[q].store \in {s} THEN ~job'[q].quiet /\ ~job'[q].again
                                                       ELSE job'[q] = job[q]
    BY DEF Others
  <2>1. job'[q] = Elsewhere(s, {p})[q]
    BY <1>2
  <2> QED BY <1>1, <2>1, ElsewhereFields
<1> QED BY <1>2, <1>3, StoreChanged

-----------------------------------------------------------------------------
(* The commands.                                                           *)

LEMMA AddKeeps ==
  ASSUME IInv, NEW s \in Stores, NEW i \in Ids, Add(s, i) PROVE IInv'
<1> USE SyncAssumption
<1>1. /\ job' = Elsewhere(s, {}) /\ Touch(s) /\ local' \in 0 .. MaxLocal
      /\ UNCHANGED <<purged, files, reworked, exports, ingests>>
  BY DEF Add, Local, IInv, TypeOK
<1>2. /\ row' = [row EXCEPT ![s][i] = "live"] /\ row[s][i] = "absent" /\ i \notin purged[s]
      /\ side' = [side EXCEPT ![s] = @ \union ({i} \cap StateIds)]
  BY DEF Add
<1>3. /\ job' \in [Jobs -> {None} \union Ingests] /\ LastTypes'
      /\ \A t \in Stores : LastInv(t)' /\ \A q \in Jobs : JobInv(q)'
  BY <1>1, <1>2, CommandKeeps DEF Beside, IInv, TypeOK, Rows
<1>4. TypeOK'
  BY <1>1, <1>2, <1>3 DEF IInv, TypeOK, Rows, Status
<1>5. PurgedStaysGone'
  BY <1>1, <1>2 DEF IInv, TypeOK, Rows, PurgedStaysGone
<1>6. ExpiryPaired'
  BY <1>2 DEF IInv, TypeOK, Rows, ExpiryPaired
<1> QED BY <1>1, <1>3, <1>4, <1>5, <1>6 DEF IInv, PlainReplayKeepsRows

LEMMA SupersedeKeeps ==
  ASSUME IInv, NEW s \in Stores, NEW i \in Ids, Supersede(s, i) PROVE IInv'
<1> USE SyncAssumption
<1>1. /\ job' = Elsewhere(s, {}) /\ Touch(s) /\ local' \in 0 .. MaxLocal
      /\ UNCHANGED <<purged, files, reworked, exports, ingests>>
  BY DEF Supersede, Local, IInv, TypeOK
<1>2. /\ row' = [row EXCEPT ![s][i] = "dead"] /\ row[s][i] = "live"
      /\ side' = [side EXCEPT ![s] = @ \ {i}]
  BY DEF Supersede, Superseded
<1>3. /\ job' \in [Jobs -> {None} \union Ingests] /\ LastTypes'
      /\ \A t \in Stores : LastInv(t)' /\ \A q \in Jobs : JobInv(q)'
  BY <1>1, <1>2, CommandKeeps DEF Beside, IInv, TypeOK, Rows
<1>4. TypeOK'
  BY <1>1, <1>2, <1>3 DEF IInv, TypeOK, Rows, Status
<1>5. PurgedStaysGone'
  BY <1>1, <1>2 DEF IInv, TypeOK, Rows, PurgedStaysGone
<1>6. ExpiryPaired'
  BY <1>2 DEF IInv, TypeOK, Rows, ExpiryPaired
<1> QED BY <1>1, <1>3, <1>4, <1>5, <1>6 DEF IInv, PlainReplayKeepsRows

LEMMA PurgeKeeps ==
  ASSUME IInv, NEW s \in Stores, NEW i \in Ids, Purge(s, i) PROVE IInv'
<1> USE SyncAssumption
<1>1. /\ job' = Elsewhere(s, {}) /\ Touch(s) /\ local' \in 0 .. MaxLocal
      /\ UNCHANGED <<files, reworked, exports, ingests>>
  BY DEF Purge, Local, IInv, TypeOK
<1>2. /\ row' = [row EXCEPT ![s][i] = "absent"] /\ purged' = [purged EXCEPT ![s] = @ \union {i}]
      /\ side' = [side EXCEPT ![s] = @ \ {i}]
  BY DEF Purge
<1>3. /\ job' \in [Jobs -> {None} \union Ingests] /\ LastTypes'
      /\ \A t \in Stores : LastInv(t)' /\ \A q \in Jobs : JobInv(q)'
  BY <1>1, <1>2, CommandKeeps DEF Beside, IInv, TypeOK, Rows
<1>4. TypeOK'
  BY <1>1, <1>2, <1>3 DEF IInv, TypeOK, Rows, Status
<1>5. PurgedStaysGone'
  BY <1>2 DEF IInv, TypeOK, Rows, PurgedStaysGone
<1>6. ExpiryPaired'
  BY <1>2 DEF IInv, TypeOK, Rows, ExpiryPaired
<1> QED BY <1>1, <1>3, <1>4, <1>5, <1>6 DEF IInv, PlainReplayKeepsRows

LEMMA StrictKeeps ==
  ASSUME IInv, NEW s \in Stores, NEW f \in files, Strict(s, f) PROVE IInv'
<1> USE SyncAssumption
<1>1. /\ job' = Elsewhere(s, {}) /\ Touch(s) /\ ingests' \in 0 .. MaxIngests
      /\ UNCHANGED <<purged, files, reworked, local, exports>>
  BY DEF Strict, IInv, TypeOK
<1>2. /\ row' = [row EXCEPT ![s] = Merged(s, f)] /\ side' = [side EXCEPT ![s] = StrictSide(s, f)]
      /\ \A i \in f.side \ purged[s] : Merged(s, f)[i] = "live"
  BY DEF Strict
<1>3. f \in Files /\ f.row \in Rows /\ f.side = {i \in StateIds : f.row[i] = "live"} /\ row[s] \in Rows
  BY DEF IInv, TypeOK, Files
<1>4. Merged(s, f) \in Rows
  BY <1>3 DEF Merged, Rows
<1>5. /\ job' \in [Jobs -> {None} \union Ingests] /\ LastTypes'
      /\ \A t \in Stores : LastInv(t)' /\ \A q \in Jobs : JobInv(q)'
  BY <1>1, <1>2, CommandKeeps DEF Beside, IInv, TypeOK
<1>6. TypeOK'
  <2>1. row' \in [Stores -> Rows]
    BY <1>2, <1>4 DEF IInv, TypeOK
  <2>2. side' \in [Stores -> SUBSET Ids]
    BY <1>2, <1>3 DEF IInv, TypeOK, StrictSide
  <2> QED BY <1>1, <1>5, <2>1, <2>2 DEF IInv, TypeOK
<1>7. PurgedStaysGone'
  BY <1>1, <1>2, <1>3 DEF IInv, TypeOK, PurgedStaysGone, Merged
<1>8. ExpiryPaired'
  <2>1. StrictSide(s, f) = {i \in StateIds : Merged(s, f)[i] = "live"}
    <3>1. side[s] = {i \in StateIds : row[s][i] = "live"}
      BY DEF IInv, ExpiryPaired
    <3>2. \A i \in purged[s] : row[s][i] = "absent"
      BY DEF IInv, PurgedStaysGone
    <3> QED BY <1>2, <1>3, <3>1, <3>2 DEF StrictSide, Merged, Rows, Status
  <2> QED BY <1>2, <2>1 DEF IInv, TypeOK, ExpiryPaired
<1> QED BY <1>1, <1>5, <1>6, <1>7, <1>8 DEF IInv, PlainReplayKeepsRows

LEMMA ExportKeeps ==
  ASSUME IInv, NEW s \in Stores, NEW whole \in BOOLEAN, Export(s, whole) PROVE IInv'
<1> USE SyncAssumption
<1>1. /\ files' = files \union {Exported(s, whole)} /\ exports' \in 0 .. MaxExports
      /\ UNCHANGED <<row, side, purged, job, last, reworked, local, ingests>>
  BY DEF Export, IInv, TypeOK
<1>2. Exported(s, whole) \in Files
  <2>1. row[s] \in Rows /\ side[s] = {i \in StateIds : row[s][i] = "live"}
    BY DEF IInv, TypeOK, ExpiryPaired
  <2> DEFINE out == {i \in Ids : row[s][i] = "live" \/ (whole /\ row[s][i] = "dead")}
             kept == [i \in Ids |-> IF i \in out THEN row[s][i] ELSE "absent"]
  <2>2. kept \in Rows /\ (~whole => \A i \in Ids : kept[i] # "dead")
    BY <2>1 DEF Rows, Status
  <2>3. side[s] \cap out = {i \in StateIds : kept[i] = "live"}
    BY <2>1
  <2>4. Exported(s, whole) = [whole |-> whole, side |-> side[s] \cap out, row |-> kept]
    BY DEF Exported
  <2> HIDE DEF kept, out
  <2>5. side[s] \cap out \in SUBSET Ids
    BY DEF IInv, TypeOK
  <2> QED BY <2>2, <2>3, <2>4, <2>5 DEF Files
<1>3. TypeOK'
  BY <1>1, <1>2 DEF IInv, TypeOK
<1>4. \A t \in Stores : LastInv(t)'
  BY <1>1, LastKeeps
<1>5. \A q \in Jobs : JobInv(q)'
  <2>1. Others({}, {}) /\ Beside({})
    BY <1>1 DEF Others, Beside, Working, IInv, TypeOK
  <2> QED BY <2>1, OthersKeep
<1> QED BY <1>1, <1>3, <1>4, <1>5 DEF IInv, LastTypes, PurgedStaysGone, ExpiryPaired, PlainReplayKeepsRows

-----------------------------------------------------------------------------
(* The lines of a file.                                                    *)

\* An ingest past one more line, which is applied, has applied the lines it is past.
LEMMA LineApplied ==
  ASSUME IInv, NEW p \in Jobs, NEW i \in Ids, Reading(p, i), NEW x \in Ingests, job'[p] = x,
         x.store = job[p].store, x.file = job[p].file, x.mode = job[p].mode,
         x.quiet = job[p].quiet, x.again = job[p].again, x.todo = job[p].todo \ {i},
         job[p].quiet =>
           /\ \A j \in Ids : row'[job[p].store][j] = "live" => j \in x.cache
           /\ \A j \in Lines(job[p].file) \ (job[p].todo \ {i}) :
                Applied(row'[job[p].store], purged'[job[p].store], job[p].file, job[p].mode, j),
         job[p].again /\ job[p].mode # "own" =>
           row'[job[p].store] = row[job[p].store] /\ purged'[job[p].store] = purged[job[p].store]
  PROVE  JobInv(p)'
<1>1. JobInv(p) /\ Working(p) /\ i \in job[p].todo /\ \A j \in job[p].todo : i <= j
  BY DEF IInv, Reading
<1>2. Lines(job[p].file)' = Lines(job[p].file)
  BY DEF Lines
<1>3. Lines(job[p].file) \in SUBSET Nat
  BY SyncAssumption DEF Lines
<1>4. \A k \in Lines(job[p].file) \ (job[p].todo \ {i}), j \in job[p].todo \ {i} : k < j
  <2> SUFFICES ASSUME NEW k \in Lines(job[p].file) \ (job[p].todo \ {i}), NEW j \in job[p].todo \ {i}
               PROVE  k < j
    OBVIOUS
  <2>1. CASE k = i
    <3>1. i <= j /\ i # j /\ i \in Nat /\ j \in Nat
      BY <1>1, <1>3 DEF JobInv
    <3> QED BY <2>1, <3>1
  <2>2. CASE k # i
    BY <1>1, <2>2 DEF JobInv
  <2> QED BY <2>1, <2>2
<1>5. (/\ job[p].mode # "strict" /\ job[p].todo \subseteq Lines(job[p].file)
       /\ \A k \in Lines(job[p].file) \ job[p].todo, j \in job[p].todo : k < j)'
  BY <1>1, <1>2, <1>4 DEF JobInv
<1>6. (job[p].quiet =>
        /\ \A j \in Ids : row[job[p].store][j] = "live" => j \in job[p].cache
        /\ AppliedAt(job[p].store, job[p].file, job[p].mode, Lines(job[p].file) \ job[p].todo))'
  BY <1>2 DEF AppliedAt
<1>7. (job[p].again =>
        /\ job[p].quiet
        /\ job[p].mode # "own" => AppliedAt(job[p].store, job[p].file, job[p].mode, Lines(job[p].file)))'
  BY <1>1, <1>2 DEF JobInv, AppliedAt
<1> QED BY <1>5, <1>6, <1>7 DEF JobInv

\* A line of p that changes no store.
LEMMA QuietLine ==
  ASSUME IInv, NEW p \in Jobs, NEW i \in Ids, Reading(p, i), NEW x \in Ingests,
         job' = [job EXCEPT ![p] = x], x.store = job[p].store, x.file = job[p].file,
         x.mode = job[p].mode, x.quiet = job[p].quiet, x.again = job[p].again,
         x.todo = job[p].todo \ {i}, x.cache = job[p].cache,
         UNCHANGED <<row, side, purged, files, last, local, exports, ingests>>,
         reworked' \in SUBSET [mode : Modes, what : {"rows", "keeper"}], PlainReplayKeepsRows',
         job[p].quiet =>
           Applied(row[job[p].store], purged[job[p].store], job[p].file, job[p].mode, i)
  PROVE  IInv'
<1>1. /\ job' \in [Jobs -> {None} \union Ingests] /\ job'[p] = x
      /\ \A q \in Jobs \ {p} : JobInv(q)'
  BY StoresKept
<1>2. JobInv(p) /\ Working(p)
  BY DEF IInv, Reading
<1>3. JobInv(p)'
  <2>1. job[p].quiet => \A j \in Lines(job[p].file) \ (job[p].todo \ {i}) :
          Applied(row'[job[p].store], purged'[job[p].store], job[p].file, job[p].mode, j)
    BY <1>2 DEF JobInv, AppliedAt
  <2>2. job[p].quiet => \A j \in Ids : row'[job[p].store][j] = "live" => j \in x.cache
    BY <1>2 DEF JobInv
  <2> QED BY <1>1, <2>1, <2>2, LineApplied
<1>4. \A t \in Stores : LastInv(t)'
  BY LastKeeps
<1>5. TypeOK'
  BY <1>1 DEF IInv, TypeOK
<1> QED BY <1>1, <1>3, <1>4, <1>5 DEF IInv, LastTypes, PurgedStaysGone, ExpiryPaired

\* What a step reads of the ingest whose line it applies.
LEMMA ReaderFields ==
  ASSUME IInv, NEW p \in Jobs, NEW i \in Ids, Reading(p, i)
  PROVE  /\ Working(p) /\ job[p] \in Ingests /\ JobInv(p) /\ i \in Lines(job[p].file)
         /\ job[p].store \in Stores /\ job[p].file \in Files /\ job[p].mode \in Modes
         /\ row[job[p].store] \in Rows
<1>1. Working(p) /\ job[p] \in Ingests /\ JobInv(p)
  BY DEF IInv, TypeOK, Reading, Working
<1> QED BY <1>1 DEF Ingests, JobInv, Reading, IInv, TypeOK

LEMMA PassKeeps ==
  ASSUME IInv, NEW p \in Jobs, NEW i \in Ids, Pass(p, i) PROVE IInv'
<1>1. Reading(p, i)
  BY DEF Pass
<1>2. job[p] \in Ingests /\ row[job[p].store] \in Rows /\ i \in Lines(job[p].file) /\ JobInv(p)
  BY <1>1, ReaderFields
<1>3. Applied(row[job[p].store], purged[job[p].store], job[p].file, job[p].mode, i)
  BY <1>2 DEF Pass, Applied, Heard, Known, Denied, Incoming, Stored, Rows, Status
<1>4. /\ job' = [job EXCEPT ![p] = Done(job[p], i)]
      /\ UNCHANGED <<row, side, purged, files, last, reworked, local, exports, ingests>>
  BY DEF Pass
<1>5. reworked' \in SUBSET [mode : Modes, what : {"rows", "keeper"}] /\ PlainReplayKeepsRows'
  BY <1>4 DEF IInv, TypeOK, PlainReplayKeepsRows
<1> QED BY <1>1, <1>2, <1>3, <1>4, <1>5, DoneFields, QuietLine

LEMMA FoldKeeps ==
  ASSUME IInv, NEW p \in Jobs, NEW i \in Ids, Fold(p, i) PROVE IInv'
<1>1. Reading(p, i) /\ Incoming(p, i) = "live" /\ Twins(p, i) # {}
  BY DEF Fold
<1>2. job[p] \in Ingests
  BY <1>1, ReaderFields
<1>3. Applied(row[job[p].store], purged[job[p].store], job[p].file, job[p].mode, i)
  <2>1. PICK j \in job[p].cache : job[p].mode # "peer" /\ Text[j] = Text[i] /\ row[job[p].store][j] = "live"
    BY <1>1 DEF Twins, TwinsCached
  <2>2. j \in Ids
    BY <1>2, <2>1 DEF Ingests
  <2> QED BY <1>1, <2>1, <2>2 DEF Applied, Incoming
<1> DEFINE x == Folded(job[p], i)
<1>4. /\ x \in Ingests /\ x.store = job[p].store /\ x.file = job[p].file
      /\ x.mode = job[p].mode /\ x.quiet = job[p].quiet /\ x.again = job[p].again
      /\ x.todo = job[p].todo \ {i} /\ x.cache = job[p].cache
  BY <1>2 DEF Folded, Ingests
<1>5. /\ job' = [job EXCEPT ![p] = x]
      /\ Rework(p, "keeper")
      /\ UNCHANGED <<row, side, purged, files, last, local, exports, ingests>>
  BY DEF Fold
<1>6. reworked' \in SUBSET [mode : Modes, what : {"rows", "keeper"}] /\ PlainReplayKeepsRows'
  <2>1. job[p].mode \in {"plain", "own"} /\ job[p].mode \in Modes
    <3>1. JobInv(p) /\ Working(p) /\ job[p].mode # "peer" /\ job[p].mode \in Modes
      BY <1>1, ReaderFields DEF Twins, TwinsCached
    <3>2. job[p].mode # "strict"
      BY <3>1 DEF JobInv
    <3> QED BY <3>1, <3>2, SyncAssumption DEF Lanes
  <2> QED BY <1>5, <2>1 DEF Rework, IInv, TypeOK, PlainReplayKeepsRows
<1> HIDE DEF x
<1> QED BY <1>1, <1>3, <1>4, <1>5, <1>6, QuietLine

LEMMA TombstoneKeeps ==
  ASSUME IInv, NEW p \in Jobs, NEW i \in Ids, Tombstone(p, i) PROVE IInv'
<1> USE SyncAssumption
<1> DEFINE s == job[p].store
<1>1. /\ Reading(p, i) /\ job[p].file.row[i] = "dead" /\ row[s][i] = "live" /\ job[p].mode = "own"
      /\ row' = [row EXCEPT ![s][i] = "dead"] /\ side' = [side EXCEPT ![s] = @ \ {i}]
      /\ job' = [Elsewhere(s, {p}) EXCEPT ![p] = Done(Elsewhere(s, {p})[p], i)]
      /\ Touch(s) /\ Rework(p, "rows") /\ UNCHANGED <<purged, files, local, exports, ingests>>
  BY DEF Tombstone, Incoming, Stored, Superseded
<1>2. /\ Working(p) /\ job[p] \in Ingests /\ JobInv(p) /\ i \in Lines(job[p].file)
      /\ s \in Stores /\ job[p].mode \in Modes /\ row[s] \in Rows
  BY <1>1, ReaderFields
<1>3. job' = [Elsewhere(s, {p}) EXCEPT ![p] = Done(job[p], i)]
  <2>1. job \in [Jobs -> {None} \union Ingests] /\ p \in {p}
    BY DEF IInv, TypeOK
  <2>2. Elsewhere(s, {p})[p] = job[p]
    BY <1>2, <2>1, ElsewhereFields
  <2> QED BY <1>1, <2>2
<1>4. /\ job' \in [Jobs -> {None} \union Ingests] /\ LastTypes' /\ job'[p] = Done(job[p], i)
      /\ \A t \in Stores : LastInv(t)' /\ \A q \in Jobs \ {p} : JobInv(q)'
  <2>1. Beside({s})
    BY <1>1, <1>2 DEF Beside, IInv, TypeOK
  <2>2. Done(job[p], i) \in Ingests
    BY <1>2, DoneFields
  <2> QED BY <1>1, <1>2, <1>3, <2>1, <2>2, LineKeeps
<1>5. row'[s] = [row[s] EXCEPT ![i] = "dead"] /\ purged'[s] = purged[s]
  BY <1>1, <1>2 DEF IInv, TypeOK
<1>6. ASSUME job[p].quiet
      PROVE  /\ \A j \in Ids : row'[s][j] = "live" => j \in job[p].cache
             /\ \A j \in Lines(job[p].file) \ (job[p].todo \ {i}) :
                  Applied(row'[s], purged'[s], job[p].file, job[p].mode, j)
  <2>1. \A j \in Ids : row'[s][j] = "live" => j \in job[p].cache
    BY <1>2, <1>5, <1>6 DEF JobInv, Rows
  <2>2. ASSUME NEW j \in Lines(job[p].file) \ (job[p].todo \ {i})
        PROVE  Applied(row'[s], purged'[s], job[p].file, job[p].mode, j)
    <3>1. CASE j = i
      BY <1>1, <1>2, <1>5, <3>1 DEF Applied, Rows
    <3>2. CASE j # i
      <4>1. Applied(row[s], purged[s], job[p].file, job[p].mode, j)
        BY <1>2, <1>6, <3>2 DEF JobInv, AppliedAt
      <4>2. j < i /\ j \in Ids
        BY <1>1, <1>2, <3>2 DEF JobInv, Reading, Lines
      <4>3. job[p].file.row[j] = "live" /\ row[s][j] = "absent" /\ j \notin purged[s] =>
              \E k \in Ids : Text[k] = Text[j] /\
                 (row'[s][k] = "live" \/ (k > j /\ job[p].file.row[k] = "dead"))
        <5> SUFFICES ASSUME job[p].file.row[j] = "live", row[s][j] = "absent", j \notin purged[s]
                     PROVE  \E k \in Ids : Text[k] = Text[j] /\
                              (row'[s][k] = "live" \/ (k > j /\ job[p].file.row[k] = "dead"))
          OBVIOUS
        <5>1. PICK k \in Ids : Text[k] = Text[j] /\ (row[s][k] = "live" \/ (k > j /\ job[p].file.row[k] = "dead"))
          BY <4>1 DEF Applied
        <5>2. i > j /\ (k # i => row'[s][k] = row[s][k])
          BY <1>2, <1>5, <4>2 DEF Rows
        <5> QED BY <1>1, <5>1, <5>2
      <4>4. row'[s][j] = row[s][j]
        BY <1>2, <1>5, <3>2, <4>2 DEF Rows
      <4> QED BY <1>1, <1>5, <4>1, <4>3, <4>4 DEF Applied
    <3> QED BY <3>1, <3>2
  <2> QED BY <2>1, <2>2
<1>7. JobInv(p)'
  <2>1. /\ Done(job[p], i) \in Ingests /\ Done(job[p], i).todo = job[p].todo \ {i}
        /\ Done(job[p], i).store = s /\ Done(job[p], i).file = job[p].file
        /\ Done(job[p], i).mode = job[p].mode /\ Done(job[p], i).cache = job[p].cache
        /\ Done(job[p], i).quiet = job[p].quiet /\ Done(job[p], i).again = job[p].again
    BY <1>2, DoneFields
  <2> QED BY <1>1, <1>4, <1>6, <2>1, LineApplied
<1>8. PlainReplayKeepsRows' /\ reworked' \in SUBSET [mode : Modes, what : {"rows", "keeper"}]
  BY <1>1, <1>2 DEF Rework, IInv, TypeOK, PlainReplayKeepsRows
<1>9. TypeOK'
  BY <1>1, <1>2, <1>4, <1>8 DEF IInv, TypeOK, Rows, Status
<1>10. PurgedStaysGone' /\ ExpiryPaired'
  BY <1>1, <1>2 DEF IInv, TypeOK, Rows, PurgedStaysGone, ExpiryPaired
<1> QED BY <1>4, <1>7, <1>8, <1>9, <1>10 DEF IInv

\* A line that adds row i as v, which was neither there nor denied, and nothing else.
LEMMA RowAdded ==
  ASSUME IInv, NEW p \in Jobs, NEW i \in Ids, Reading(p, i), New(p, i), NEW v \in {"live", "dead"},
         NEW x \in Ingests, job[p].file.row[i] = v,
         row' = [row EXCEPT ![job[p].store][i] = v],
         side' = [side EXCEPT ![job[p].store] = @ \union (IF v = "live" THEN {i} \cap StateIds ELSE {})],
         job' = [Elsewhere(job[p].store, {p}) EXCEPT ![p] = x],
         x.store = job[p].store, x.file = job[p].file, x.mode = job[p].mode,
         x.quiet = job[p].quiet, x.again = job[p].again, x.todo = job[p].todo \ {i},
         job[p].cache \subseteq x.cache, v = "live" => i \in x.cache,
         job[p].again => job[p].mode = "own",
         Touch(job[p].store), Rework(p, "rows"), UNCHANGED <<purged, files, local, exports, ingests>>
  PROVE  IInv'
<1> USE SyncAssumption
<1> DEFINE s == job[p].store
<1>1. /\ Working(p) /\ job[p] \in Ingests /\ JobInv(p) /\ i \in Lines(job[p].file)
      /\ s \in Stores /\ job[p].mode \in Modes /\ row[s] \in Rows
  BY ReaderFields
<1>2. row[s][i] = "absent" /\ i \notin purged[s]
  BY DEF New, Known, Stored, Denied
<1>3. /\ job' \in [Jobs -> {None} \union Ingests] /\ LastTypes' /\ job'[p] = x
      /\ \A t \in Stores : LastInv(t)' /\ \A q \in Jobs \ {p} : JobInv(q)'
  <2>1. Beside({s})
    BY <1>1 DEF Beside, IInv, TypeOK
  <2> QED BY <1>1, <2>1, LineKeeps
<1>4. row'[s] = [row[s] EXCEPT ![i] = v] /\ purged'[s] = purged[s]
  BY <1>1 DEF IInv, TypeOK
<1>5. ASSUME job[p].quiet
      PROVE  /\ \A j \in Ids : row'[s][j] = "live" => j \in x.cache
             /\ \A j \in Lines(job[p].file) \ (job[p].todo \ {i}) :
                  Applied(row'[s], purged'[s], job[p].file, job[p].mode, j)
  <2>1. \A j \in Ids : row'[s][j] = "live" => j \in x.cache
    BY <1>1, <1>4, <1>5 DEF JobInv, Rows
  <2>2. ASSUME NEW j \in Lines(job[p].file) \ (job[p].todo \ {i})
        PROVE  Applied(row'[s], purged'[s], job[p].file, job[p].mode, j)
    <3>1. CASE j = i
      BY <1>1, <1>4, <3>1 DEF Applied, Rows
    <3>2. CASE j # i
      <4>1. Applied(row[s], purged[s], job[p].file, job[p].mode, j) /\ j \in Ids
        BY <1>1, <1>5, <3>2 DEF JobInv, AppliedAt, Lines
      <4>2. row'[s][j] = row[s][j] /\ \A k \in Ids : row[s][k] = "live" => row'[s][k] = "live"
        BY <1>1, <1>2, <1>4, <3>2, <4>1 DEF Rows
      <4> QED BY <1>4, <4>1, <4>2 DEF Applied
    <3> QED BY <3>1, <3>2
  <2> QED BY <2>1, <2>2
<1>6. JobInv(p)'
  BY <1>3, <1>5, LineApplied
<1>7. PlainReplayKeepsRows' /\ reworked' \in SUBSET [mode : Modes, what : {"rows", "keeper"}]
  BY <1>1 DEF Rework, IInv, TypeOK, PlainReplayKeepsRows
<1>8. TypeOK'
  BY <1>1, <1>3, <1>7 DEF IInv, TypeOK, Rows, Status
<1>9. PurgedStaysGone'
  BY <1>1, <1>2 DEF IInv, TypeOK, Rows, PurgedStaysGone
<1>10. ExpiryPaired'
  <2>1. side[s] = {k \in StateIds : row[s][k] = "live"}
    BY <1>1 DEF IInv, ExpiryPaired
  <2>2. side'[s] = side[s] \union (IF v = "live" THEN {i} \cap StateIds ELSE {})
    BY <1>1 DEF IInv, TypeOK
  <2>3. side'[s] = {k \in StateIds : row'[s][k] = "live"}
    BY <1>1, <1>2, <1>4, <2>1, <2>2 DEF Rows
  <2> QED BY <1>1, <2>3 DEF IInv, TypeOK, ExpiryPaired
<1> QED BY <1>3, <1>6, <1>7, <1>8, <1>9, <1>10 DEF IInv

LEMMA ReaderElsewhere ==
  ASSUME IInv, NEW p \in Jobs, NEW i \in Ids, Reading(p, i)
  PROVE  Elsewhere(job[p].store, {p})[p] = job[p]
<1>1. job \in [Jobs -> {None} \union Ingests] /\ p \in {p}
  BY DEF IInv, TypeOK
<1>2. Working(p) /\ job[p].store \in Stores
  BY ReaderFields
<1> QED BY <1>1, <1>2, ElsewhereFields

LEMMA HistoryKeeps ==
  ASSUME IInv, NEW p \in Jobs, NEW i \in Ids, History(p, i) PROVE IInv'
<1> DEFINE s == job[p].store
<1>1. /\ Reading(p, i) /\ New(p, i) /\ Heard(p, i) /\ job[p].file.row[i] = "dead"
      /\ row' = [row EXCEPT ![s][i] = "dead"]
      /\ job' = [Elsewhere(s, {p}) EXCEPT ![p] = Done(Elsewhere(s, {p})[p], i)]
      /\ Touch(s) /\ Rework(p, "rows") /\ UNCHANGED <<side, purged, files, local, exports, ingests>>
  BY DEF History, Incoming
<1>2. /\ job[p] \in Ingests /\ JobInv(p) /\ Working(p) /\ i \in Lines(job[p].file) /\ s \in Stores
  BY <1>1, ReaderFields
<1>3. job' = [Elsewhere(s, {p}) EXCEPT ![p] = Done(job[p], i)]
  BY <1>1, ReaderElsewhere
<1>4. job[p].again => job[p].mode = "own"
  BY <1>1, <1>2 DEF JobInv, AppliedAt, Applied, New, Known, Stored, Denied, Heard, Incoming
<1> DEFINE x == Done(job[p], i)
           v == "dead"
<1>5. /\ x \in Ingests /\ x.todo = job[p].todo \ {i} /\ x.store = s /\ x.file = job[p].file
      /\ x.mode = job[p].mode /\ job[p].cache \subseteq x.cache
      /\ x.quiet = job[p].quiet /\ x.again = job[p].again
  BY <1>2, DoneFields
<1>6. side' = [side EXCEPT ![s] = @ \union (IF v = "live" THEN {i} \cap StateIds ELSE {})]
  BY <1>1, <1>2 DEF IInv, TypeOK
<1>7. v \in {"live", "dead"} /\ (v = "live" => i \in x.cache) /\ job[p].file.row[i] = v
      /\ row' = [row EXCEPT ![s][i] = v] /\ job' = [Elsewhere(s, {p}) EXCEPT ![p] = x]
  BY <1>1, <1>3
<1> HIDE DEF x, v
<1> QED BY <1>1, <1>4, <1>5, <1>6, <1>7, RowAdded

LEMMA LandKeeps ==
  ASSUME IInv, NEW p \in Jobs, NEW i \in Ids, Land(p, i) PROVE IInv'
<1> DEFINE s == job[p].store  x == Landed(job[p], i)
<1>1. /\ Reading(p, i) /\ New(p, i) /\ Twins(p, i) = {} /\ job[p].file.row[i] = "live"
      /\ row' = [row EXCEPT ![s][i] = "live"]
      /\ side' = [side EXCEPT ![s] = @ \union Pair(p, i)]
      /\ job' = [Elsewhere(s, {p}) EXCEPT ![p] = Landed(Elsewhere(s, {p})[p], i)]
      /\ Touch(s) /\ Rework(p, "rows") /\ UNCHANGED <<purged, files, local, exports, ingests>>
  BY DEF Land, Incoming
<1>2. /\ job[p] \in Ingests /\ JobInv(p) /\ Working(p) /\ i \in Lines(job[p].file)
      /\ job[p].file \in Files
  BY <1>1, ReaderFields
<1>3. job' = [Elsewhere(s, {p}) EXCEPT ![p] = x]
  BY <1>1, ReaderElsewhere
<1>4. ASSUME job[p].again PROVE job[p].mode = "own"
  <2> SUFFICES ASSUME job[p].mode # "own" PROVE FALSE
    OBVIOUS
  <2>1. Applied(row[s], purged[s], job[p].file, job[p].mode, i)
    BY <1>2, <1>4 DEF JobInv, AppliedAt
  <2>2. PICK j \in Ids : job[p].mode # "peer" /\ row[s][j] = "live" /\ Text[j] = Text[i]
    BY <1>1, <2>1 DEF Applied, New, Known, Stored, Denied
  <2>3. j \in Twins(p, i)
    BY <1>2, <1>4, <2>2 DEF JobInv, Twins, TwinsCached
  <2> QED BY <1>1, <2>3
<1>5. /\ x \in Ingests /\ x.todo = job[p].todo \ {i} /\ x.store = s /\ x.file = job[p].file
      /\ x.mode = job[p].mode /\ job[p].cache \subseteq x.cache /\ i \in x.cache
      /\ x.quiet = job[p].quiet /\ x.again = job[p].again
  BY <1>2 DEF Landed, Ingests
<1> DEFINE v == "live"
<1>6. side' = [side EXCEPT ![s] = @ \union (IF v = "live" THEN {i} \cap StateIds ELSE {})]
  BY <1>1, <1>2 DEF Pair, Files
<1>7. v \in {"live", "dead"} /\ job[p].file.row[i] = v
      /\ row' = [row EXCEPT ![s][i] = v] /\ job' = [Elsewhere(s, {p}) EXCEPT ![p] = x]
  BY <1>1, <1>3
<1> HIDE DEF x, v
<1> QED BY <1>1, <1>4, <1>5, <1>6, <1>7, RowAdded

-----------------------------------------------------------------------------
(* The beginning and the end of an ingest.                                 *)

LEMMA StartKeeps ==
  ASSUME IInv, NEW p \in Jobs, NEW s \in Stores, NEW f \in files, NEW m \in Modes, Start(p, s, f, m)
  PROVE  IInv'
<1> USE SyncAssumption
<1> DEFINE run == [store |-> s, file |-> f, mode |-> m]
           x == [store |-> s, file |-> f, mode |-> m, todo |-> Lines(f),
                 cache |-> {i \in Ids : row[s][i] = "live"}, landed |-> {}, folded |-> {},
                 quiet |-> TRUE, again |-> last[s] = run]
<1>1. /\ m # "strict" /\ job' = [job EXCEPT ![p] = x] /\ ingests' \in 0 .. MaxIngests
      /\ UNCHANGED <<row, side, purged, files, last, reworked, local, exports>>
  BY DEF Start, IInv, TypeOK
<1>2. f \in Files
  BY DEF IInv, TypeOK
<1>3. x \in Ingests
  BY <1>2 DEF Ingests, Lines
<1>4. /\ job' \in [Jobs -> {None} \union Ingests] /\ job'[p] = x
      /\ \A q \in Jobs \ {p} : JobInv(q)'
  BY <1>1, <1>3, StoresKept
<1>5. ASSUME last[s] = run, m # "own" PROVE AppliedAt(s, f, m, Lines(f))
  <2>1. run # None /\ run.file = f /\ run.mode = m
    BY DEF None
  <2> QED BY <1>5, <2>1 DEF IInv, LastInv
<1>6. JobInv(p)'
  <2>1. Lines(f)' = Lines(f) /\ Lines(f) \ Lines(f) = {}
    BY DEF Lines
  <2>2. /\ job'[p].store = s /\ job'[p].file = f /\ job'[p].mode = m /\ job'[p].todo = Lines(f)
        /\ job'[p].cache = {i \in Ids : row[s][i] = "live"} /\ job'[p].quiet
        /\ job'[p].again = (last[s] = run)
    BY <1>4
  <2> HIDE DEF x
  <2>3. (/\ job[p].mode # "strict" /\ job[p].todo \subseteq Lines(job[p].file)
         /\ \A i \in Lines(job[p].file) \ job[p].todo, j \in job[p].todo : i < j)'
    BY <1>1, <2>1, <2>2
  <2>4. (/\ \A i \in Ids : row[job[p].store][i] = "live" => i \in job[p].cache
         /\ AppliedAt(job[p].store, job[p].file, job[p].mode, Lines(job[p].file) \ job[p].todo))'
    BY <1>1, <2>1, <2>2 DEF AppliedAt
  <2>5. (job[p].again =>
          (job[p].mode # "own" => AppliedAt(job[p].store, job[p].file, job[p].mode, Lines(job[p].file))))'
    BY <1>1, <1>5, <2>1, <2>2 DEF AppliedAt
  <2> QED BY <2>2, <2>3, <2>4, <2>5 DEF JobInv
<1>7. \A t \in Stores : LastInv(t)'
  BY <1>1, LastKeeps
<1>8. TypeOK'
  BY <1>1, <1>4 DEF IInv, TypeOK
<1> QED BY <1>1, <1>4, <1>6, <1>7, <1>8 DEF IInv, LastTypes, PurgedStaysGone, ExpiryPaired, PlainReplayKeepsRows

LEMMA KillKeeps ==
  ASSUME IInv, NEW p \in Jobs, Kill(p) PROVE IInv'
<1>1. /\ job' = [job EXCEPT ![p] = None]
      /\ UNCHANGED <<row, side, purged, files, last, reworked, local, exports, ingests>>
  BY DEF Kill
<1>2. /\ job' \in [Jobs -> {None} \union Ingests] /\ job'[p] = None
      /\ \A q \in Jobs \ {p} : JobInv(q)'
  BY <1>1, StoresKept
<1>3. JobInv(p)'
  BY <1>2 DEF JobInv, Working
<1>4. \A t \in Stores : LastInv(t)'
  BY <1>1, LastKeeps
<1>5. TypeOK'
  BY <1>1, <1>2 DEF IInv, TypeOK
<1> QED BY <1>1, <1>2, <1>3, <1>4, <1>5 DEF IInv, LastTypes, PurgedStaysGone, ExpiryPaired, PlainReplayKeepsRows

LEMMA FinishKeeps ==
  ASSUME IInv, NEW p \in Jobs, Finish(p) PROVE IInv'
<1> USE SyncAssumption
<1> DEFINE s == job[p].store
           run == [store |-> s, file |-> job[p].file, mode |-> job[p].mode]
<1>1. /\ Working(p) /\ job[p].todo = {} /\ job' = [job EXCEPT ![p] = None]
      /\ side' = [side EXCEPT ![s] = @ \union Leftover(p)]
      /\ last' = IF job[p].quiet THEN [last EXCEPT ![s] = run] ELSE last
      /\ UNCHANGED <<row, purged, files, reworked, local, exports, ingests>>
  BY DEF Finish
<1>2. job[p] \in Ingests /\ JobInv(p) /\ s \in Stores
  BY <1>1 DEF IInv, TypeOK, Working, Ingests
<1>3. /\ job' \in [Jobs -> {None} \union Ingests] /\ job'[p] = None
      /\ \A q \in Jobs \ {p} : JobInv(q)'
  BY <1>1, StoresKept
<1>4. JobInv(p)'
  BY <1>3 DEF JobInv, Working
<1>5. side' = side
  <2>1. side[s] = {i \in StateIds : row[s][i] = "live"}
    BY <1>2 DEF IInv, ExpiryPaired
  <2>2. Leftover(p) \subseteq side[s]
    BY <2>1 DEF Leftover
  <2> QED BY <1>1, <1>2, <2>2 DEF IInv, TypeOK
<1>6. ASSUME NEW t \in Stores PROVE LastInv(t)'
  <2>1. CASE job[p].quiet /\ t = s
    <3>1. last'[s] = run /\ run.store = s /\ run.file = job[p].file /\ run.mode = job[p].mode
      BY <1>1, <1>2, <2>1 DEF IInv, LastTypes
    <3>2. AppliedAt(s, job[p].file, job[p].mode, Lines(job[p].file))
      BY <1>1, <1>2, <2>1 DEF JobInv
    <3>3. row'[s] = row[s] /\ purged'[s] = purged[s]
      BY <1>1
    <3> HIDE DEF run
    <3> QED BY <2>1, <3>1, <3>2, <3>3 DEF LastInv, AppliedAt, Lines
  <2>2. CASE ~(job[p].quiet /\ t = s)
    <3>1. last'[t] = last[t]
      BY <1>1, <1>2, <2>2 DEF IInv, LastTypes
    <3> QED BY <1>1, <3>1, LastKeeps
  <2> QED BY <2>1, <2>2
<1>7. LastTypes'
  <2>1. run \in [store : Stores, file : Files, mode : Modes]
    BY <1>2 DEF Ingests
  <2> QED BY <1>1, <1>2, <2>1 DEF IInv, LastTypes
<1>8. TypeOK'
  BY <1>1, <1>3, <1>5 DEF IInv, TypeOK
<1> QED BY <1>1, <1>3, <1>4, <1>5, <1>6, <1>7, <1>8
     DEF IInv, PurgedStaysGone, ExpiryPaired, PlainReplayKeepsRows

LEMMA InitHolds == Init => IInv
<1> SUFFICES ASSUME Init PROVE IInv
  OBVIOUS
<1> USE SyncAssumption DEF Init
<1>1. TypeOK
  BY DEF TypeOK, Rows, Status
<1>2. PurgedStaysGone /\ ExpiryPaired /\ PlainReplayKeepsRows
  BY DEF PurgedStaysGone, ExpiryPaired, PlainReplayKeepsRows
<1>3. LastTypes /\ \A p \in Jobs : JobInv(p)
  BY DEF LastTypes, JobInv, Working
<1>4. \A s \in Stores : LastInv(s)
  BY DEF LastInv
<1> QED BY <1>1, <1>2, <1>3, <1>4 DEF IInv

LEMMA NextKeeps == IInv /\ [Next]_vars => IInv'
<1> SUFFICES ASSUME IInv, [Next]_vars PROVE IInv'
  OBVIOUS
<1>1. CASE \E s \in Stores, i \in Ids : Add(s, i) \/ Supersede(s, i) \/ Purge(s, i)
  BY <1>1, AddKeeps, SupersedeKeeps, PurgeKeeps
<1>2. CASE \E s \in Stores, whole \in BOOLEAN : Export(s, whole)
  BY <1>2, ExportKeeps
<1>3. CASE \E s \in Stores, f \in files : Strict(s, f)
  BY <1>3, StrictKeeps
<1>4. CASE \E s \in Stores, f \in files, p \in Jobs, m \in Modes : Start(p, s, f, m)
  BY <1>4, StartKeeps
<1>5. CASE \E p \in Jobs, i \in Ids :
             Pass(p, i) \/ Tombstone(p, i) \/ History(p, i) \/ Fold(p, i) \/ Land(p, i)
  BY <1>5, PassKeeps, TombstoneKeeps, HistoryKeeps, FoldKeeps, LandKeeps
<1>6. CASE \E p \in Jobs : Finish(p) \/ Kill(p)
  BY <1>6, FinishKeeps, KillKeeps
<1>7. CASE UNCHANGED vars
  <2>1. UNCHANGED <<row, side, purged, files, job, last, reworked, local, exports, ingests>>
    BY <1>7 DEF vars
  <2>2. \A t \in Stores : LastInv(t)'
    BY <2>1, LastKeeps
  <2>3. \A q \in Jobs : JobInv(q)'
    <3>1. Others({}, {}) /\ Beside({})
      BY <2>1 DEF Others, Beside, Working, IInv, TypeOK
    <3> QED BY <3>1, OthersKeep
  <2>4. TypeOK'
    BY <2>1 DEF IInv, TypeOK
  <2> QED BY <2>1, <2>2, <2>3, <2>4
       DEF IInv, LastTypes, PurgedStaysGone, ExpiryPaired, PlainReplayKeepsRows
<1> QED BY <1>1, <1>2, <1>3, <1>4, <1>5, <1>6, <1>7 DEF Next

-----------------------------------------------------------------------------
(* What the exchange keeps.                                                *)

\* The inductive invariant.
THEOREM Invariance == Spec => []IInv
<1>1. Init => IInv
  BY InitHolds
<1>2. IInv /\ [Next]_vars => IInv'
  BY NextKeeps
<1> QED BY <1>1, <1>2, PTL DEF Spec

\* The types of the variables; in particular every file holds an expiry record
\* for exactly its live state rows.
THEOREM TypeCorrect == Spec => []TypeOK
<1>1. IInv => TypeOK
  BY DEF IInv
<1> QED BY <1>1, Invariance, PTL

\* No ingest, however late its file, brings back a row its store has purged.
THEOREM PurgedStayGone == Spec => []PurgedStaysGone
<1>1. IInv => PurgedStaysGone
  BY DEF IInv
<1> QED BY <1>1, Invariance, PTL

\* State rows and their expiry records appear and go together.
THEOREM ExpiryPairs == Spec => []ExpiryPaired
<1>1. IInv => ExpiryPaired
  BY DEF IInv
<1> QED BY <1>1, Invariance, PTL

\* A peer's replay of a file changes nothing, and a plain one only the
\* keepers its lines fold into: it adds, tombstones and revives no row.
THEOREM PlainReplayKeeps == Spec => []PlainReplayKeepsRows
<1>1. IInv => PlainReplayKeepsRows
  BY DEF IInv
<1> QED BY <1>1, Invariance, PTL

\* An undisturbed ingest that is past its last line has applied its file.
THEOREM FilesAreApplied == Spec => []FileApplied
<1>1. IInv => FileApplied
  <2> SUFFICES ASSUME IInv, NEW p \in Jobs, Working(p), job[p].todo = {}, job[p].quiet, NEW i \in Ids
               PROVE  LET s == job[p].store  f == job[p].file IN
                      /\ f.row[i] = "live" => \/ row[s][i] # "absent" \/ i \in purged[s] \/ LiveWith(s, Text[i]) # {}
                                              \/ \E j \in Ids : j > i /\ Text[j] = Text[i] /\ f.row[j] = "dead"
                      /\ f.row[i] = "dead" /\ job[p].mode = "own" => row[s][i] # "live"
    BY DEF FileApplied
  <2>1. CASE i \in Lines(job[p].file)
    <3>1. Applied(row[job[p].store], purged[job[p].store], job[p].file, job[p].mode, i)
      BY <2>1 DEF IInv, JobInv, AppliedAt
    <3> QED BY <3>1 DEF Applied, LiveWith
  <2>2. CASE i \notin Lines(job[p].file)
    BY <2>2 DEF Lines
  <2> QED BY <2>1, <2>2
<1> QED BY <1>1, Invariance, PTL

\* A tombstoned row is never live again.
THEOREM DeadStayDead == Spec => DeadStaysDead
<1> DEFINE Stays == \A s \in Stores, i \in Ids : row[s][i] = "dead" => row'[s][i] # "live"
<1>1. IInv /\ [Next]_vars => [Stays]_vars
  <2> SUFFICES ASSUME IInv, Next, NEW s \in Stores, NEW i \in Ids, row[s][i] = "dead"
               PROVE  row'[s][i] # "live"
    OBVIOUS
  <2>1. row \in [Stores -> Rows]
    BY DEF IInv, TypeOK
  <2>2. ASSUME NEW t \in Stores, NEW k \in Ids, Add(t, k) \/ Supersede(t, k) \/ Purge(t, k)
        PROVE  row'[s][i] # "live"
    BY <2>1, <2>2 DEF Add, Supersede, Superseded, Purge, Rows
  <2>3. ASSUME NEW t \in Stores, NEW f \in files, Strict(t, f) PROVE row'[s][i] # "live"
    BY <2>1, <2>3 DEF Strict, Merged, Rows
  <2>4. ASSUME row' = row PROVE row'[s][i] # "live"
    BY <2>4
  <2>5. ASSUME NEW p \in Jobs, NEW k \in Ids, Tombstone(p, k) \/ History(p, k)
        PROVE  row'[s][i] # "live"
    BY <2>1, <2>5 DEF Tombstone, Superseded, History, Rows
  <2>6. ASSUME NEW p \in Jobs, NEW k \in Ids, Land(p, k) PROVE row'[s][i] # "live"
    BY <2>1, <2>6 DEF Land, New, Known, Stored, Rows
  <2> QED BY <2>2, <2>3, <2>4, <2>5, <2>6 DEF Next, Export, Start, Pass, Fold, Finish, Kill
<1>2. Spec => [][Stays]_vars
  BY <1>1, Invariance, PTL DEF Spec
<1> QED BY <1>2 DEF DeadStaysDead

\* The rows of a peer are folded into no other row.
PeerFolds(p) == Working(p) /\ job[p].mode = "peer" => job[p].folded = {}

Line(p, i) == Pass(p, i) \/ Tombstone(p, i) \/ History(p, i) \/ Fold(p, i) \/ Land(p, i)

\* Another's change of the store leaves an ingest where it was in its file.
LEMMA ElsewhereStays ==
  ASSUME IInv, NEW p \in Jobs, Working(p), NEW s, NEW P
  PROVE  /\ Elsewhere(s, P)[p].todo = job[p].todo /\ Elsewhere(s, P)[p].folded = job[p].folded
         /\ Elsewhere(s, P)[p].mode = job[p].mode
<1>1. job[p] \in Ingests
  BY DEF IInv, TypeOK, Working
<1>2. CASE p \notin P /\ job[p].store = s
  <2>1. Elsewhere(s, P)[p] = [job[p] EXCEPT !.quiet = FALSE, !.again = FALSE]
    BY <1>2 DEF Elsewhere
  <2> QED BY <1>1, <2>1 DEF Ingests
<1>3. CASE ~(p \notin P /\ job[p].store = s)
  BY <1>3 DEF Elsewhere
<1> QED BY <1>2, <1>3

\* An ingest moves on in its file by its own lines.
LEMMA OwnLines ==
  ASSUME IInv, [Next]_vars, NEW p \in Jobs, Working(p), Working(p)', ~ \E i \in Ids : Line(p, i)
  PROVE  job'[p].todo = job[p].todo /\ job'[p].folded = job[p].folded /\ job'[p].mode = job[p].mode
<1> DEFINE Same == job'[p].todo = job[p].todo /\ job'[p].folded = job[p].folded /\ job'[p].mode = job[p].mode
<1>0. job \in [Jobs -> {None} \union Ingests]
  BY DEF IInv, TypeOK
<1>1. ASSUME NEW s \in Stores, job' = Elsewhere(s, {}) PROVE Same
  BY <1>1, ElsewhereStays
<1>2. ASSUME job'[p] = job[p] PROVE Same
  BY <1>2
<1>3. ASSUME NEW q \in Jobs, NEW i \in Ids, Line(q, i) PROVE Same
  <2>1. q # p
    BY <1>3
  <2>2. CASE Pass(q, i) \/ Fold(q, i)
    BY <1>0, <1>2, <2>1, <2>2 DEF Pass, Fold
  <2>3. CASE Tombstone(q, i) \/ History(q, i) \/ Land(q, i)
    <3>1. job'[p] = Elsewhere(job[q].store, {q})[p]
      BY <1>0, <2>1, <2>3 DEF Tombstone, History, Land, Elsewhere
    <3> QED BY <3>1, ElsewhereStays
  <2> QED BY <1>3, <2>2, <2>3 DEF Line
<1>4. ASSUME NEW q \in Jobs, Finish(q) \/ Kill(q) PROVE Same
  BY <1>0, <1>2, <1>4 DEF Finish, Kill, Working
<1>5. ASSUME NEW q \in Jobs, NEW s \in Stores, NEW f \in files, NEW m \in Modes, Start(q, s, f, m) PROVE Same
  <2>1. q # p
    BY <1>5 DEF Start
  <2> QED BY <1>0, <1>2, <1>5, <2>1 DEF Start
<1>6. ASSUME NEW s \in Stores, NEW i \in Ids, Add(s, i) \/ Supersede(s, i) \/ Purge(s, i) PROVE Same
  BY <1>1, <1>6 DEF Add, Supersede, Purge, Local
<1>7. ASSUME NEW s \in Stores, NEW f \in files, Strict(s, f) PROVE Same
  BY <1>1, <1>7 DEF Strict
<1>8. ASSUME NEW s \in Stores, NEW whole \in BOOLEAN, Export(s, whole) PROVE Same
  BY <1>2, <1>8 DEF Export
<1>9. CASE UNCHANGED vars
  BY <1>2, <1>9 DEF vars
<1>10. CASE Next
  <2> HIDE DEF Same
  <2>1. ASSUME \E q \in Jobs, i \in Ids : Line(q, i) PROVE Same
    BY <2>1, <1>3
  <2>2. ASSUME ~ \E q \in Jobs, i \in Ids : Line(q, i) PROVE Same
    BY <1>4, <1>5, <1>6, <1>7, <1>8, <1>10, <2>2 DEF Next, Line
  <2>3. Same
    BY <2>1, <2>2
  <2> QED BY <2>3 DEF Same
<1> QED BY <1>9, <1>10

\* A line of a peer's file folds into nothing, and changes no row that is there.
LEMMA PeerLine ==
  ASSUME IInv, NEW p \in Jobs, NEW i \in Ids, Line(p, i), job[p].mode = "peer"
  PROVE  /\ Working(p) /\ job'[p].folded = job[p].folded /\ job'[p].mode = "peer"
         /\ \A s \in Stores, k \in Ids : row[s][k] # "absent" =>
              row'[s][k] = row[s][k] /\ (k \in side'[s] <=> k \in side[s])
<1>1. Reading(p, i) /\ Twins(p, i) = {}
  BY DEF Line, Pass, Tombstone, History, Fold, Land, Twins, TwinsCached
<1>2. /\ Working(p) /\ job[p] \in Ingests /\ job[p].store \in Stores /\ row[job[p].store] \in Rows
      /\ Elsewhere(job[p].store, {p})[p] = job[p]
  BY <1>1, ReaderFields, ReaderElsewhere
<1>3. Pass(p, i) \/ History(p, i) \/ Land(p, i)
  BY <1>1 DEF Line, Tombstone, Fold
<1>4. job'[p] = Done(job[p], i) \/ job'[p] = Landed(job[p], i)
  <2>1. job \in [Jobs -> {None} \union Ingests] /\ p \in DOMAIN Elsewhere(job[p].store, {p})
    BY DEF IInv, TypeOK, Elsewhere
  <2> QED BY <1>2, <1>3, <2>1 DEF Pass, History, Land, Elsewhere
<1>5. job'[p].folded = job[p].folded /\ job'[p].mode = "peer"
  BY <1>2, <1>4 DEF Done, Landed, Ingests
<1>6. ASSUME NEW s \in Stores, NEW k \in Ids, row[s][k] # "absent"
      PROVE  row'[s][k] = row[s][k] /\ (k \in side'[s] <=> k \in side[s])
  <2>1. CASE Pass(p, i)
    BY <2>1 DEF Pass
  <2>2. CASE History(p, i) \/ Land(p, i)
    BY <1>2, <1>6, <2>2 DEF IInv, TypeOK, Rows, History, Land, Pair, New, Known, Stored
  <2> QED BY <1>3, <2>1, <2>2
<1> QED BY <1>2, <1>5, <1>6

\* The file of an untrusted peer changes nothing that was there.
THEOREM PeersTouchNothing == Spec => PeerTouchesNothing
<1> DEFINE Folds == \A p \in Jobs : PeerFolds(p)
           Spares ==
             \A p \in Jobs : (Working(p) /\ job[p].mode = "peer" /\ job'[p] # None /\ job'[p].todo # job[p].todo) =>
               /\ job'[p].folded = {}
               /\ \A s \in Stores, i \in Ids : row[s][i] # "absent" =>
                    row'[s][i] = row[s][i] /\ (i \in side'[s] <=> i \in side[s])
<1>1. Init => Folds
  BY DEF Init, PeerFolds, Working
<1>2. IInv /\ Folds /\ [Next]_vars => Folds'
  <2> SUFFICES ASSUME IInv, Folds, [Next]_vars, NEW p \in Jobs, Working(p)', job'[p].mode = "peer"
               PROVE  job'[p].folded = {}
    BY DEF PeerFolds
  <2>1. CASE ~Working(p)
    <3>0. job \in [Jobs -> {None} \union Ingests] /\ job[p] = None
      BY <2>1 DEF IInv, TypeOK, Working
    <3>1. ASSUME NEW s, NEW P PROVE Elsewhere(s, P)[p] = None
      BY <2>1, <3>0 DEF Elsewhere
    <3>2. PICK q \in Jobs, s \in Stores, f \in files, m \in Modes : Start(q, s, f, m)
      <4>1. ASSUME NEW q \in Jobs, NEW i \in Ids, Line(q, i) PROVE FALSE
        <5>1. q # p
          BY <2>1, <4>1 DEF Line, Pass, Tombstone, History, Fold, Land, Reading
        <5> QED BY <3>0, <3>1, <4>1, <5>1 DEF Line, Pass, Tombstone, History, Fold, Land, Working, Elsewhere
      <4>2. ASSUME NEW q \in Jobs, Finish(q) \/ Kill(q) PROVE FALSE
        BY <3>0, <4>2 DEF Finish, Kill, Working
      <4>3. ASSUME NEW s \in Stores, NEW i \in Ids, Add(s, i) \/ Supersede(s, i) \/ Purge(s, i) PROVE FALSE
        BY <3>1, <4>3 DEF Add, Supersede, Purge, Local, Working
      <4>4. ASSUME NEW s \in Stores, NEW f \in files, Strict(s, f) PROVE FALSE
        BY <3>1, <4>4 DEF Strict, Working
      <4>5. ASSUME NEW s \in Stores, NEW whole \in BOOLEAN, Export(s, whole) PROVE FALSE
        BY <3>0, <4>5 DEF Export, Working
      <4>6. ASSUME UNCHANGED vars PROVE FALSE
        BY <3>0, <4>6 DEF vars, Working
      <4> QED BY <4>1, <4>2, <4>3, <4>4, <4>5, <4>6 DEF Next, Line
    <3>3. q = p
      BY <3>0, <3>2 DEF Start, Working
    <3> QED BY <3>0, <3>2, <3>3 DEF Start
  <2>2. CASE Working(p) /\ ~ \E i \in Ids : Line(p, i)
    BY <2>2, OwnLines DEF PeerFolds
  <2>3. ASSUME Working(p), NEW i \in Ids, Line(p, i) PROVE job'[p].folded = {}
    <3>1. job[p].mode = "peer"
      <4>1. /\ job[p] \in Ingests /\ Elsewhere(job[p].store, {p})[p] = job[p]
            /\ job \in [Jobs -> {None} \union Ingests]
        BY <2>3, ReaderFields, ReaderElsewhere DEF Line, Pass, Tombstone, History, Fold, Land, IInv, TypeOK
      <4>2. \/ job'[p] = Done(job[p], i) \/ job'[p] = Landed(job[p], i) \/ job'[p] = Folded(job[p], i)
        BY <2>3, <4>1 DEF Line, Pass, Tombstone, History, Fold, Land, Elsewhere
      <4> QED BY <4>1, <4>2 DEF Done, Landed, Folded, Ingests
    <3> QED BY <2>3, <3>1, PeerLine DEF PeerFolds
  <2> QED BY <2>1, <2>2, <2>3
<1>3. IInv /\ Folds /\ [Next]_vars => [Spares]_vars
  <2> SUFFICES ASSUME IInv, Folds, [Next]_vars, NEW p \in Jobs, Working(p), job[p].mode = "peer",
                      job'[p] # None, job'[p].todo # job[p].todo
               PROVE  /\ job'[p].folded = {}
                      /\ \A s \in Stores, i \in Ids : row[s][i] # "absent" =>
                           row'[s][i] = row[s][i] /\ (i \in side'[s] <=> i \in side[s])
    OBVIOUS
  <2>1. PICK i \in Ids : Line(p, i)
    BY OwnLines DEF Working
  <2> QED BY <2>1, PeerLine DEF PeerFolds
<1> HIDE DEF Folds, Spares
<1>4. Spec => [][Spares]_vars
  BY <1>1, <1>2, <1>3, Invariance, PTL DEF Spec
<1> QED BY <1>4 DEF PeerTouchesNothing, Spares
=============================================================================
