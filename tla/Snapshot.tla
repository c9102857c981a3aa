------------------------------ MODULE Snapshot ------------------------------
(***************************************************************************)
(* The broker's offline mode (fleet/snapshot.py, and the read moment of    *)
(* fleet/broker.py that drives it).  A broker moment is a fresh process:   *)
(* with the hub unreachable it stamps the outage and serves the snapshot   *)
(* pair (database and meta file) it finds; after a live answer it may      *)
(* refresh the pair.  Every file of the directory is shared by all the     *)
(* moments and no lock is taken.                                           *)
(*                                                                         *)
(* A database is abstracted to the hub revision its rows were taken at;    *)
(* the namespaces, the columns, the authorized scope, the 64 MB cap (one   *)
(* of the causes of a failed step), the 72 h expiry and the rendering are  *)
(* left out.                                                               *)
(***************************************************************************)
EXTENDS Integers

CONSTANTS Brokers,     \* processes: one moment at a time each
          Refreshers,  \* those whose moments may refresh the pair
          MaxRev,      \* bound: revisions of the hub's store
          MaxOutages,  \* bound: times the hub becomes unreachable
          MaxFails,    \* bound: refused fetches and failed file operations
          MaxKills     \* bound: moments killed before their end

Absent == -3                  \* no such file
Bare   == -2                  \* a database file with no table yet
Empty  == -1                  \* the schema, and no row committed
Whole  == 0 .. MaxRev         \* all the hub's rows at that revision
Bodies == {Absent, Bare, Empty} \union Whole

Ages   == 0 .. 1              \* within the refresh interval; older
NoMeta == [rev |-> -1, age |-> 0]
Metas  == {NoMeta} \union [rev : Whole, age : Ages]
\* the backoff marker: what failed, and whether failed_at is within the interval
NoMarker == [kind |-> "none", recent |-> FALSE]
Markers  == {NoMarker} \union [kind : {"transport", "refused"}, recent : BOOLEAN]

VARIABLES hub,     \* the hub: its revision, reachable or not, outages so far
          snap, prev, tmp, \* snapshot.sqlite, snapshot.prev.sqlite, the .tmp copy
          scratch, \* payload-src/src.sqlite: its body, and who created it
          meta,    \* snapshot.meta.json
          stamp,   \* hub-unreachable.stamp exists
          marker,  \* refresh-backoff.json
          pc, payload, label,  \* each moment: its step, fetched revision, meta read
          fails, kills,
          crossed  \* ghost: a refresh fetched while another was at work on the pair

files == <<snap, prev, tmp, scratch, meta, stamp, marker>>
vars  == <<hub, files, pc, payload, label, fails, kills, crossed>>

Init ==
  /\ hub = [rev |-> 0, up |-> TRUE, outages |-> 0]
  /\ snap = Absent /\ prev = Absent /\ tmp = Absent
  /\ scratch \in {[body |-> Absent, by |-> p] : p \in Refreshers}
  /\ meta = NoMeta /\ stamp = FALSE /\ marker = NoMarker
  /\ pc = [p \in Brokers |-> "rest"]
  /\ payload = [p \in Brokers |-> 0]
  /\ label = [p \in Brokers |-> 0]
  /\ fails = 0 /\ kills = 0 /\ crossed = FALSE

Goto(p, s) == pc' = [pc EXCEPT ![p] = s]
Fail == fails < MaxFails /\ fails' = fails + 1

-----------------------------------------------------------------------------
(* The hub and time.                                                       *)

HubWrite ==
  /\ hub.rev < MaxRev /\ hub' = [hub EXCEPT !.rev = @ + 1]
  /\ UNCHANGED <<files, pc, payload, label, fails, kills, crossed>>

Outage ==
  /\ hub.up /\ hub.outages < MaxOutages
  /\ hub' = [hub EXCEPT !.up = FALSE, !.outages = @ + 1]
  /\ UNCHANGED <<files, pc, payload, label, fails, kills, crossed>>

HubBack ==
  /\ ~hub.up /\ hub' = [hub EXCEPT !.up = TRUE]
  /\ UNCHANGED <<files, pc, payload, label, fails, kills, crossed>>

\* the pair outlives the refresh interval
Older(m) == IF m = NoMeta THEN m ELSE [m EXCEPT !.age = 1]
Age ==
  /\ meta' = Older(meta) /\ meta' # meta
  /\ UNCHANGED <<hub, snap, prev, tmp, scratch, stamp, marker, pc, payload, label, fails, kills, crossed>>

AgeMarker ==
  /\ marker.recent /\ marker' = [marker EXCEPT !.recent = FALSE]
  /\ UNCHANGED <<hub, snap, prev, tmp, scratch, meta, stamp, pc, payload, label, fails, kills, crossed>>

-----------------------------------------------------------------------------
(* A read moment.                                                          *)

\* The hub cannot be reached: the stamp is written, then the pair is served.
MomentDown(p) ==
  /\ pc[p] = "rest" /\ ~hub.up
  /\ stamp' = TRUE /\ Goto(p, "label")
  /\ UNCHANGED <<hub, snap, prev, tmp, scratch, meta, marker, payload, label, fails, kills, crossed>>

Stale == meta = NoMeta \/ meta.age > 0
SuppressedForEver == marker # NoMarker /\ (Stale \/ marker.kind = "refused")
Suppressed == marker.recent /\ (Stale \/ marker.kind = "refused")

Wanted == (Stale \/ stamp) /\ ~Suppressed

\* A live answer: the moment goes on to refresh the pair when that is due.
MomentUp(p) ==
  /\ pc[p] = "rest" /\ hub.up /\ p \in Refreshers /\ Wanted
  /\ Goto(p, "fetch")
  /\ UNCHANGED <<hub, files, payload, label, fails, kills, crossed>>

\* _load reads the meta file, then opens the database.
ReadLabel(p) ==
  /\ pc[p] = "label"
  /\ IF meta = NoMeta THEN Goto(p, "rest") /\ UNCHANGED label
     ELSE Goto(p, "serve") /\ label' = [label EXCEPT ![p] = meta.rev]
  /\ UNCHANGED <<hub, files, payload, fails, kills, crossed>>

\* the rows p would serve now: a file with no memory table counts as absent
Served(p) == IF pc[p] # "serve" \/ snap = Bare THEN Absent ELSE snap

Serve(p) ==
  /\ pc[p] = "serve"
  /\ label' = [label EXCEPT ![p] = 0] /\ Goto(p, "rest")
  /\ UNCHANGED <<hub, files, payload, fails, kills, crossed>>

-----------------------------------------------------------------------------
(* A refresh.                                                              *)

\* the moment ends, and its process with it
End(p) == payload' = [payload EXCEPT ![p] = 0] /\ Goto(p, "rest")
GiveUp(p, kind) == marker' = [kind |-> kind, recent |-> TRUE] /\ End(p)

\* the steps from the answer of the hub to the removal of the scratch store
Building == {"scratch", "insert", "copy", "keep", "install", "meta", "restore", "unlink"}

Fetch(p) ==
  /\ pc[p] = "fetch" /\ hub.up
  /\ payload' = [payload EXCEPT ![p] = hub.rev] /\ Goto(p, "scratch")
  /\ crossed' = (crossed \/ \E q \in Brokers \ {p} : pc[q] \in Building)
  /\ UNCHANGED <<hub, files, label, fails, kills>>

FetchUnreachable(p) ==
  /\ pc[p] = "fetch" /\ ~hub.up /\ GiveUp(p, "transport")
  /\ UNCHANGED <<hub, snap, prev, tmp, scratch, meta, stamp, label, fails, kills, crossed>>

\* The hub answers without ok, or with a payload that is refused unread.
FetchRefused(p) ==
  /\ pc[p] = "fetch" /\ hub.up /\ Fail /\ GiveUp(p, "refused")
  /\ UNCHANGED <<hub, snap, prev, tmp, scratch, meta, stamp, label, kills, crossed>>

\* The scratch store is unlinked, created and given its schema.
Scratch(p) ==
  /\ pc[p] = "scratch"
  /\ scratch' = [body |-> Empty, by |-> p] /\ Goto(p, "insert")
  /\ UNCHANGED <<hub, snap, prev, tmp, meta, stamp, marker, payload, label, fails, kills, crossed>>

\* The rows are committed, to a file that may no longer be the one at the path.
Insert(p) ==
  /\ pc[p] = "insert" /\ Goto(p, "copy")
  /\ scratch' = IF scratch.by = p THEN [scratch EXCEPT !.body = payload[p]] ELSE scratch
  /\ UNCHANGED <<hub, snap, prev, tmp, meta, stamp, marker, payload, label, fails, kills, crossed>>

\* build_snapshot copies whatever the scratch path holds into the .tmp file.
Copy(p) ==
  /\ pc[p] = "copy" /\ scratch.body # Absent
  /\ tmp' = scratch.body /\ Goto(p, "keep")
  /\ UNCHANGED <<hub, snap, prev, scratch, meta, stamp, marker, payload, label, fails, kills, crossed>>

KeepFirst(p) ==
  /\ pc[p] = "keep" /\ Goto(p, "install")
  /\ prev' = IF prev = Absent THEN snap ELSE prev
  /\ snap' = Absent
  /\ UNCHANGED <<hub, tmp, scratch, meta, stamp, marker, payload, label, fails, kills, crossed>>
KeepPrevious(p) ==
  /\ pc[p] = "keep" /\ Goto(p, "install")
  /\ IF snap = Absent THEN UNCHANGED <<snap, prev>> ELSE prev' = snap /\ snap' = Absent
  /\ UNCHANGED <<hub, tmp, scratch, meta, stamp, marker, payload, label, fails, kills, crossed>>

Install(p) ==
  /\ pc[p] = "install" /\ tmp # Absent
  /\ snap' = tmp /\ tmp' = Absent /\ Goto(p, "meta")
  /\ UNCHANGED <<hub, prev, scratch, meta, stamp, marker, payload, label, fails, kills, crossed>>

WriteMeta(p) ==
  /\ pc[p] = "meta"
  /\ meta' = [rev |-> payload[p], age |-> 0] /\ Goto(p, "unlink")
  /\ UNCHANGED <<hub, snap, prev, tmp, scratch, stamp, marker, payload, label, fails, kills, crossed>>

UnlinkScratch(p) ==
  /\ pc[p] = "unlink"
  /\ scratch' = [scratch EXCEPT !.body = Absent] /\ Goto(p, "clear")
  /\ UNCHANGED <<hub, snap, prev, tmp, meta, stamp, marker, payload, label, fails, kills, crossed>>

ClearStamp(p) ==
  /\ pc[p] = "clear" /\ stamp' = FALSE /\ Goto(p, "unmark")
  /\ UNCHANGED <<hub, snap, prev, tmp, scratch, meta, marker, payload, label, fails, kills, crossed>>

UnlinkMarker(p) ==
  /\ pc[p] = "unmark" /\ marker' = NoMarker /\ End(p)
  /\ UNCHANGED <<hub, snap, prev, tmp, scratch, meta, stamp, label, fails, kills, crossed>>

(* The failures of a build.  Before the copy the scratch store stays where *)
(* it is; from the copy on it is unlinked by the finally clause.           *)

PrepareFails(p) ==
  /\ pc[p] \in {"scratch", "insert"} /\ Fail /\ GiveUp(p, "transport")
  /\ UNCHANGED <<hub, snap, prev, tmp, scratch, meta, stamp, label, kills, crossed>>

BuildGivesUp(p) ==
  /\ scratch' = [scratch EXCEPT !.body = Absent] /\ GiveUp(p, "transport")
  /\ UNCHANGED <<hub, meta, stamp, label, kills, crossed>>

\* the scratch store is gone (another refresh unlinked it), or the copy fails
CopyFails(p) ==
  /\ pc[p] = "copy" /\ BuildGivesUp(p)
  /\ \/ scratch.body = Absent /\ UNCHANGED <<tmp, fails>>
     \/ Fail /\ tmp' \in {Absent, Bare}
  /\ UNCHANGED <<snap, prev>>

\* prev cannot be unlinked, or snap not renamed
KeepFails(p) ==
  /\ pc[p] = "keep" /\ snap # Absent /\ Fail /\ BuildGivesUp(p)
  /\ prev' \in {prev, Absent} /\ UNCHANGED <<snap, tmp>>

\* the copy is gone (another refresh installed it), or its rename fails
InstallFails(p) ==
  /\ pc[p] = "install" /\ Goto(p, "restore")
  /\ \/ tmp = Absent /\ UNCHANGED fails
     \/ Fail
  /\ UNCHANGED <<hub, files, payload, label, kills, crossed>>

\* the meta file cannot be written: the copy it was for is removed
MetaFails(p) ==
  /\ pc[p] = "meta" /\ Fail
  /\ snap' = Absent /\ Goto(p, "restore")
  /\ UNCHANGED <<hub, prev, tmp, scratch, meta, stamp, marker, payload, label, kills, crossed>>

\* it cannot be removed either, or the mode of one of the two files not be set
BuildFails(p) ==
  /\ pc[p] \in {"meta", "unlink"} /\ Fail /\ BuildGivesUp(p)
  /\ UNCHANGED <<snap, prev, tmp>>

\* prev, when there is one, goes back to its place
RestoredNever == UNCHANGED <<snap, prev>>
Restored == IF prev = Absent THEN UNCHANGED <<snap, prev>> ELSE snap' = prev /\ prev' = Absent

Restore(p) ==
  /\ pc[p] = "restore" /\ Restored /\ BuildGivesUp(p)
  /\ UNCHANGED <<tmp, fails>>

RestoreFails(p) ==
  /\ pc[p] = "restore" /\ prev # Absent /\ Fail /\ BuildGivesUp(p)
  /\ UNCHANGED <<snap, prev, tmp>>

Kill(p) ==
  /\ pc[p] # "rest" /\ kills < MaxKills /\ kills' = kills + 1
  /\ End(p) /\ label' = [label EXCEPT ![p] = 0]
  /\ UNCHANGED <<hub, files, fails, crossed>>

-----------------------------------------------------------------------------
Refresh(p) ==
  \/ Fetch(p) \/ FetchUnreachable(p) \/ FetchRefused(p) \/ Scratch(p) \/ Insert(p)
  \/ Copy(p) \/ KeepPrevious(p) \/ Install(p) \/ WriteMeta(p) \/ UnlinkScratch(p)
  \/ ClearStamp(p) \/ UnlinkMarker(p) \/ PrepareFails(p) \/ CopyFails(p)
  \/ KeepFails(p) \/ InstallFails(p) \/ MetaFails(p) \/ BuildFails(p) \/ Restore(p) \/ RestoreFails(p)
Moment(p) == MomentDown(p) \/ MomentUp(p) \/ ReadLabel(p) \/ Serve(p) \/ Refresh(p)

Next == HubWrite \/ Outage \/ HubBack \/ Age \/ AgeMarker \/ \E p \in Brokers : Moment(p) \/ Kill(p)
Spec == Init /\ [][Next]_vars

\* The hub comes back, time passes, and hook moments go on being fired and run.
Fairness == /\ WF_vars(HubBack) /\ WF_vars(Age) /\ WF_vars(AgeMarker)
            /\ \A p \in Brokers : WF_vars(Moment(p))
FairSpec == Spec /\ Fairness

-----------------------------------------------------------------------------
TypeOK ==
  /\ hub \in [rev : Whole, up : BOOLEAN, outages : 0 .. MaxOutages]
  /\ snap \in Bodies /\ prev \in Bodies /\ tmp \in Bodies
  /\ scratch \in [body : Bodies, by : Refreshers]
  /\ meta \in Metas /\ stamp \in BOOLEAN /\ marker \in Markers
  /\ pc \in [Brokers -> {"rest", "label", "serve", "fetch", "scratch", "insert", "copy", "keep",
                         "install", "meta", "restore", "unlink", "clear", "unmark"}]
  /\ payload \in [Brokers -> Whole] /\ label \in [Brokers -> Whole]
  /\ fails \in 0 .. MaxFails /\ kills \in 0 .. MaxKills /\ crossed \in BOOLEAN

\* The label of an answer served offline never claims rows it does not have:
\* whatever refresh, failure or kill came between, the database opened is whole
\* and at least as new as the meta file read before it (snapshot.py, _load and
\* build_snapshot's order "snapshot.sqlite ... THEN the meta sidecar"), unless
\* two refreshes crossed.
LabelHonest ==
  ~crossed => \A p \in Brokers : Served(p) # Absent => Served(p) >= label[p]

\* "a meta failure after a successful sqlite replace restores the previous pair"
\* (snapshot.py, build_snapshot): a refresh that fails, at whatever step, leaves
\* a pair to serve when there was one.  When it is killed between two renames, or
\* the restoring rename fails too, the previous database waits under its other
\* name, and the refreshes that follow do not lose it.
Kept == \/ snap >= meta.rev
        \/ snap = Absent /\ prev >= meta.rev /\ (kills > 0 \/ fails > 1)
FailureKeepsPair ==
  (~crossed /\ meta # NoMeta /\ \A p \in Brokers : pc[p] \in {"rest", "label", "serve"}) => Kept

\* "a bad marker can never wedge the broker offline" (snapshot.py, _maybe_refresh):
\* whatever failed or was killed, once the hub stays reachable the outage stamp
\* is cleared and the pair is there again, unless two refreshes crossed: the code
\* does not keep them from undoing each other's work again and again.
Recovered == ~stamp /\ meta # NoMeta /\ snap >= meta.rev
Recovers == []<>(crossed \/ Recovered)
=============================================================================
