---------------------------- MODULE Reservations ----------------------------
(***************************************************************************)
(* Reserve and acknowledge (storelib/delivery_ledger.py, reserve and       *)
(* commit_reservation): rows shown to a session are reserved in a sidecar  *)
(* file and recorded as delivered when the harness acknowledges.  Hooks    *)
(* reserve and acknowledge at once, an acknowledgement may come twice, or  *)
(* late, or be killed half way and retried.                                *)
(*                                                                         *)
(* One session; the delivery ledger itself is module DeliveryLedger: here  *)
(* it is the set of the rows it admitted, each of them once.               *)
(***************************************************************************)
EXTENDS Naturals, FiniteSets

CONSTANTS Reservers, Ackers, Rows,
          Cap,          \* _RESERVATION_CAP
          MaxIds,       \* bound: reservations minted
          MaxAcks,      \* bound: acknowledgements sent
          MaxFaults     \* bound: calls killed and failed sidecar writes

Ids   == 1 .. MaxIds         \* uuids, numbered in the order of their ts
Procs == Reservers \union Ackers
NoFile == [rows |-> {}, committed |-> FALSE]

VARIABLES ledger,   \* rows recorded as delivered
          unpublished, \* rows admitted although their segment could not be written
          bare,     \* ghost: rows admitted without the lock, or under a broken one
          file,     \* the sidecar of each reservation
          expired,  \* reservations whose ttl has passed
          minted,   \* ids used so far
          pc, id,   \* each process: its step, the reservation it works on
          held,     \* ... the rows it read or selected
          listed,   \* ... the uncommitted sidecars it has to evict
          admitted, \* ... the rows the ledger admitted for it
          answers,  \* answers given to acknowledgements, with the rows they name
          commits,  \* ... and how many of them committed each row
          acks, faults

recorded == <<ledger, unpublished, bare>>
told == <<answers, commits>>
vars == <<recorded, file, expired, minted, pc, id, held, listed, admitted, told, acks, faults>>

Files == {r \in Ids : file[r] # NoFile}

Init ==
  /\ ledger = {} /\ unpublished = {} /\ bare = {} /\ file = [r \in Ids |-> NoFile] /\ expired = {} /\ minted = 0
  /\ pc = [p \in Procs |-> "rest"] /\ id = [p \in Procs |-> 0]
  /\ held = [p \in Procs |-> {}] /\ listed = [p \in Procs |-> {}]
  /\ admitted = [p \in Procs |-> {}]
  /\ answers = {} /\ commits = [x \in Rows |-> 0] /\ acks = 0 /\ faults = 0

Goto(p, s) == pc' = [pc EXCEPT ![p] = s]
End(p) == /\ Goto(p, "rest") /\ id' = [id EXCEPT ![p] = 0]
          /\ held' = [held EXCEPT ![p] = {}] /\ listed' = [listed EXCEPT ![p] = {}]
          /\ admitted' = [admitted EXCEPT ![p] = {}]
Fault == faults < MaxFaults /\ faults' = faults + 1

\* _reap_expired_reservations, which spares the ids in keep
Reaped(keep) == [r \in Ids |-> IF r \in expired \ keep THEN NoFile ELSE file[r]]

Expire(r) ==
  /\ r \in Files \ expired /\ expired' = expired \union {r}
  /\ UNCHANGED <<recorded, file, minted, pc, id, held, listed, admitted, told, acks, faults>>

-----------------------------------------------------------------------------
(* reserve: rows the ledger does not have are written to a new sidecar.    *)

Select(p, R) ==
  /\ pc[p] = "rest" /\ minted < MaxIds /\ R # {}
  /\ file' = Reaped({})
  /\ IF R \subseteq ledger THEN UNCHANGED <<pc, held>>
     ELSE held' = [held EXCEPT ![p] = R \ ledger] /\ Goto(p, "list")
  /\ UNCHANGED <<recorded, expired, minted, id, listed, admitted, told, acks, faults>>

Surplus == LET open == {r \in Files : ~file[r].committed} IN
           {r \in open : Cardinality({s \in open : s >= r}) >= Cap}

ListOpen(p) ==
  /\ pc[p] = "list" /\ listed' = [listed EXCEPT ![p] = Surplus] /\ Goto(p, "evict")
  /\ UNCHANGED <<recorded, file, expired, minted, id, held, admitted, told, acks, faults>>

Evict(p) ==
  /\ pc[p] = "evict"
  /\ file' = [r \in Ids |-> IF r \in listed[p] THEN NoFile ELSE file[r]]
  /\ Goto(p, "mint") /\ listed' = [listed EXCEPT ![p] = {}]
  /\ UNCHANGED <<recorded, expired, minted, id, held, admitted, told, acks, faults>>

Mint(p) ==
  /\ pc[p] = "mint" /\ minted < MaxIds /\ minted' = minted + 1
  /\ file' = [file EXCEPT ![minted + 1] = [rows |-> held[p], committed |-> FALSE]]
  /\ End(p) /\ UNCHANGED <<recorded, expired, told, acks, faults>>

-----------------------------------------------------------------------------
(* commit_reservation.                                                     *)

Answer(p, kind, R) ==
  /\ answers' = answers \union {[id |-> id[p], kind |-> kind, rows |-> R]}
  /\ commits' = [x \in Rows |-> IF kind = "committed" /\ x \in R THEN commits[x] + 1 ELSE commits[x]]

\* An id is acknowledged, for the first time or again.
Ack(p, r) ==
  /\ pc[p] = "rest" /\ r \in 1 .. minted /\ acks < MaxAcks /\ acks' = acks + 1
  /\ file' = Reaped({r})
  /\ id' = [id EXCEPT ![p] = r] /\ Goto(p, "load")
  /\ UNCHANGED <<recorded, expired, minted, held, listed, admitted, told, faults>>

\* unknown, already acknowledged or expired: nothing is committed
Refuse(p) ==
  LET f == file[id[p]] IN
  /\ pc[p] = "load" /\ End(p)
  /\ \/ f = NoFile /\ Answer(p, "unknown", {})
     \/ f.committed /\ Answer(p, "duplicate", f.rows)
     \/ f # NoFile /\ ~f.committed /\ id[p] \in expired /\ Answer(p, "expired", {})
  /\ UNCHANGED <<recorded, file, expired, minted, acks, faults>>

Load(p) ==
  LET f == file[id[p]] IN
  /\ pc[p] = "load" /\ f # NoFile /\ ~f.committed /\ id[p] \notin expired
  /\ held' = [held EXCEPT ![p] = f.rows] /\ Goto(p, "admit")
  /\ UNCHANGED <<recorded, file, expired, minted, id, listed, admitted, told, acks, faults>>

\* record_undelivered admits the rows nobody has delivered.
AdmittedAll(p) == held[p]
Admitted(p) == held[p] \ ledger

\* the marker first, the ledger not reached
AdmitLater(p) ==
  /\ pc[p] = "admit" /\ file' = [file EXCEPT ![id[p]] = [rows |-> held[p], committed |-> TRUE]]
  /\ admitted' = [admitted EXCEPT ![p] = held[p]] /\ Goto(p, "mark")
  /\ UNCHANGED <<recorded, expired, minted, id, held, listed, told, acks, faults>>
\* It reads the ledger under the delivery-state lock, which it keeps until the rows
\* are published ...
Admit(p) ==
  /\ pc[p] = "admit" /\ \A q \in Ackers : pc[q] # "locked"
  /\ admitted' = [admitted EXCEPT ![p] = Admitted(p)] /\ Goto(p, "locked")
  /\ UNCHANGED <<recorded, file, expired, minted, id, held, listed, told, acks, faults>>

\* ... or without it, when two seconds of waiting are over or the lock cannot be
\* created; or under a lock that was broken because its holder took too long.
AdmitUnlocked(p) ==
  /\ pc[p] = "admit" /\ Fault /\ bare' = bare \union Admitted(p)
  /\ admitted' = [admitted EXCEPT ![p] = Admitted(p)] /\ Goto(p, "unlocked")
  /\ UNCHANGED <<ledger, unpublished, file, expired, minted, id, held, listed, told, acks>>

\* The segment of the rows is written.
Publish(p) ==
  /\ pc[p] \in {"locked", "unlocked"} /\ ledger' = ledger \union admitted[p] /\ Goto(p, "mark")
  /\ UNCHANGED <<unpublished, bare, file, expired, minted, id, held, listed, admitted, told, acks, faults>>

\* A publication that fails reports its rows as admitted all the same.
PublishFails(p) ==
  /\ pc[p] \in {"locked", "unlocked"} /\ Fault /\ unpublished' = unpublished \union admitted[p]
  /\ Goto(p, "mark")
  /\ UNCHANGED <<ledger, bare, file, expired, minted, id, held, listed, admitted, told, acks>>

\* The marker is written after the ledger, and its failure ignored.
Mark(p) ==
  /\ pc[p] = "mark" /\ End(p)
  /\ IF admitted[p] = {} THEN Answer(p, "duplicate", held[p]) ELSE Answer(p, "committed", admitted[p])
  /\ \/ file' = [file EXCEPT ![id[p]] = [rows |-> held[p], committed |-> TRUE]] /\ UNCHANGED faults
     \/ Fault /\ UNCHANGED file
  /\ UNCHANGED <<recorded, expired, minted, acks>>

Kill(p) ==
  /\ pc[p] # "rest" /\ Fault /\ End(p)
  /\ UNCHANGED <<recorded, file, expired, minted, told, acks>>

-----------------------------------------------------------------------------
Next == \/ \E r \in Ids : Expire(r)
        \/ \E p \in Reservers : ListOpen(p) \/ Evict(p) \/ Mint(p) \/ \E R \in SUBSET Rows : Select(p, R)
        \/ \E p \in Ackers : \/ Refuse(p) \/ Load(p) \/ Admit(p) \/ AdmitUnlocked(p)
                             \/ Publish(p) \/ PublishFails(p) \/ Mark(p) \/ \E r \in Ids : Ack(p, r)
        \/ \E p \in Procs : Kill(p)
Spec == Init /\ [][Next]_vars

-----------------------------------------------------------------------------
Answers == [id : Ids, kind : {"unknown", "duplicate", "expired", "committed"}, rows : SUBSET Rows]

TypeOK ==
  /\ ledger \in SUBSET Rows /\ unpublished \in SUBSET Rows /\ bare \in SUBSET Rows
  /\ expired \in SUBSET Ids /\ minted \in 0 .. MaxIds
  /\ file \in [Ids -> [rows : SUBSET Rows, committed : BOOLEAN]]
  /\ pc \in [Procs -> {"rest", "list", "evict", "mint", "load", "admit", "locked", "unlocked", "mark"}]
  /\ id \in [Procs -> 0 .. MaxIds] /\ held \in [Procs -> SUBSET Rows]
  /\ listed \in [Procs -> SUBSET Ids] /\ admitted \in [Procs -> SUBSET Rows] /\ answers \in SUBSET Answers
  /\ commits \in [Rows -> Nat]
  /\ acks \in 0 .. MaxAcks /\ faults \in 0 .. MaxFaults

\* "Acknowledge a reservation: commit exactly its ids, once" (commit_reservation):
\* whatever acknowledgements of one reservation or of several run at once, are
\* repeated, or are retried after a kill, one of them at most is told that it
\* committed a row.  Out of that promise are the rows whose publication failed and
\* those admitted without the lock, the ledger's documented fail-open posture.
CommittedOnce == \A r \in Rows \ (unpublished \union bare) : commits[r] <= 1

\* "an empty admission ... can only mean the ids are already delivered" (#321): what
\* is answered committed or duplicate is in the ledger, all of it that could be
\* published.
ToldIsDelivered == \A a \in answers : a.rows \subseteq ledger \union unpublished

=============================================================================
