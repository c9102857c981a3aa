--------------------------- MODULE ClientFilesProofs ---------------------------
(***************************************************************************)
(* Proofs about the client's small file protocols, for any number of       *)
(* processes, rows and keys and any bounds.                                *)
(***************************************************************************)
EXTENDS ClientFiles, FiniteSets, Sequences, FiniteSetTheorems, TLAPS

--------------------------------------------------------------------------------
(* Reservations.                                                           *)

\* What was delivered, or admitted although its segment could not be written.
Delivered == ledger \cup unpublished

\* The steps at which a process holds what it admitted.
Admitting == {"locked", "unlocked", "mark"}

\* A process at work on an acknowledgement has its id.
IdInv ==
  \A p \in R!Procs : pc[p] \in {"load", "admit"} \cup Admitting => id[p] \in R!Ids

\* One process at a time admits under the lock.
SoleInv ==
  \A p, q \in R!Procs : pc[p] = "locked" /\ pc[q] = "locked" => p = q /\ p \in Ackers

\* What a process admitted is all of its rows that were not delivered, until it has
\* published them.
HoldInv ==
  \A p \in R!Procs :
    /\ pc[p] \notin Admitting => admitted[p] = {}
    /\ pc[p] \in {"locked", "unlocked"} => held[p] \subseteq Delivered \cup admitted[p]
    /\ pc[p] = "unlocked" => admitted[p] \subseteq bare
    /\ pc[p] = "mark" => held[p] \subseteq Delivered /\ admitted[p] \subseteq Delivered

\* A sidecar is marked, and an answer given, after the ledger has the rows.
DeliveredInv ==
  /\ \A r \in R!Ids : file[r].committed => file[r].rows \subseteq Delivered
  /\ R!ToldIsDelivered

\* The ledger admits a row to one call, answered or not.
OnceOnly(x) ==
  /\ commits[x] <= 1
  /\ commits[x] = 1 => x \in ledger
  /\ \A p \in R!Procs : x \in admitted[p] => commits[x] = 0
  /\ \A p, q \in R!Procs : x \in admitted[p] /\ x \in admitted[q] => p = q
AdmittedInv == \A x \in Rows \ (unpublished \cup bare) : OnceOnly(x)

ReserveInv == R!TypeOK /\ IdInv /\ SoleInv /\ HoldInv /\ DeliveredInv /\ AdmittedInv

LEMMA ReserveInit == R!Init => ReserveInv
BY ReservationConstants
   DEF R!Init, ReserveInv, R!TypeOK, IdInv, SoleInv, HoldInv, DeliveredInv, AdmittedInv, OnceOnly,
       Delivered, Admitting, R!ToldIsDelivered, R!Ids, R!Procs, R!NoFile

LEMMA ReserveStutter ==
  ASSUME ReserveInv, UNCHANGED R!vars
  PROVE  ReserveInv'
BY DEF R!vars, R!recorded, R!told, ReserveInv, R!TypeOK, IdInv, SoleInv, HoldInv, DeliveredInv,
       AdmittedInv, OnceOnly, Delivered, Admitting, R!ToldIsDelivered, R!Ids, R!Procs

\* A step of p that admits nothing, after which p holds nothing it admitted: sidecars
\* may go, and those that are marked then have their rows delivered.
LEMMA ReserveEnds ==
  ASSUME ReserveInv, R!TypeOK', UNCHANGED R!recorded, NEW p \in R!Procs,
         \A r \in R!Ids : file'[r].committed => file'[r].rows \subseteq Delivered,
         pc'[p] \notin Admitting, admitted'[p] = {},
         pc'[p] \in {"load", "admit"} => id'[p] \in R!Ids,
         \A q \in R!Procs \ {p} :
           pc'[q] = pc[q] /\ held'[q] = held[q] /\ admitted'[q] = admitted[q] /\ id'[q] = id[q],
         \A a \in answers' \ answers : a.rows \subseteq Delivered,
         \A x \in Rows : \/ commits'[x] = commits[x]
                         \/ commits'[x] = commits[x] + 1 /\ x \in admitted[p] /\ pc[p] = "mark"
  PROVE  ReserveInv'
<1>1. IdInv' /\ SoleInv' /\ HoldInv'
  BY DEF ReserveInv, IdInv, SoleInv, HoldInv, Delivered, Admitting, R!recorded
<1>2. DeliveredInv'
  BY DEF ReserveInv, DeliveredInv, Delivered, R!ToldIsDelivered, R!recorded
<1>3. AdmittedInv'
  <2> SUFFICES ASSUME NEW x \in Rows \ (unpublished \cup bare)
               PROVE  OnceOnly(x)'
    BY DEF AdmittedInv, R!recorded
  <2>1. OnceOnly(x) /\ commits[x] \in Nat
    BY DEF ReserveInv, AdmittedInv, R!TypeOK
  <2>2. \A q, s \in R!Procs : x \in admitted'[q] /\ x \in admitted'[s] => q = s
    BY <2>1 DEF OnceOnly
  <2>3. CASE commits'[x] = commits[x]
    BY <2>1, <2>2, <2>3 DEF OnceOnly, R!recorded
  <2>4. CASE commits'[x] = commits[x] + 1 /\ x \in admitted[p] /\ pc[p] = "mark"
    <3>1. commits[x] = 0 /\ x \in ledger
      BY <2>1, <2>4 DEF OnceOnly, ReserveInv, HoldInv, Delivered
    <3>2. \A q \in R!Procs : x \notin admitted'[q]
      BY <2>1, <2>4 DEF OnceOnly
    <3> QED BY <2>2, <2>4, <3>1, <3>2 DEF OnceOnly, R!recorded
  <2> QED BY <2>3, <2>4
<1> QED
  BY <1>1, <1>2, <1>3 DEF ReserveInv

\* ... and answers nothing.
LEMMA ReserveQuiet ==
  ASSUME ReserveInv, R!TypeOK', UNCHANGED <<R!recorded, R!told>>, NEW p \in R!Procs,
         \A r \in R!Ids : file'[r].committed => file'[r] = file[r],
         pc'[p] \notin Admitting, admitted'[p] = {},
         pc'[p] \in {"load", "admit"} => id'[p] \in R!Ids,
         \A q \in R!Procs \ {p} :
           pc'[q] = pc[q] /\ held'[q] = held[q] /\ admitted'[q] = admitted[q] /\ id'[q] = id[q]
  PROVE  ReserveInv'
<1>1. \A r \in R!Ids : file'[r].committed => file'[r].rows \subseteq Delivered
  BY DEF ReserveInv, DeliveredInv
<1>2. answers' = answers /\ commits' = commits /\ UNCHANGED R!recorded
  BY DEF R!told
<1> QED BY <1>1, <1>2, ReserveEnds

\* What p admits is not in the ledger, and with another process only by going
\* without the lock.
LEMMA ReserveAdmits ==
  ASSUME ReserveInv, R!TypeOK', NEW p \in R!Procs, pc[p] = "admit",
         UNCHANGED <<ledger, unpublished, file, id, held, R!told>>,
         admitted' = [admitted EXCEPT ![p] = held[p] \ ledger],
         \/ /\ pc' = [pc EXCEPT ![p] = "locked"] /\ bare' = bare /\ p \in Ackers
            /\ \A q \in Ackers : pc[q] # "locked"
         \/ /\ pc' = [pc EXCEPT ![p] = "unlocked"] /\ bare' = bare \cup (held[p] \ ledger)
  PROVE  ReserveInv'
<1>1. /\ admitted'[p] = held[p] \ ledger /\ pc'[p] \in {"locked", "unlocked"}
      /\ \A q \in R!Procs \ {p} : admitted'[q] = admitted[q] /\ pc'[q] = pc[q]
      /\ bare \subseteq bare'
      /\ pc'[p] = "unlocked" => held[p] \ ledger \subseteq bare'
      /\ pc'[p] = "locked" => p \in Ackers /\ \A q \in Ackers : pc[q] # "locked"
  BY DEF ReserveInv, R!TypeOK
<1>2. IdInv' /\ DeliveredInv'
  BY <1>1 DEF ReserveInv, IdInv, DeliveredInv, Delivered, Admitting, R!ToldIsDelivered, R!told
<1>3. SoleInv'
  BY <1>1 DEF ReserveInv, SoleInv
<1>4. HoldInv'
  BY <1>1 DEF ReserveInv, HoldInv, Delivered, Admitting
<1>5. AdmittedInv'
  <2> SUFFICES ASSUME NEW x \in Rows, x \notin unpublished, x \notin bare'
               PROVE  OnceOnly(x)'
    BY DEF AdmittedInv
  <2>1. OnceOnly(x) /\ commits'[x] = commits[x] /\ commits[x] \in Nat
    BY <1>1 DEF ReserveInv, AdmittedInv, R!TypeOK, R!told
  <2>2. CASE x \notin held[p] \ ledger
    BY <1>1, <2>1, <2>2 DEF OnceOnly
  <2>3. CASE x \in held[p] \ ledger
    <3>1. commits[x] = 0
      BY <2>1, <2>3 DEF OnceOnly
    <3>2. pc'[p] = "locked"
      BY <1>1, <2>3
    <3>3. ASSUME NEW q \in R!Procs, q # p
          PROVE  x \notin admitted[q]
      <4>1. pc[q] # "locked"
        BY <1>1, <3>2 DEF ReserveInv, SoleInv
      <4>2. pc[q] = "unlocked" => x \notin admitted[q]
        BY <1>1 DEF ReserveInv, HoldInv
      <4>3. pc[q] = "mark" => x \notin admitted[q]
        BY <2>3 DEF ReserveInv, HoldInv, Delivered
      <4> QED BY <4>1, <4>2, <4>3 DEF ReserveInv, HoldInv, Admitting
    <3> QED BY <1>1, <2>1, <3>1, <3>3 DEF OnceOnly
  <2> QED BY <2>2, <2>3
<1> QED
  BY <1>2, <1>3, <1>4, <1>5 DEF ReserveInv

\* What p admitted is published, or its publication fails.
LEMMA ReservePublishes ==
  ASSUME ReserveInv, R!TypeOK', NEW p \in R!Procs, pc[p] \in {"locked", "unlocked"},
         UNCHANGED <<bare, file, id, held, admitted, R!told>>,
         pc' = [pc EXCEPT ![p] = "mark"],
         \/ ledger' = ledger \cup admitted[p] /\ unpublished' = unpublished
         \/ unpublished' = unpublished \cup admitted[p] /\ ledger' = ledger
  PROVE  ReserveInv'
<1>1. pc'[p] = "mark" /\ \A q \in R!Procs \ {p} : pc'[q] = pc[q]
  BY DEF ReserveInv, R!TypeOK
<1>2. /\ Delivered' = Delivered \cup admitted[p]
      /\ ledger \subseteq ledger' /\ unpublished \subseteq unpublished'
  BY DEF Delivered
<1>3. IdInv' /\ SoleInv'
  BY <1>1 DEF ReserveInv, IdInv, SoleInv, Admitting
<1>4. HoldInv'
  BY <1>1, <1>2 DEF ReserveInv, HoldInv, Admitting
<1>5. DeliveredInv'
  BY <1>2 DEF ReserveInv, DeliveredInv, Delivered, R!ToldIsDelivered, R!told
<1>6. AdmittedInv'
  BY <1>2 DEF ReserveInv, AdmittedInv, OnceOnly, R!told
<1> QED
  BY <1>3, <1>4, <1>5, <1>6 DEF ReserveInv

\* What an answer is, and which rows it commits.
LEMMA Answered ==
  ASSUME R!TypeOK, NEW p \in R!Procs, id[p] \in R!Ids, NEW X \in SUBSET Rows,
         NEW k \in {"unknown", "duplicate", "expired", "committed"}, R!Answer(p, k, X)
  PROVE  /\ answers' \in SUBSET R!Answers /\ commits' \in [Rows -> Nat]
         /\ \A a \in answers' \ answers : a.rows = X
         /\ \A x \in Rows : \/ commits'[x] = commits[x]
                            \/ commits'[x] = commits[x] + 1 /\ k = "committed" /\ x \in X
<1>1. answers' = answers \cup {[id |-> id[p], kind |-> k, rows |-> X]}
  BY DEF R!Answer
<1>2. commits' = [x \in Rows |-> IF k = "committed" /\ x \in X THEN commits[x] + 1 ELSE commits[x]]
  BY DEF R!Answer
<1>3. [id |-> id[p], kind |-> k, rows |-> X] \in R!Answers
  BY DEF R!Answers
<1> QED BY <1>1, <1>2, <1>3 DEF R!TypeOK

LEMMA ReserveKeeps ==
  ASSUME ReserveInv, R!Next
  PROVE  ReserveInv'
<1>0. R!TypeOK /\ IdInv /\ SoleInv /\ HoldInv /\ DeliveredInv /\ AdmittedInv
  BY DEF ReserveInv
<1> USE ReservationConstants DEF R!Ids, R!Procs
<1>1. ASSUME NEW r \in R!Ids, R!Expire(r)
      PROVE  ReserveInv'
  <2>1. R!TypeOK'
    BY <1>0, <1>1 DEF R!Expire, R!TypeOK, R!recorded, R!told
  <2>2. UNCHANGED <<ledger, unpublished, bare, file, pc, id, held, admitted, answers, commits>>
    BY <1>1 DEF R!Expire, R!recorded, R!told
  <2> QED
    BY <2>1, <2>2 DEF ReserveInv, IdInv, SoleInv, HoldInv, DeliveredInv, AdmittedInv, OnceOnly,
                      Delivered, R!ToldIsDelivered
<1>2. ASSUME NEW p \in Reservers, R!ListOpen(p)
      PROVE  ReserveInv'
  <2>1. R!Surplus \subseteq R!Ids
    BY DEF R!Surplus, R!Files
  <2>2. R!TypeOK'
    BY <1>0, <1>2, <2>1 DEF R!ListOpen, R!Goto, R!TypeOK, R!recorded, R!told
  <2>3. /\ pc'[p] = "evict" /\ admitted'[p] = {} /\ UNCHANGED <<R!recorded, R!told>>
        /\ \A q \in R!Procs \ {p} :
             pc'[q] = pc[q] /\ held'[q] = held[q] /\ admitted'[q] = admitted[q] /\ id'[q] = id[q]
    BY <1>0, <1>2 DEF R!ListOpen, R!Goto, R!TypeOK, HoldInv, Admitting
  <2> QED
    BY <1>2, <2>2, <2>3, ReserveQuiet DEF R!ListOpen, Admitting
<1>3. ASSUME NEW p \in Reservers, R!Evict(p)
      PROVE  ReserveInv'
  <2>1. R!TypeOK'
    BY <1>0, <1>3 DEF R!Evict, R!Goto, R!NoFile, R!TypeOK, R!recorded, R!told
  <2>2. /\ pc'[p] = "mint" /\ admitted'[p] = {} /\ UNCHANGED <<R!recorded, R!told>>
        /\ \A q \in R!Procs \ {p} :
             pc'[q] = pc[q] /\ held'[q] = held[q] /\ admitted'[q] = admitted[q] /\ id'[q] = id[q]
        /\ \A r \in R!Ids : file'[r].committed => file'[r] = file[r]
    BY <1>0, <1>3 DEF R!Evict, R!Goto, R!NoFile, R!TypeOK, HoldInv, Admitting
  <2> QED
    BY <2>1, <2>2, ReserveQuiet DEF Admitting
<1>4. ASSUME NEW p \in Reservers, R!Mint(p)
      PROVE  ReserveInv'
  <2>1. R!TypeOK'
    BY <1>0, <1>4 DEF R!Mint, R!End, R!Goto, R!TypeOK, R!recorded, R!told
  <2>2. /\ pc'[p] = "rest" /\ admitted'[p] = {} /\ UNCHANGED <<R!recorded, R!told>>
        /\ \A q \in R!Procs \ {p} :
             pc'[q] = pc[q] /\ held'[q] = held[q] /\ admitted'[q] = admitted[q] /\ id'[q] = id[q]
        /\ \A r \in R!Ids : file'[r].committed => file'[r] = file[r]
    BY <1>0, <1>4 DEF R!Mint, R!End, R!Goto, R!TypeOK
  <2> QED
    BY <2>1, <2>2, ReserveQuiet DEF Admitting
<1>5. ASSUME NEW p \in Reservers, NEW X \in SUBSET Rows, R!Select(p, X)
      PROVE  ReserveInv'
  <2>1. file' \in [R!Ids -> [rows : SUBSET Rows, committed : BOOLEAN]]
    BY <1>0, <1>5 DEF R!Select, R!Reaped, R!NoFile, R!TypeOK
  <2>2. /\ pc' \in [R!Procs -> {"rest", "list", "evict", "mint", "load", "admit", "locked", "unlocked", "mark"}]
        /\ held' \in [R!Procs -> SUBSET Rows] /\ pc'[p] \in {"rest", "list"}
        /\ \A q \in R!Procs \ {p} : pc'[q] = pc[q] /\ held'[q] = held[q]
    <3>1. CASE X \subseteq ledger
      BY <1>0, <1>5, <3>1 DEF R!Select, R!TypeOK
    <3>2. CASE ~ (X \subseteq ledger)
      <4>1. X \ ledger \in SUBSET Rows
        OBVIOUS
      <4>2. held' = [held EXCEPT ![p] = X \ ledger] /\ pc' = [pc EXCEPT ![p] = "list"]
        BY <1>5, <3>2 DEF R!Select, R!Goto
      <4> QED
        BY <1>0, <4>1, <4>2 DEF R!TypeOK
    <3> QED
      BY <3>1, <3>2
  <2>3. R!TypeOK'
    BY <1>0, <1>5, <2>1, <2>2 DEF R!Select, R!TypeOK, R!recorded, R!told
  <2>4. /\ \A q \in R!Procs : admitted'[q] = admitted[q] /\ id'[q] = id[q]
        /\ UNCHANGED <<R!recorded, R!told>> /\ admitted'[p] = {}
        /\ \A r \in R!Ids : file'[r].committed => file'[r] = file[r]
    BY <1>0, <1>5 DEF R!Select, R!Reaped, R!NoFile, R!TypeOK, HoldInv, Admitting
  <2> QED
    BY <2>2, <2>3, <2>4, ReserveQuiet DEF Admitting
<1>6. ASSUME NEW p \in Ackers, R!Refuse(p)
      PROVE  ReserveInv'
  <2> DEFINE f == file[id[p]]
  <2>1. id[p] \in R!Ids /\ pc[p] = "load"
    BY <1>0, <1>6 DEF R!Refuse, IdInv
  <2>2. f \in [rows : SUBSET Rows, committed : BOOLEAN] /\ (f.committed => f.rows \subseteq Delivered)
    BY <1>0, <2>1 DEF R!TypeOK, DeliveredInv
  <2>3. \E k \in {"unknown", "duplicate", "expired"}, X \in SUBSET Rows :
          R!Answer(p, k, X) /\ X \subseteq Delivered
    <3>1. CASE R!Answer(p, "unknown", {})
      BY <3>1
    <3>2. CASE f.committed /\ R!Answer(p, "duplicate", f.rows)
      BY <2>2, <3>2
    <3>3. CASE R!Answer(p, "expired", {})
      BY <3>3
    <3> QED BY <1>6, <3>1, <3>2, <3>3 DEF R!Refuse
  <2>4. PICK k \in {"unknown", "duplicate", "expired"}, X \in SUBSET Rows :
          R!Answer(p, k, X) /\ X \subseteq Delivered
    BY <2>3
  <2>5. /\ answers' \in SUBSET R!Answers /\ commits' \in [Rows -> Nat]
        /\ \A a \in answers' \ answers : a.rows = X
        /\ \A x \in Rows : commits'[x] = commits[x]
    BY <1>0, <2>1, <2>4, Answered
  <2>6. R!TypeOK'
    BY <1>0, <1>6, <2>5 DEF R!Refuse, R!End, R!Goto, R!TypeOK, R!recorded
  <2>7. /\ pc'[p] = "rest" /\ admitted'[p] = {} /\ UNCHANGED R!recorded
        /\ \A q \in R!Procs \ {p} :
             pc'[q] = pc[q] /\ held'[q] = held[q] /\ admitted'[q] = admitted[q] /\ id'[q] = id[q]
        /\ \A r \in R!Ids : file'[r].committed => file'[r].rows \subseteq Delivered
    BY <1>0, <1>6 DEF R!Refuse, R!End, R!Goto, R!TypeOK, DeliveredInv
  <2> QED
    BY <2>4, <2>5, <2>6, <2>7, ReserveEnds DEF Admitting
<1>7. ASSUME NEW p \in Ackers, R!Load(p)
      PROVE  ReserveInv'
  <2>1. R!TypeOK'
    BY <1>0, <1>7 DEF R!Load, R!Goto, R!TypeOK, IdInv, R!recorded, R!told
  <2>2. /\ pc'[p] = "admit" /\ id'[p] \in R!Ids /\ admitted'[p] = {} /\ UNCHANGED <<R!recorded, R!told>>
        /\ \A q \in R!Procs \ {p} :
             pc'[q] = pc[q] /\ held'[q] = held[q] /\ admitted'[q] = admitted[q] /\ id'[q] = id[q]
        /\ file' = file
    BY <1>0, <1>7 DEF R!Load, R!Goto, R!TypeOK, HoldInv, Admitting, IdInv
  <2> QED
    BY <2>1, <2>2, ReserveQuiet DEF Admitting
<1>8. ASSUME NEW p \in Ackers, R!Admit(p) \/ R!AdmitUnlocked(p)
      PROVE  ReserveInv'
  <2>1. /\ UNCHANGED <<ledger, unpublished, file, expired, minted, id, held, listed, answers, commits, acks>>
        /\ pc[p] = "admit" /\ admitted' = [admitted EXCEPT ![p] = held[p] \ ledger]
        /\ faults' \in 0 .. MaxFaults
        /\ \/ /\ pc' = [pc EXCEPT ![p] = "locked"] /\ bare' = bare
              /\ \A q \in Ackers : pc[q] # "locked"
           \/ pc' = [pc EXCEPT ![p] = "unlocked"] /\ bare' = bare \cup (held[p] \ ledger)
    BY <1>0, <1>8 DEF R!Admit, R!AdmitUnlocked, R!Admitted, R!Fault, R!Goto, R!TypeOK, R!recorded, R!told
  <2>2. held[p] \in SUBSET Rows
    BY <1>0 DEF R!TypeOK
  <2>3. R!TypeOK'
    BY <1>0, <2>1, <2>2 DEF R!TypeOK
  <2> QED
    BY <2>1, <2>3, ReserveAdmits DEF R!told
<1>9. ASSUME NEW p \in Ackers, R!Publish(p) \/ R!PublishFails(p)
      PROVE  ReserveInv'
  <2>1. /\ UNCHANGED <<bare, file, expired, minted, id, held, listed, admitted, answers, commits, acks>>
        /\ pc[p] \in {"locked", "unlocked"} /\ pc' = [pc EXCEPT ![p] = "mark"]
        /\ faults' \in 0 .. MaxFaults
        /\ \/ ledger' = ledger \cup admitted[p] /\ unpublished' = unpublished
           \/ unpublished' = unpublished \cup admitted[p] /\ ledger' = ledger
    BY <1>0, <1>9 DEF R!Publish, R!PublishFails, R!Fault, R!Goto, R!TypeOK, R!told
  <2>2. admitted[p] \in SUBSET Rows
    BY <1>0 DEF R!TypeOK
  <2>3. R!TypeOK'
    BY <1>0, <2>1, <2>2 DEF R!TypeOK
  <2> QED
    BY <2>1, <2>3, ReservePublishes DEF R!told
<1>10. ASSUME NEW p \in Ackers, R!Mark(p)
      PROVE  ReserveInv'
  <2>1. /\ id[p] \in R!Ids /\ pc[p] = "mark" /\ held[p] \in SUBSET Rows /\ admitted[p] \in SUBSET Rows
        /\ held[p] \subseteq Delivered /\ admitted[p] \subseteq Delivered
    BY <1>0, <1>10 DEF R!Mark, IdInv, R!TypeOK, HoldInv, Admitting
  <2>2. PICK k \in {"duplicate", "committed"}, X \in SUBSET Rows :
          /\ R!Answer(p, k, X) /\ X \subseteq Delivered
          /\ k = "committed" => X = admitted[p]
    BY <1>10, <2>1 DEF R!Mark
  <2>3. /\ answers' \in SUBSET R!Answers /\ commits' \in [Rows -> Nat]
        /\ \A a \in answers' \ answers : a.rows = X
        /\ \A x \in Rows : \/ commits'[x] = commits[x]
                           \/ commits'[x] = commits[x] + 1 /\ x \in admitted[p] /\ pc[p] = "mark"
    BY <1>0, <2>1, <2>2, Answered
  <2>4. /\ UNCHANGED <<ledger, unpublished, bare, expired, minted, acks>>
        /\ R!End(p) /\ faults' \in 0 .. MaxFaults
        /\ \/ file' = file
           \/ file' = [file EXCEPT ![id[p]] = [rows |-> held[p], committed |-> TRUE]]
    BY <1>0, <1>10 DEF R!Mark, R!Fault, R!TypeOK, R!recorded
  <2>5. /\ file' \in [R!Ids -> [rows : SUBSET Rows, committed : BOOLEAN]]
        /\ \A r \in R!Ids : file'[r].committed => file'[r].rows \subseteq Delivered
    <3>1. CASE file' = file
      BY <1>0, <3>1 DEF R!TypeOK, DeliveredInv
    <3>2. CASE file' = [file EXCEPT ![id[p]] = [rows |-> held[p], committed |-> TRUE]]
      BY <1>0, <2>1, <3>2 DEF R!TypeOK, DeliveredInv
    <3> QED
      BY <2>4, <3>1, <3>2
  <2>6. R!TypeOK'
    BY <1>0, <2>3, <2>4, <2>5 DEF R!End, R!Goto, R!TypeOK
  <2>7. /\ pc'[p] = "rest" /\ admitted'[p] = {} /\ UNCHANGED R!recorded
        /\ \A q \in R!Procs \ {p} :
             pc'[q] = pc[q] /\ held'[q] = held[q] /\ admitted'[q] = admitted[q] /\ id'[q] = id[q]
    BY <1>0, <2>4 DEF R!End, R!Goto, R!TypeOK, R!recorded
  <2> QED
    BY <2>2, <2>3, <2>5, <2>6, <2>7, ReserveEnds DEF Admitting
<1>11. ASSUME NEW p \in Ackers, NEW r \in R!Ids, R!Ack(p, r)
       PROVE  ReserveInv'
  <2>1. R!TypeOK'
    BY <1>0, <1>11 DEF R!Ack, R!Reaped, R!Goto, R!NoFile, R!TypeOK, R!recorded, R!told
  <2>2. /\ pc'[p] = "load" /\ id'[p] \in R!Ids /\ admitted'[p] = {} /\ UNCHANGED <<R!recorded, R!told>>
        /\ \A q \in R!Procs \ {p} :
             pc'[q] = pc[q] /\ held'[q] = held[q] /\ admitted'[q] = admitted[q] /\ id'[q] = id[q]
        /\ \A s \in R!Ids : file'[s].committed => file'[s] = file[s]
    BY <1>0, <1>11 DEF R!Ack, R!Reaped, R!Goto, R!NoFile, R!TypeOK, HoldInv, Admitting
  <2> QED
    BY <2>1, <2>2, ReserveQuiet DEF Admitting
<1>12. ASSUME NEW p \in R!Procs, R!Kill(p)
       PROVE  ReserveInv'
  <2>1. R!TypeOK'
    BY <1>0, <1>12 DEF R!Kill, R!Fault, R!End, R!Goto, R!TypeOK, R!recorded, R!told
  <2>2. /\ pc'[p] = "rest" /\ admitted'[p] = {} /\ UNCHANGED <<R!recorded, R!told>>
        /\ \A q \in R!Procs \ {p} :
             pc'[q] = pc[q] /\ held'[q] = held[q] /\ admitted'[q] = admitted[q] /\ id'[q] = id[q]
        /\ file' = file
    BY <1>0, <1>12 DEF R!Kill, R!End, R!Goto, R!TypeOK
  <2> QED
    BY <2>1, <2>2, ReserveQuiet DEF Admitting
<1> QED
  BY <1>1, <1>2, <1>3, <1>4, <1>5, <1>6, <1>7, <1>8, <1>9, <1>10, <1>11, <1>12 DEF R!Next

--------------------------------------------------------------------------------
(* The correction queue.                                                   *)

File == Q!BoundedSeq(Keys, MaxQueue)

LEMMA FileDef == File = {q \in Seq(Keys) : Len(q) <= MaxQueue}
<1>1. ASSUME NEW q \in File
      PROVE  q \in Seq(Keys) /\ Len(q) <= MaxQueue
  BY <1>1, QueueConstants DEF File, Q!BoundedSeq, Q!SeqOf
<1>2. ASSUME NEW q \in Seq(Keys), Len(q) <= MaxQueue
      PROVE  q \in File
  BY <1>2, QueueConstants DEF File, Q!BoundedSeq, Q!SeqOf
<1> QED
  BY <1>1, <1>2

\* A full queue makes room for a new item by dropping its oldest, and only that.
LEMMA AddedKeeps ==
  ASSUME NEW q \in File, NEW k \in Keys
  PROVE  /\ Q!Added(q, k) \in File /\ Q!Contains(Q!Added(q, k), k)
         /\ \A x : Q!Contains(q, x) /\ x \notin Q!Dropped(q) => Q!Contains(Q!Added(q, k), x)
<1>1. q \in Seq(Keys) /\ Len(q) \in Nat /\ Len(q) <= MaxQueue /\ MaxQueue \in Nat \ {0}
  BY FileDef, QueueConstants
<1>2. CASE Len(q) = MaxQueue
  <2> DEFINE t == Tail(q)
  <2>1. /\ t \in Seq(Keys) /\ Len(t) = Len(q) - 1
        /\ \A i \in 2..Len(q) : t[i - 1] = q[i]
    BY <1>1, <1>2
  <2>2. Q!Added(q, k) = Append(t, k) /\ Q!Dropped(q) = {q[1]}
    BY <1>1, <1>2 DEF Q!Added, Q!Dropped
  <2> HIDE DEF t
  <2>3. Append(t, k) \in File /\ Q!Contains(Append(t, k), k)
    BY <1>1, <2>1, FileDef DEF Q!Contains
  <2>4. ASSUME NEW x, Q!Contains(q, x), x # q[1]
        PROVE  Q!Contains(Append(t, k), x)
    <3>1. PICK i \in 1..Len(q) : q[i] = x
      BY <2>4 DEF Q!Contains
    <3>2. i - 1 \in 1..Len(t) /\ t[i - 1] = x
      BY <1>1, <2>1, <2>4, <3>1
    <3>3. /\ i - 1 \in 1..Len(Append(t, k))
          /\ Append(t, k)[i - 1] = x
      BY <2>1, <3>2
    <3> QED
      BY <3>3 DEF Q!Contains
  <2> QED
    BY <2>2, <2>3, <2>4
<1>3. CASE Len(q) # MaxQueue
  <2>1. Q!Added(q, k) = Append(q, k)
    BY <1>3 DEF Q!Added
  <2>2. Append(q, k) \in File /\ Q!Contains(Append(q, k), k)
    BY <1>1, <1>3, FileDef DEF Q!Contains
  <2>3. ASSUME NEW x, Q!Contains(q, x)
        PROVE  Q!Contains(Append(q, k), x)
    BY <1>1, <2>3 DEF Q!Contains
  <2> QED
    BY <2>1, <2>2, <2>3
<1> QED
  BY <1>2, <1>3

\* A clear removes one item, and the others keep their places in the order.
LEMMA WithoutKeeps ==
  ASSUME NEW q \in File, NEW k
  PROVE  /\ Q!Without(q, k) \in File
         /\ \A x : Q!Contains(q, x) /\ x # k => Q!Contains(Q!Without(q, k), x)
<1> DEFINE kept == {i \in DOMAIN q : q[i] # k}
           rank(i) == Cardinality({h \in kept : h <= i})
           n == Cardinality(kept)
           at(j) == CHOOSE i \in kept : rank(i) = j
<1>1. /\ q \in Seq(Keys) /\ Len(q) \in Nat /\ Len(q) <= MaxQueue /\ MaxQueue \in Nat
      /\ DOMAIN q = 1..Len(q)
  BY FileDef, QueueConstants
<1>2. IsFiniteSet(kept) /\ n \in Nat /\ n <= Len(q)
  <2>1. IsFiniteSet(1..Len(q)) /\ Cardinality(1..Len(q)) = Len(q)
    <3>1. \A m \in Nat : IsFiniteSet(1..m) /\ Cardinality(1..m) = m
      BY FS_Interval
    <3> QED
      BY <1>1, <3>1
  <2> QED
    BY <1>1, <2>1, FS_Subset, FS_CardinalityType
<1>3. Q!Without(q, k) = [j \in 1..n |-> q[at(j)]]
  BY DEF Q!Without, Q!Cardinality, Q!IsFiniteSet, Cardinality, IsFiniteSet
<1>4. ASSUME NEW i \in kept
      PROVE  rank(i) \in 1..n
  <2>1. {h \in kept : h <= i} \in SUBSET kept /\ i \in {h \in kept : h <= i}
    BY <1>1
  <2>2. IsFiniteSet({h \in kept : h <= i}) /\ rank(i) <= n /\ rank(i) \in Nat
    BY <1>2, <2>1, FS_Subset, FS_CardinalityType
  <2>3. rank(i) # 0
    BY <2>1, <2>2, FS_EmptySet
  <2> QED
    BY <1>2, <2>2, <2>3
<1>5. ASSUME NEW i \in kept, NEW j \in kept, i < j
      PROVE  rank(i) # rank(j)
  <2> DEFINE I == {h \in kept : h <= i}
             J == {h \in kept : h <= j}
  <2>1. I \in SUBSET J /\ j \in J /\ j \notin I
    BY <1>1, <1>5
  <2>2. IsFiniteSet(J)
    BY <1>2, FS_Subset
  <2> QED
    BY <2>1, <2>2, FS_Subset
<1>6. \A i, j \in kept : rank(i) = rank(j) => i = j
  BY <1>1, <1>5
<1>7. \A j \in 1..n : \E i \in kept : rank(i) = j
  <2> DEFINE f == [i \in kept |-> rank(i)]
  <2> HIDE DEF rank
  <2>1. f \in Injection(kept, 1..n)
    BY <1>4, <1>6 DEF Injection, IsInjective
  <2>2. IsFiniteSet(1..n) /\ Cardinality(1..n) = n
    BY <1>2, FS_Interval
  <2>3. f \in Surjection(kept, 1..n)
    BY <2>1, <2>2, FS_Injection
  <2> QED
    BY <2>3 DEF Surjection
<1> HIDE DEF rank
<1>8. \A j \in 1..n : at(j) \in kept
  BY <1>7
<1>9. \A i \in kept : at(rank(i)) = i
  BY <1>4, <1>6
<1> HIDE DEF at
<1>10. Q!Without(q, k) \in Seq(Keys) /\ Len(Q!Without(q, k)) = n
  BY <1>1, <1>2, <1>3, <1>8
<1>11. ASSUME NEW x, Q!Contains(q, x), x # k
       PROVE  Q!Contains(Q!Without(q, k), x)
  <2>1. PICK i \in kept : q[i] = x
    BY <1>1, <1>11 DEF Q!Contains
  <2>2. rank(i) \in 1..n /\ Q!Without(q, k)[rank(i)] = x
    BY <1>3, <1>4, <1>9, <2>1
  <2> QED
    BY <1>10, <2>2 DEF Q!Contains
<1> QED
  BY <1>1, <1>2, <1>10, <1>11, FileDef

\* Nothing was killed, no one outlasted the 30 s of the lock, and no writer
\* without the lock replaced a queue it had not loaded.
Calm == kills = 0 /\ slow = 0 /\ ~ clobbered

StepInv ==
  /\ \A p \in Hooks : /\ pc[p] \in {"rest", "lock", "break", "load", "write", "unlock"}
                      /\ pc[p] # "rest" => key[p] \in Keys
  /\ \A w \in Writers : pc[w] \in {"rest", "add", "clear"} /\ (pc[w] # "rest" => key[w] \in Keys)

\* The lock file excludes: its creator is alive, and no other capture is past it.
LockInv ==
  /\ ~ lock.old /\ (\A p \in Hooks : pc[p] # "break")
  /\ lock.exists => holder \in Hooks
  /\ \A p \in Hooks : pc[p] \in {"load", "write", "unlock"} => lock.exists /\ holder = p

\* What a capture loaded under the lock has every capture that is still owed.
LoadedInv ==
  /\ Q!Kept
  /\ \A p \in Hooks : pc[p] = "write" => \A k \in owed : Q!Contains(loaded[p], k)

QueueInv == Q!TypeOK /\ StepInv /\ (Calm => LockInv /\ LoadedInv)

LEMMA QueueInit == Q!Init => QueueInv
<1> SUFFICES ASSUME Q!Init
             PROVE  QueueInv
  OBVIOUS
<1>1. <<>> \in File
  BY FileDef, QueueConstants
<1>2. Q!TypeOK
  <2>1. queue \in File /\ loaded \in [Q!Procs -> File]
    BY <1>1 DEF Q!Init
  <2>2. calls \in 0 .. MaxCalls /\ kills \in 0 .. MaxKills /\ slow \in 0 .. MaxSlow
    BY QueueConstants, SnapshotConstants DEF Q!Init
  <2>3. /\ lock \in [exists : BOOLEAN, old : BOOLEAN] /\ holder \in Q!Procs \cup {Q!None}
        /\ owed \in SUBSET Keys /\ clobbered \in BOOLEAN
    BY DEF Q!Init, Q!Unlocked
  <2>4. key \in [Q!Procs -> Keys \cup {Q!None}]
    BY DEF Q!Init
  <2> QED
    BY <2>1, <2>2, <2>3, <2>4 DEF Q!Init, Q!TypeOK, File
<1>3. StepInv
  BY DEF Q!Init, Q!Procs, StepInv
<1>4. LockInv /\ LoadedInv
  BY DEF Q!Init, Q!Procs, Q!Unlocked, LockInv, LoadedInv, Q!Kept
<1> QED
  BY <1>2, <1>3, <1>4 DEF QueueInv

LEMMA QueueStutter ==
  ASSUME QueueInv, UNCHANGED Q!vars
  PROVE  QueueInv'
BY DEF Q!vars, QueueInv, Q!TypeOK, StepInv, LockInv, LoadedInv, Q!Kept, Calm, Q!Procs

LEMMA QueueKeeps ==
  ASSUME QueueInv, Q!Next
  PROVE  QueueInv'
<1>0. Q!TypeOK /\ StepInv /\ (Calm => LockInv /\ LoadedInv)
  BY DEF QueueInv
<1>t. /\ queue \in File /\ lock \in [exists : BOOLEAN, old : BOOLEAN]
      /\ holder \in Hooks \cup Writers \cup {"none"}
      /\ pc \in [Hooks \cup Writers ->
                 {"rest", "lock", "break", "load", "write", "unlock", "add", "clear"}]
      /\ key \in [Hooks \cup Writers -> Keys \cup {"none"}]
      /\ loaded \in [Hooks \cup Writers -> File]
      /\ owed \in SUBSET Keys /\ clobbered \in BOOLEAN
      /\ calls \in 0 .. MaxCalls /\ kills \in 0 .. MaxKills /\ slow \in 0 .. MaxSlow
  BY <1>0 DEF Q!TypeOK, Q!Procs, Q!None, File
<1>e. <<>> \in File
  BY FileDef, QueueConstants
<1>1. CASE Q!AgeLock
  <2>1. /\ lock' = [lock EXCEPT !.old = TRUE] /\ slow' \in 0 .. MaxSlow
        /\ UNCHANGED <<queue, holder, pc, key, loaded, owed, clobbered, calls, kills>>
    BY <1>t, <1>1, QueueConstants DEF Q!AgeLock
  <2>2. Q!TypeOK' /\ StepInv'
    BY <1>0, <1>t, <2>1 DEF Q!TypeOK, StepInv, Q!Procs
  <2>3. ~ Calm'
    BY <1>0, <1>t, <1>1, QueueConstants DEF Q!AgeLock, Calm, LockInv, Q!None
  <2> QED
    BY <2>2, <2>3 DEF QueueInv
<1>2. ASSUME NEW p \in Hooks, NEW k \in Keys, Q!Capture(p, k)
      PROVE  QueueInv'
  <2>1. Q!TypeOK' /\ StepInv'
    BY <1>0, <1>t, <1>2, QueueConstants DEF Q!Capture, Q!Goto, Q!TypeOK, StepInv, Q!Procs
  <2>2. Calm' => LockInv' /\ LoadedInv'
    BY <1>0, <1>t, <1>2 DEF Q!Capture, Q!Goto, Calm, LockInv, LoadedInv, Q!Kept
  <2> QED
    BY <2>1, <2>2 DEF QueueInv
<1>3. ASSUME NEW p \in Hooks, Q!TakeLock(p)
      PROVE  QueueInv'
  <2>1. Q!TypeOK' /\ StepInv'
    BY <1>0, <1>t, <1>3 DEF Q!TakeLock, Q!Goto, Q!TypeOK, StepInv, Q!Procs
  <2>2. Calm' => LockInv' /\ LoadedInv'
    BY <1>0, <1>t, <1>3 DEF Q!TakeLock, Q!Goto, Calm, LockInv, LoadedInv, Q!Kept
  <2> QED
    BY <2>1, <2>2 DEF QueueInv
<1>4. ASSUME NEW p \in Hooks, Q!SeeStale(p) \/ Q!BreakLock(p)
      PROVE  QueueInv'
  <2>1. /\ lock' \in [exists : BOOLEAN, old : BOOLEAN] /\ holder' \in Hooks \cup Writers \cup {"none"}
        /\ pc[p] # "rest"
        /\ pc' = [pc EXCEPT ![p] = "break"] \/ pc' = [pc EXCEPT ![p] = "lock"]
        /\ UNCHANGED <<queue, key, loaded, owed, clobbered, calls, kills, slow>>
    <3>1. CASE Q!SeeStale(p)
      BY <1>t, <3>1 DEF Q!SeeStale, Q!Goto
    <3>2. CASE Q!BreakLock(p)
      BY <1>t, <3>2 DEF Q!BreakLock, Q!Unlocked, Q!None, Q!Goto
    <3> QED
      BY <1>4, <3>1, <3>2
  <2>2. Q!TypeOK' /\ StepInv'
    BY <1>0, <1>t, <2>1, QueueConstants DEF Q!TypeOK, StepInv, Q!Procs, Q!None, File
  <2>3. ~ Calm'
    BY <1>0, <1>4 DEF Q!SeeStale, Q!BreakLock, Calm, LockInv
  <2> QED
    BY <2>2, <2>3 DEF QueueInv
<1>5. ASSUME NEW p \in Hooks, Q!GiveUp(p)
      PROVE  QueueInv'
  <2>1. Q!TypeOK' /\ StepInv'
    BY <1>0, <1>t, <1>5, QueueConstants DEF Q!GiveUp, Q!Goto, Q!TypeOK, StepInv, Q!Procs
  <2>2. ~ Calm'
    BY <1>t, <1>5 DEF Q!GiveUp, Calm
  <2> QED
    BY <2>1, <2>2 DEF QueueInv
<1>6. ASSUME NEW p \in Hooks, Q!Load(p)
      PROVE  QueueInv'
  <2>1. Q!TypeOK' /\ StepInv'
    BY <1>0, <1>t, <1>6 DEF Q!Load, Q!Goto, Q!TypeOK, StepInv, Q!Procs, File
  <2>2. Calm' => LockInv' /\ LoadedInv'
    BY <1>0, <1>t, <1>6 DEF Q!Load, Q!Goto, Calm, LockInv, LoadedInv, Q!Kept
  <2> QED
    BY <2>1, <2>2 DEF QueueInv
<1>7. ASSUME NEW p \in Hooks, Q!Write(p)
      PROVE  QueueInv'
  <2>1. key[p] \in Keys /\ loaded[p] \in File
    BY <1>0, <1>t, <1>7 DEF Q!Write, StepInv
  <2>2. /\ queue' \in File /\ Q!Contains(queue', key[p])
        /\ \A x : Q!Contains(loaded[p], x) /\ x \notin Q!Dropped(loaded[p]) => Q!Contains(queue', x)
    BY <1>7, <2>1, AddedKeeps DEF Q!Write
  <2>3. /\ owed' = (owed \cup {key[p]}) \ Q!Dropped(loaded[p])
        /\ pc[p] = "write" /\ pc' = [pc EXCEPT ![p] = "unlock"]
        /\ UNCHANGED <<lock, holder, key, loaded, clobbered, calls, kills, slow>>
    BY <1>7 DEF Q!Write, Q!Goto
  <2>4. Q!TypeOK' /\ StepInv'
    BY <1>0, <1>t, <2>1, <2>2, <2>3 DEF Q!TypeOK, StepInv, Q!Procs, File
  <2>5. ASSUME Calm
        PROVE  LockInv' /\ LoadedInv'
    <3>1. LockInv /\ LoadedInv
      BY <1>0, <2>5
    <3>2. LockInv'
      BY <1>t, <2>3, <3>1 DEF LockInv
    <3>3. \A q \in Hooks : pc'[q] # "write"
      BY <1>t, <2>3, <3>1 DEF LockInv
    <3>4. \A x \in owed' : Q!Contains(queue', x)
      BY <2>2, <2>3, <3>1 DEF LoadedInv
    <3> QED
      BY <3>2, <3>3, <3>4 DEF LoadedInv, Q!Kept, Q!Contains
  <2> QED
    BY <2>3, <2>4, <2>5 DEF QueueInv, Calm
<1>8. ASSUME NEW p \in Hooks, Q!Unlock(p)
      PROVE  QueueInv'
  <2>1. Q!TypeOK' /\ StepInv'
    BY <1>0, <1>t, <1>e, <1>8
       DEF Q!Unlock, Q!Unlocked, Q!End, Q!Goto, Q!None, Q!TypeOK, StepInv, Q!Procs, File
  <2>2. Calm' => LockInv' /\ LoadedInv'
    BY <1>0, <1>t, <1>8 DEF Q!Unlock, Q!Unlocked, Q!End, Q!Goto, Calm, LockInv, LoadedInv, Q!Kept
  <2> QED
    BY <2>1, <2>2 DEF QueueInv
<1>9. ASSUME NEW p \in Hooks, Q!Kill(p)
      PROVE  QueueInv'
  <2>1. Q!TypeOK' /\ StepInv'
    BY <1>0, <1>t, <1>e, <1>9, SnapshotConstants
       DEF Q!Kill, Q!End, Q!Goto, Q!None, Q!TypeOK, StepInv, Q!Procs, File
  <2>2. ~ Calm'
    BY <1>t, <1>9 DEF Q!Kill, Calm
  <2> QED
    BY <2>1, <2>2 DEF QueueInv
<1>10. ASSUME NEW w \in Writers, NEW k \in Keys, Q!LoadUnlocked(w, k)
       PROVE  QueueInv'
  <2>1. Q!TypeOK' /\ StepInv'
    BY <1>0, <1>t, <1>10, QueueConstants
       DEF Q!LoadUnlocked, Q!Goto, Q!TypeOK, StepInv, Q!Procs, File
  <2>2. Calm' => LockInv' /\ LoadedInv'
    BY <1>0, <1>t, <1>10, QueueConstants
       DEF Q!LoadUnlocked, Q!Goto, Calm, LockInv, LoadedInv, Q!Kept
  <2> QED
    BY <2>1, <2>2 DEF QueueInv
<1>11. ASSUME NEW w \in Writers, Q!AddUnlocked(w) \/ Q!ClearUnlocked(w)
       PROVE  QueueInv'
  <2>1. key[w] \in Keys /\ loaded[w] \in File /\ w \notin Hooks
    BY <1>0, <1>t, <1>11, QueueConstants DEF Q!AddUnlocked, Q!ClearUnlocked, StepInv
  <2>2. PICK gone :
          /\ owed' = owed \ gone /\ queue' \in File
          /\ \A x : Q!Contains(loaded[w], x) /\ x \notin gone => Q!Contains(queue', x)
    <3>1. CASE Q!AddUnlocked(w)
      <4>1. queue' = Q!Added(loaded[w], key[w]) /\ owed' = owed \ Q!Dropped(loaded[w])
        BY <3>1 DEF Q!AddUnlocked, Q!Replace
      <4> QED
        BY <2>1, <4>1, AddedKeeps
    <3>2. CASE Q!ClearUnlocked(w)
      <4>1. queue' = Q!Without(loaded[w], key[w]) /\ owed' = owed \ {key[w]}
        BY <3>2 DEF Q!ClearUnlocked, Q!Replace
      <4> QED
        BY <2>1, <4>1, WithoutKeeps
    <3> QED
      BY <1>11, <3>1, <3>2
  <2>3. /\ clobbered' = (clobbered \/ queue # loaded[w])
        /\ pc' = [pc EXCEPT ![w] = "rest"] /\ key' = [key EXCEPT ![w] = "none"]
        /\ loaded' = [loaded EXCEPT ![w] = <<>>]
        /\ UNCHANGED <<lock, holder, calls, kills, slow>>
    BY <1>11 DEF Q!AddUnlocked, Q!ClearUnlocked, Q!Replace, Q!End, Q!Goto, Q!None
  <2>4. Q!TypeOK' /\ StepInv'
    BY <1>0, <1>t, <1>e, <2>1, <2>2, <2>3, QueueConstants
       DEF Q!TypeOK, StepInv, Q!Procs, Q!None, File
  <2>5. ASSUME Calm'
        PROVE  LockInv' /\ LoadedInv'
    <3>1. Calm /\ queue = loaded[w]
      BY <1>t, <2>3, <2>5 DEF Calm
    <3>2. LockInv /\ LoadedInv
      BY <1>0, <3>1
    <3>3. LockInv'
      BY <1>t, <2>1, <2>3, <3>2 DEF LockInv
    <3>4. \A x \in owed' : Q!Contains(queue', x)
      BY <2>2, <3>1, <3>2 DEF LoadedInv, Q!Kept
    <3>5. \A p \in Hooks : pc'[p] = pc[p] /\ loaded'[p] = loaded[p]
      BY <1>t, <2>1, <2>3
    <3>6. \A p \in Hooks : pc'[p] = "write" => \A k \in owed' : Q!Contains(loaded'[p], k)
      BY <2>2, <3>2, <3>5 DEF LoadedInv
    <3> QED
      BY <3>3, <3>4, <3>6 DEF LoadedInv, Q!Kept, Q!Contains
  <2> QED
    BY <2>4, <2>5 DEF QueueInv
<1> QED
  BY <1>1, <1>2, <1>3, <1>4, <1>5, <1>6, <1>7, <1>8, <1>9, <1>10, <1>11
     DEF Q!Next, Q!HookStep, Q!WriterStep

--------------------------------------------------------------------------------
(* The offline snapshot.                                                   *)

Steps    == {"rest", "label", "serve", "fetch", "scratch", "insert", "copy", "keep", "install",
             "meta", "restore", "unlink", "clear", "unmark"}
Resting  == {"rest", "label", "serve"}
Fetched  == {"scratch", "insert", "copy", "keep", "install", "meta"}
Swapping == {"install", "meta", "restore"}

\* Rows of revision b are as new as the label says, and as any label that was read.
NewEnough(b) == b \in S!Whole /\ meta.rev <= b /\ \A p \in Brokers : label[p] <= b

RoleInv == \A p \in Brokers : pc[p] \notin Resting => p \in Refreshers

\* One refresh at a time is at work on the pair.
AloneInv == \A p, q \in Brokers : pc[p] \in S!Building /\ pc[q] \in S!Building => p = q

\* What a refresh has fetched, and where it has brought it.
BuildInv ==
  /\ NewEnough(hub.rev)
  /\ \A p \in Brokers :
       /\ pc[p] \in Fetched => NewEnough(payload[p]) /\ payload[p] <= hub.rev
       /\ pc[p] = "insert" => scratch.by = p
       /\ pc[p] = "copy" => scratch.body = payload[p]
       /\ pc[p] \in {"keep", "install"} => tmp = payload[p]
       /\ pc[p] = "meta" => snap = payload[p]
       /\ pc[p] \in {"install", "restore"} => snap = S!Absent
       /\ pc[p] = "restore" => fails > 0

\* The database that is served, and the one that may be put back in its place.
PairInv ==
  /\ snap # S!Absent => NewEnough(snap)
  /\ prev # S!Absent /\ (snap = S!Absent \/ \E p \in Brokers : pc[p] \in Swapping) => NewEnough(prev)

\* One of the two is there: the first, unless a refresh is between its renames or was
\* stopped there.
KeptInv ==
  meta # S!NoMeta =>
    IF \E p \in Brokers : pc[p] \in Swapping THEN prev # S!Absent
    ELSE snap # S!Absent \/ (prev # S!Absent /\ (kills > 0 \/ fails > 1))

Sound   == AloneInv /\ BuildInv /\ PairInv /\ KeptInv
SnapInv == S!TypeOK /\ RoleInv /\ (~crossed => Sound)

LEMMA SnapInit == S!Init => SnapInv
<1> SUFFICES ASSUME S!Init
             PROVE  SnapInv
  OBVIOUS
<1>1. S!TypeOK
  <2>1. /\ hub \in [rev : S!Whole, up : BOOLEAN, outages : 0 .. MaxOutages]
        /\ fails \in 0 .. MaxFails /\ kills \in 0 .. MaxKills
    BY SnapshotConstants DEF S!Init, S!Whole
  <2>2. /\ snap \in S!Bodies /\ prev \in S!Bodies /\ tmp \in S!Bodies
        /\ scratch \in [body : S!Bodies, by : Refreshers]
    BY DEF S!Init, S!Bodies
  <2>3. meta \in S!Metas /\ stamp \in BOOLEAN /\ marker \in S!Markers
    BY DEF S!Init, S!Metas, S!Markers
  <2>4. payload \in [Brokers -> S!Whole] /\ label \in [Brokers -> S!Whole]
    BY SnapshotConstants DEF S!Init, S!Whole
  <2> QED
    BY <2>1, <2>2, <2>3, <2>4 DEF S!Init, S!TypeOK
<1>2. RoleInv /\ Sound
  BY SnapshotConstants
     DEF S!Init, RoleInv, Sound, AloneInv, BuildInv, PairInv, KeptInv, NewEnough, Resting, Fetched,
         Swapping, S!Building, S!Whole, S!Absent, S!NoMeta
<1> QED
  BY <1>1, <1>2 DEF SnapInv

LEMMA SnapStutter ==
  ASSUME SnapInv, UNCHANGED S!vars
  PROVE  SnapInv'
BY DEF S!vars, S!files, SnapInv, S!TypeOK, RoleInv, Sound, AloneInv, BuildInv, PairInv, KeptInv,
       NewEnough

\* What the type invariant says of the values the steps move around.
LEMMA SnapFields ==
  ASSUME S!TypeOK
  PROVE  /\ pc \in [Brokers -> Steps]
         /\ payload \in [Brokers -> S!Whole] /\ label \in [Brokers -> S!Whole]
         /\ scratch \in [body : S!Bodies, by : Refreshers] /\ marker \in S!Markers /\ stamp \in BOOLEAN
         /\ snap \in S!Bodies /\ prev \in S!Bodies /\ tmp \in S!Bodies /\ meta \in S!Metas
         /\ fails \in 0 .. MaxFails /\ kills \in 0 .. MaxKills /\ fails \in Nat /\ kills \in Nat
         /\ hub \in [rev : S!Whole, up : BOOLEAN, outages : 0 .. MaxOutages]
         /\ hub.rev \in S!Whole /\ 0 \in S!Whole /\ S!Whole \subseteq S!Bodies /\ S!Whole \subseteq Nat
         /\ S!Empty \in S!Bodies /\ S!Absent \in S!Bodies /\ S!Bare \in S!Bodies
         /\ S!Absent \notin S!Whole /\ crossed \in BOOLEAN
         /\ (meta # S!NoMeta => meta.rev \in S!Whole) /\ meta.rev \in Int /\ meta.rev < hub.rev + MaxRev + 1
         /\ S!NoMarker \in S!Markers
         /\ \A k \in {"transport", "refused"} : [kind |-> k, recent |-> TRUE] \in S!Markers
         /\ S!Fail => fails' \in 0 .. MaxFails /\ fails' = fails + 1
<1>1. /\ 0 \in S!Whole /\ S!Whole \subseteq S!Bodies /\ S!Whole \subseteq Nat
      /\ S!Empty \in S!Bodies /\ S!Absent \in S!Bodies /\ S!Bare \in S!Bodies /\ S!Absent \notin S!Whole
  BY SnapshotConstants DEF S!Whole, S!Bodies, S!Absent
<1>2. /\ S!NoMarker \in S!Markers
      /\ \A k \in {"transport", "refused"} : [kind |-> k, recent |-> TRUE] \in S!Markers
  BY DEF S!Markers
<1>3. /\ meta # S!NoMeta => meta.rev \in S!Whole
      /\ meta.rev \in Int /\ meta.rev < hub.rev + MaxRev + 1
  BY SnapshotConstants DEF S!TypeOK, S!Metas, S!NoMeta, S!Whole
<1>4. fails \in Nat /\ kills \in Nat /\ (S!Fail => fails' \in 0 .. MaxFails /\ fails' = fails + 1)
  BY SnapshotConstants DEF S!TypeOK, S!Fail
<1> QED BY <1>1, <1>2, <1>3, <1>4 DEF S!TypeOK, Steps

\* A step of p keeps the types, and the pair to the processes that may refresh it.
LEMMA SnapTyped ==
  ASSUME S!TypeOK, RoleInv, NEW p \in Brokers, NEW s \in Steps, pc' = [pc EXCEPT ![p] = s],
         s \notin Resting => p \in Refreshers,
         hub' = hub, snap' \in S!Bodies, prev' \in S!Bodies, tmp' \in S!Bodies,
         scratch' \in [body : S!Bodies, by : Refreshers], meta' \in S!Metas, stamp' \in BOOLEAN,
         marker' \in S!Markers, payload' \in [Brokers -> S!Whole], label' \in [Brokers -> S!Whole],
         fails' \in 0 .. MaxFails, kills' \in 0 .. MaxKills, crossed' \in BOOLEAN
  PROVE  S!TypeOK' /\ RoleInv'
BY DEF S!TypeOK, RoleInv, Steps

\* A step of the hub or of time: the pair is the same, and so is every moment.
LEMMA SnapOutside ==
  ASSUME SnapInv, S!HubWrite \/ S!Outage \/ S!HubBack \/ S!Age \/ S!AgeMarker
  PROVE  SnapInv'
<1>0. S!TypeOK /\ RoleInv /\ (~crossed => Sound)
  BY DEF SnapInv
<1>1. CASE S!HubWrite \/ S!Outage \/ S!HubBack
  <2>0. /\ hub \in [rev : S!Whole, up : BOOLEAN, outages : 0 .. MaxOutages]
        /\ UNCHANGED <<snap, prev, tmp, scratch, meta, stamp, marker, pc, payload, label, fails, kills, crossed>>
    BY <1>0, <1>1 DEF S!HubWrite, S!Outage, S!HubBack, S!files, S!TypeOK
  <2>1. /\ hub' \in [rev : S!Whole, up : BOOLEAN, outages : 0 .. MaxOutages]
        /\ hub.rev <= hub'.rev
    <3>1. CASE S!HubWrite
      BY <2>0, <3>1, SnapshotConstants DEF S!HubWrite, S!Whole
    <3>2. CASE S!Outage
      <4>1. hub.outages + 1 \in 0 .. MaxOutages
        BY <2>0, <3>2, SnapshotConstants DEF S!Outage
      <4>2. hub' = [rev |-> hub.rev, up |-> FALSE, outages |-> hub.outages + 1]
        BY <2>0, <3>2 DEF S!Outage
      <4> QED
        BY <2>0, <4>1, <4>2 DEF S!Whole
    <3>3. CASE S!HubBack
      <4>1. hub' = [rev |-> hub.rev, up |-> TRUE, outages |-> hub.outages]
        BY <2>0, <3>3 DEF S!HubBack
      <4> QED
        BY <2>0, <4>1 DEF S!Whole
    <3> QED
      BY <1>1, <3>1, <3>2, <3>3
  <2>2. S!TypeOK' /\ RoleInv'
    BY <1>0, <2>0, <2>1 DEF S!TypeOK, RoleInv
  <2>3. ASSUME ~crossed, Sound
        PROVE  Sound'
    <3>t. /\ label \in [Brokers -> S!Whole] /\ payload \in [Brokers -> S!Whole]
          /\ meta.rev \in Int /\ hub.rev \in Nat /\ hub'.rev \in S!Whole /\ S!Whole \subseteq Nat
          /\ hub'.rev \in Nat
      BY <1>0, <2>0, <2>1, SnapFields
    <3>n. \A p \in Brokers : label[p] \in Nat /\ payload[p] \in Nat
      BY <3>t
    <3>1. NewEnough(hub.rev)'
      <4>1. meta.rev <= hub.rev /\ \A p \in Brokers : label[p] <= hub.rev
        BY <2>3 DEF Sound, BuildInv, NewEnough
      <4>2. meta.rev <= hub'.rev /\ \A p \in Brokers : label[p] <= hub'.rev
        BY <2>1, <3>t, <3>n, <4>1
      <4> QED BY <2>0, <3>t, <4>2 DEF NewEnough, S!Whole
    <3>2. \A p \in Brokers : payload[p] <= hub.rev => payload[p] <= hub'.rev
      BY <2>1, <3>t, <3>n
    <3> QED
      BY <2>0, <2>3, <3>1, <3>2 DEF Sound, AloneInv, BuildInv, PairInv, KeptInv, NewEnough
  <2> QED
    BY <1>0, <2>0, <2>2, <2>3 DEF SnapInv
<1>2. CASE S!Age \/ S!AgeMarker
  <2>1. UNCHANGED <<hub, snap, prev, tmp, scratch, stamp, pc, payload, label, fails, kills, crossed>>
    BY <1>2 DEF S!Age, S!AgeMarker
  <2>2. meta' \in S!Metas /\ meta'.rev = meta.rev /\ (meta = S!NoMeta => meta' = S!NoMeta)
    BY <1>0, <1>2 DEF S!Age, S!AgeMarker, S!Older, S!TypeOK, S!Metas, S!NoMeta, S!Ages
  <2>3. marker' \in S!Markers
    <3>1. CASE S!Age
      BY <1>0, <3>1 DEF S!Age, S!TypeOK
    <3>2. CASE S!AgeMarker
      <4>1. marker # S!NoMarker /\ marker \in S!Markers /\ marker' = [marker EXCEPT !.recent = FALSE]
        BY <1>0, <3>2 DEF S!AgeMarker, S!NoMarker, S!TypeOK
      <4> QED
        BY <4>1 DEF S!Markers
    <3> QED
      BY <1>2, <3>1, <3>2
  <2>4. S!TypeOK' /\ RoleInv' /\ (Sound => Sound')
    BY <1>0, <2>1, <2>2, <2>3
       DEF S!TypeOK, RoleInv, Sound, AloneInv, BuildInv, PairInv, KeptInv, NewEnough
  <2> QED
    BY <1>0, <2>1, <2>4 DEF SnapInv
<1> QED
  BY <1>1, <1>2

\* A step of p that leaves the pair and its copy alone.  A refresh it starts or
\* advances has fetched the hub's revision, and has put what it fetched in a scratch
\* store of its own when it comes to copy it.
LEMMA SnapQuiet ==
  ASSUME S!TypeOK, S!TypeOK', Sound, NEW p \in Brokers,
         UNCHANGED <<hub, snap, prev, tmp, meta>>,
         \A q \in Brokers : label'[q] \in {label[q], meta.rev, 0},
         \A q \in Brokers \ {p} : pc'[q] = pc[q] /\ payload'[q] = payload[q],
         scratch' = scratch \/ pc[p] \in S!Building,
         pc'[p] \in S!Building => pc[p] \in S!Building \/ \A q \in Brokers \ {p} : pc[q] \notin S!Building,
         pc'[p] \in Fetched =>
           payload'[p] = hub.rev \/ (pc[p] \in Fetched /\ payload'[p] = payload[p]),
         pc'[p] = "insert" => scratch'.by = p,
         pc'[p] = "copy" => scratch'.body = payload'[p],
         pc'[p] \notin {"keep"} \cup Swapping,
         fails <= fails', kills <= kills', pc[p] \in Swapping => kills' > 0
  PROVE  Sound'
<1>0. AloneInv /\ BuildInv /\ PairInv /\ KeptInv
  BY DEF Sound
<1>t. /\ \A q \in Brokers : label[q] \in Nat
      /\ meta.rev \in Int /\ S!Whole \subseteq Nat /\ fails \in Nat /\ kills \in Nat
      /\ fails' \in Nat /\ kills' \in Nat /\ hub.rev \in Nat
  <2>1. \A q \in Brokers : label[q] \in Nat
    BY SnapFields
  <2>2. fails' \in Nat /\ kills' \in Nat
    BY SnapshotConstants DEF S!TypeOK
  <2> QED BY <2>1, <2>2, SnapFields
<1>1. ASSUME NEW b, NewEnough(b)
      PROVE  NewEnough(b)'
  <2>1. b \in Nat
    BY <1>1, <1>t DEF NewEnough
  <2>2. \A q \in Brokers : label'[q] <= b
    BY <1>1, <1>t, <2>1 DEF NewEnough
  <2> QED
    BY <1>1, <2>2 DEF NewEnough, S!Whole
<1>2. AloneInv'
  BY <1>0 DEF AloneInv
<1>3. \A q \in Brokers \ {p} : pc[q] \in {"insert", "copy"} => scratch' = scratch
  BY <1>0 DEF AloneInv, S!Building
<1>4. BuildInv'
  <2>1. NewEnough(hub.rev)'
    BY <1>0, <1>1 DEF BuildInv
  <2>2. ASSUME NEW q \in Brokers \ {p}
        PROVE  /\ pc'[q] \in Fetched => NewEnough(payload[q])' /\ payload'[q] <= hub'.rev
               /\ pc'[q] = "insert" => scratch'.by = q
               /\ pc'[q] = "copy" => scratch'.body = payload'[q]
               /\ pc'[q] \in {"keep", "install"} => tmp' = payload'[q]
               /\ pc'[q] = "meta" => snap' = payload'[q]
               /\ pc'[q] \in {"install", "restore"} => snap' = S!Absent
               /\ pc'[q] = "restore" => fails' > 0
    <3>1. pc'[q] \in Fetched => NewEnough(payload[q])'
      BY <1>0, <1>1 DEF BuildInv, NewEnough
    <3>2. pc'[q] = "restore" => fails' > 0
      BY <1>0, <1>t DEF BuildInv
    <3> QED BY <1>0, <1>3, <3>1, <3>2 DEF BuildInv
  <2>3. pc'[p] \in Fetched => NewEnough(payload[p])' /\ payload'[p] <= hub'.rev
    <3>1. CASE payload'[p] = hub.rev
      BY <1>t, <2>1, <3>1 DEF NewEnough
    <3>2. CASE pc[p] \in Fetched /\ payload'[p] = payload[p]
      <4>1. NewEnough(payload[p]) /\ payload[p] <= hub.rev
        BY <1>0, <3>2 DEF BuildInv
      <4> QED
        BY <1>1, <3>2, <4>1 DEF NewEnough
    <3> QED BY <3>1, <3>2
  <2> QED BY <2>1, <2>2, <2>3 DEF BuildInv, Swapping
<1>5. (\E q \in Brokers : pc'[q] \in Swapping) => \E q \in Brokers : pc[q] \in Swapping
  OBVIOUS
<1>6. PairInv'
  BY <1>0, <1>1, <1>5 DEF PairInv, S!Absent
<1>7. KeptInv'
  <2> SUFFICES ASSUME meta # S!NoMeta
               PROVE  IF \E q \in Brokers : pc'[q] \in Swapping THEN prev # S!Absent
                      ELSE snap # S!Absent \/ (prev # S!Absent /\ (kills' > 0 \/ fails' > 1))
    BY DEF KeptInv, S!Absent, S!NoMeta
  <2>1. CASE \E q \in Brokers : pc'[q] \in Swapping
    BY <1>0, <1>5, <2>1 DEF KeptInv
  <2>2. CASE ~ \E q \in Brokers : pc'[q] \in Swapping
    <3>1. CASE pc[p] \in Swapping
      BY <1>0, <2>2, <3>1 DEF KeptInv
    <3>2. CASE pc[p] \notin Swapping
      <4>1. ~ \E q \in Brokers : pc[q] \in Swapping
        BY <2>2, <3>2
      <4> QED
        BY <1>0, <1>t, <2>2, <4>1 DEF KeptInv
    <3> QED BY <3>1, <3>2
  <2> QED BY <2>1, <2>2
<1> QED
  BY <1>2, <1>4, <1>6, <1>7 DEF Sound

\* The steps of a moment that do not touch the pair.
LEMMA SnapQuietSteps ==
  ASSUME SnapInv, NEW p \in Brokers,
         \/ S!MomentDown(p) \/ S!MomentUp(p) \/ S!ReadLabel(p) \/ S!Serve(p)
         \/ S!Fetch(p) \/ S!FetchUnreachable(p) \/ S!FetchRefused(p)
         \/ S!Scratch(p) \/ S!Insert(p) \/ S!UnlinkScratch(p) \/ S!ClearStamp(p)
         \/ S!UnlinkMarker(p) \/ S!PrepareFails(p) \/ S!Kill(p)
  PROVE  SnapInv'
<1>0. S!TypeOK /\ RoleInv /\ (~crossed => Sound)
  BY DEF SnapInv
<1> DEFINE Same(q) == pc'[q] = pc[q] /\ payload'[q] = payload[q]
<1>1. ASSUME S!MomentDown(p) \/ S!MomentUp(p) \/ S!ReadLabel(p) \/ S!Serve(p)
      PROVE  SnapInv'
  <2>1. /\ UNCHANGED <<hub, snap, prev, tmp, scratch, meta, marker, payload, fails, kills, crossed>>
        /\ pc[p] \in Resting /\ stamp' \in BOOLEAN
        /\ label' = label \/ label' = [label EXCEPT ![p] = 0]
             \/ (meta.rev \in S!Whole /\ label' = [label EXCEPT ![p] = meta.rev])
        /\ \E s \in Resting \cup {"fetch"} : /\ pc' = [pc EXCEPT ![p] = s]
                                             /\ s = "fetch" => p \in Refreshers
    BY <1>0, <1>1, SnapFields
       DEF S!MomentDown, S!MomentUp, S!ReadLabel, S!Serve, S!Goto, S!files, Resting
  <2>2. label' \in [Brokers -> S!Whole] /\ \A q \in Brokers : label'[q] \in {label[q], meta.rev, 0}
    BY <1>0, <2>1, SnapFields
  <2>3. S!TypeOK' /\ RoleInv'
    BY <1>0, <2>1, <2>2, SnapFields, SnapTyped DEF Resting, Steps
  <2>4. pc'[p] \in Resting \cup {"fetch"} /\ \A q \in Brokers \ {p} : Same(q)
    BY <1>0, <2>1, SnapFields
  <2>5. fails <= fails' /\ kills <= kills'
    BY <1>0, <2>1, SnapFields
  <2>6. ~crossed => Sound'
    BY <1>0, <2>1, <2>2, <2>3, <2>4, <2>5, SnapQuiet DEF Resting, Fetched, Swapping, S!Building
  <2> QED
    BY <2>1, <2>3, <2>6 DEF SnapInv
<1>2. ASSUME S!FetchUnreachable(p) \/ S!FetchRefused(p) \/ S!UnlinkMarker(p) \/ S!PrepareFails(p)
      PROVE  SnapInv'
  <2>1. /\ UNCHANGED <<hub, snap, prev, tmp, scratch, meta, stamp, label, kills, crossed>>
        /\ pc[p] \in {"fetch", "unmark", "scratch", "insert"} /\ marker' \in S!Markers
        /\ fails' \in 0 .. MaxFails /\ fails <= fails'
        /\ pc' = [pc EXCEPT ![p] = "rest"] /\ payload' = [payload EXCEPT ![p] = 0]
    <3>1. CASE S!FetchUnreachable(p)
      BY <1>0, <3>1, SnapFields DEF S!FetchUnreachable, S!GiveUp, S!End, S!Goto
    <3>2. CASE S!FetchRefused(p)
      BY <1>0, <3>2, SnapFields DEF S!FetchRefused, S!GiveUp, S!End, S!Goto
    <3>3. CASE S!UnlinkMarker(p)
      BY <1>0, <3>3, SnapFields DEF S!UnlinkMarker, S!End, S!Goto
    <3>4. CASE S!PrepareFails(p)
      BY <1>0, <3>4, SnapFields DEF S!PrepareFails, S!GiveUp, S!End, S!Goto
    <3> QED
      BY <1>2, <3>1, <3>2, <3>3, <3>4
  <2>2. payload' \in [Brokers -> S!Whole] /\ "rest" \in Steps /\ "rest" \in Resting
    BY <1>0, <2>1, SnapFields DEF Steps, Resting
  <2>3. S!TypeOK' /\ RoleInv'
    BY <1>0, <2>1, <2>2, SnapFields, SnapTyped
  <2>4. pc'[p] = "rest" /\ (\A q \in Brokers \ {p} : Same(q)) /\ kills <= kills'
    BY <1>0, <2>1, SnapFields
  <2>5. ~crossed => Sound'
    BY <1>0, <2>1, <2>3, <2>4, SnapQuiet DEF Fetched, Swapping, S!Building
  <2> QED
    BY <2>1, <2>3, <2>5 DEF SnapInv
<1>3. ASSUME S!Fetch(p)
      PROVE  SnapInv'
  <2>1. /\ UNCHANGED <<hub, snap, prev, tmp, scratch, meta, stamp, marker, label, fails, kills>>
        /\ pc[p] = "fetch" /\ pc' = [pc EXCEPT ![p] = "scratch"]
        /\ payload' = [payload EXCEPT ![p] = hub.rev]
        /\ crossed' = (crossed \/ \E q \in Brokers \ {p} : pc[q] \in S!Building)
    BY <1>3 DEF S!Fetch, S!Goto, S!files
  <2>2. payload' \in [Brokers -> S!Whole] /\ "scratch" \in Steps /\ p \in Refreshers /\ crossed' \in BOOLEAN
    BY <1>0, <2>1, SnapFields DEF Steps, RoleInv, Resting
  <2>3. S!TypeOK' /\ RoleInv'
    BY <1>0, <2>1, <2>2, SnapFields, SnapTyped
  <2>4. /\ pc'[p] = "scratch" /\ payload'[p] = hub.rev /\ \A q \in Brokers \ {p} : Same(q)
        /\ fails <= fails' /\ kills <= kills'
    BY <1>0, <2>1, SnapFields
  <2>5. ~crossed' => Sound'
    BY <1>0, <2>1, <2>3, <2>4, SnapQuiet DEF Fetched, Swapping, S!Building
  <2> QED
    BY <2>3, <2>5 DEF SnapInv
<1>4. ASSUME S!Scratch(p) \/ S!Insert(p) \/ S!UnlinkScratch(p) \/ S!ClearStamp(p)
      PROVE  SnapInv'
  <2>1. /\ UNCHANGED <<hub, snap, prev, tmp, meta, marker, payload, label, fails, kills, crossed>>
        /\ stamp' \in BOOLEAN
        /\ \/ /\ pc[p] = "scratch" /\ pc' = [pc EXCEPT ![p] = "insert"]
              /\ scratch' = [body |-> S!Empty, by |-> p]
           \/ /\ pc[p] = "insert" /\ pc' = [pc EXCEPT ![p] = "copy"]
              /\ scratch' = IF scratch.by = p THEN [scratch EXCEPT !.body = payload[p]] ELSE scratch
           \/ /\ pc[p] = "unlink" /\ pc' = [pc EXCEPT ![p] = "clear"]
              /\ scratch' = [scratch EXCEPT !.body = S!Absent]
           \/ pc[p] = "clear" /\ pc' = [pc EXCEPT ![p] = "unmark"] /\ scratch' = scratch
    <3>1. CASE S!Scratch(p)
      BY <1>0, <3>1, SnapFields DEF S!Scratch, S!Goto
    <3>2. CASE S!Insert(p)
      BY <1>0, <3>2, SnapFields DEF S!Insert, S!Goto
    <3>3. CASE S!UnlinkScratch(p)
      BY <1>0, <3>3, SnapFields DEF S!UnlinkScratch, S!Goto
    <3>4. CASE S!ClearStamp(p)
      BY <1>0, <3>4 DEF S!ClearStamp, S!Goto
    <3> QED
      BY <1>4, <3>1, <3>2, <3>3, <3>4
  <2>2. p \in Refreshers
    BY <1>0, <2>1 DEF RoleInv, Resting
  <2>3. scratch' \in [body : S!Bodies, by : Refreshers]
    <3>1. scratch \in [body : S!Bodies, by : Refreshers] /\ payload[p] \in S!Bodies
      BY <1>0, SnapFields
    <3> QED BY <1>0, <2>1, <2>2, <3>1, SnapFields
  <2>4. \E s \in {"insert", "copy", "clear", "unmark"} : pc' = [pc EXCEPT ![p] = s]
    BY <2>1
  <2>5. S!TypeOK' /\ RoleInv'
    BY <1>0, <2>1, <2>2, <2>3, <2>4, SnapFields, SnapTyped DEF Steps
  <2>6. /\ \A q \in Brokers \ {p} : Same(q)
        /\ fails <= fails' /\ kills <= kills' /\ pc'[p] \in {"insert", "copy", "clear", "unmark"}
        /\ pc'[p] = "insert" => pc[p] = "scratch" /\ scratch'.by = p
        /\ pc'[p] = "copy" => pc[p] = "insert"
    BY <1>0, <2>1, SnapFields
  <2>7. ~crossed => Sound'
    <3> SUFFICES ASSUME ~crossed PROVE Sound'
      OBVIOUS
    <3>1. pc'[p] = "copy" => scratch'.body = payload'[p]
      <4>1. pc[p] = "insert" => scratch.by = p
        BY <1>0 DEF Sound, BuildInv
      <4> QED BY <1>0, <2>1, <2>6, <4>1, SnapFields
    <3>2. scratch' = scratch \/ pc[p] \in S!Building
      BY <2>1 DEF S!Building
    <3> QED
      BY <1>0, <2>1, <2>5, <2>6, <3>1, <3>2, SnapQuiet DEF Fetched, Swapping, S!Building
  <2> QED
    BY <2>1, <2>5, <2>7 DEF SnapInv
<1>5. ASSUME S!Kill(p)
      PROVE  SnapInv'
  <2>1. /\ UNCHANGED <<hub, snap, prev, tmp, scratch, meta, stamp, marker, fails, crossed>>
        /\ kills' = kills + 1 /\ kills' \in 0 .. MaxKills
        /\ pc' = [pc EXCEPT ![p] = "rest"] /\ payload' = [payload EXCEPT ![p] = 0]
        /\ label' = [label EXCEPT ![p] = 0]
    <3>1. kills' = kills + 1 /\ kills' \in 0 .. MaxKills
      BY <1>0, <1>5, SnapFields, SnapshotConstants DEF S!Kill
    <3> QED BY <1>5, <3>1 DEF S!Kill, S!End, S!Goto, S!files
  <2>2. /\ payload' \in [Brokers -> S!Whole] /\ label' \in [Brokers -> S!Whole]
        /\ "rest" \in Steps /\ "rest" \in Resting
    BY <1>0, <2>1, SnapFields DEF Steps, Resting
  <2>3. S!TypeOK' /\ RoleInv'
    BY <1>0, <2>1, <2>2, SnapFields, SnapTyped
  <2>4. /\ pc'[p] = "rest" /\ \A q \in Brokers \ {p} : Same(q)
        /\ kills <= kills' /\ kills' > 0 /\ fails <= fails'
        /\ \A q \in Brokers : label'[q] \in {label[q], meta.rev, 0}
    BY <1>0, <2>1, SnapFields
  <2>5. ~crossed => Sound'
    BY <1>0, <2>1, <2>3, <2>4, SnapQuiet DEF Fetched, Swapping, S!Building
  <2> QED
    BY <2>1, <2>3, <2>5 DEF SnapInv
<1> QED
  BY <1>1, <1>2, <1>3, <1>4, <1>5

\* A step of p, the one refresh at work on the pair, that keeps the labels and the
\* meta file.
LEMMA SnapBuilds ==
  ASSUME S!TypeOK, Sound, NEW p \in Brokers, pc[p] \in S!Building,
         UNCHANGED <<hub, meta, label, kills>>, fails <= fails', fails' \in Nat,
         NEW s \in {"rest", "keep", "install", "meta", "restore"}, pc' = [pc EXCEPT ![p] = s],
         s \in {"keep", "install", "meta"} => payload' = payload /\ pc[p] \in Fetched,
         \A q \in Brokers \ {p} : payload'[q] = payload[q],
         s \in {"keep", "install"} => tmp' = payload[p],
         s = "meta" => snap' = payload[p],
         s \in {"install", "restore"} => snap' = S!Absent,
         s = "restore" => fails' > 0,
         snap' # S!Absent => NewEnough(snap'),
         prev' # S!Absent /\ (snap' = S!Absent \/ s \in Swapping) => NewEnough(prev'),
         meta # S!NoMeta =>
           IF s \in Swapping THEN prev' # S!Absent
           ELSE snap' # S!Absent \/ (prev' # S!Absent /\ (kills > 0 \/ fails' > 1))
  PROVE  Sound'
<1>0. AloneInv /\ BuildInv /\ PairInv /\ KeptInv
  BY DEF Sound
<1>1. pc'[p] = s /\ \A q \in Brokers \ {p} : pc'[q] = pc[q]
  BY SnapFields
<1>2. \A q \in Brokers \ {p} : pc'[q] \notin S!Building
  BY <1>0, <1>1 DEF AloneInv
<1>3. AloneInv'
  BY <1>2 DEF AloneInv
<1>4. /\ Fetched \subseteq S!Building /\ Swapping \subseteq S!Building
      /\ {"insert", "copy", "keep", "install", "meta", "restore"} \subseteq S!Building
  BY DEF Fetched, Swapping, S!Building
<1>5. \A b : NewEnough(b) => NewEnough(b)'
  BY DEF NewEnough, S!Whole
<1>6. BuildInv'
  <2>1. NewEnough(hub.rev)'
    BY <1>0, <1>5 DEF BuildInv
  <2>2. pc'[p] \in Fetched => NewEnough(payload[p])' /\ payload'[p] <= hub'.rev
    <3>1. pc'[p] \in Fetched => pc[p] \in Fetched /\ payload' = payload
      BY <1>1 DEF Fetched
    <3> QED BY <1>0, <1>5, <3>1 DEF BuildInv, NewEnough
  <2>3. /\ pc'[p] \notin {"insert", "copy"}
        /\ pc'[p] \in {"keep", "install"} => tmp' = payload'[p]
        /\ pc'[p] = "meta" => snap' = payload'[p]
        /\ pc'[p] \in {"install", "restore"} => snap' = S!Absent
        /\ pc'[p] = "restore" => fails' > 0
    BY <1>1
  <2>4. \A q \in Brokers \ {p} :
          pc'[q] \notin Fetched \cup {"insert", "copy", "keep", "install", "meta", "restore"}
    BY <1>2, <1>4
  <2> QED BY <2>1, <2>2, <2>3, <2>4 DEF BuildInv
<1>7. (\E q \in Brokers : pc'[q] \in Swapping) <=> s \in Swapping
  BY <1>1, <1>2, <1>4
<1>8. PairInv'
  BY <1>5, <1>7 DEF PairInv, NewEnough, S!Absent
<1>9. KeptInv'
  BY <1>7 DEF KeptInv, S!Absent, S!NoMeta
<1> QED
  BY <1>3, <1>6, <1>8, <1>9 DEF Sound

\* The steps of a refresh that replace the pair, or its copy.
LEMMA SnapBuildSteps ==
  ASSUME SnapInv, NEW p \in Brokers,
         \/ S!Copy(p) \/ S!CopyFails(p) \/ S!KeepPrevious(p) \/ S!KeepFails(p) \/ S!Install(p)
         \/ S!InstallFails(p) \/ S!WriteMeta(p) \/ S!MetaFails(p) \/ S!BuildFails(p)
         \/ S!Restore(p) \/ S!RestoreFails(p)
  PROVE  SnapInv'
<1>0. S!TypeOK /\ RoleInv /\ (~crossed => Sound)
  BY DEF SnapInv
<1>1. pc[p] \in {"copy", "keep", "install", "meta", "restore", "unlink"}
  BY DEF S!Copy, S!CopyFails, S!KeepPrevious, S!KeepFails, S!Install, S!InstallFails, S!WriteMeta,
         S!MetaFails, S!BuildFails, S!Restore, S!RestoreFails
<1>2. p \in Refreshers /\ pc[p] \in S!Building
  BY <1>0, <1>1 DEF RoleInv, Resting, S!Building
<1>n. ASSUME ~crossed
      PROVE  /\ pc[p] \in Fetched => NewEnough(payload[p]) /\ payload[p] <= hub.rev
             /\ pc[p] = "copy" => scratch.body = payload[p]
             /\ pc[p] \in {"keep", "install"} => tmp = payload[p]
             /\ pc[p] = "meta" => snap = payload[p]
             /\ pc[p] \in {"install", "restore"} => snap = S!Absent
             /\ pc[p] = "restore" => fails > 0
             /\ snap # S!Absent => NewEnough(snap)
             /\ prev # S!Absent /\ (snap = S!Absent \/ pc[p] \in Swapping) => NewEnough(prev)
             /\ meta # S!NoMeta =>
                  IF pc[p] \in Swapping THEN prev # S!Absent
                  ELSE snap # S!Absent \/ (prev # S!Absent /\ (kills > 0 \/ fails > 1))
  <2>1. AloneInv /\ BuildInv /\ PairInv /\ KeptInv
    BY <1>0, <1>n DEF Sound
  <2>2. (\E q \in Brokers : pc[q] \in Swapping) <=> pc[p] \in Swapping
    BY <1>2, <2>1 DEF AloneInv, Swapping, S!Building
  <2> QED BY <2>1, <2>2 DEF BuildInv, PairInv, KeptInv
\* A step on to s, with the labels and the meta file as they are.
<1>4. ASSUME UNCHANGED <<hub, scratch, meta, stamp, marker, payload, label, kills, crossed>>,
             fails' \in 0 .. MaxFails, fails <= fails',
             snap' \in S!Bodies, prev' \in S!Bodies, tmp' \in S!Bodies,
             NEW s \in {"keep", "install", "meta", "restore"}, pc' = [pc EXCEPT ![p] = s],
             ~crossed =>
               /\ s \in {"keep", "install", "meta"} => pc[p] \in Fetched
               /\ s \in {"keep", "install"} => tmp' = payload[p]
               /\ s = "meta" => snap' = payload[p]
               /\ s \in {"install", "restore"} => snap' = S!Absent
               /\ s = "restore" => fails' > 0
               /\ snap' # S!Absent => NewEnough(snap')
               /\ prev' # S!Absent /\ (snap' = S!Absent \/ s \in Swapping) => NewEnough(prev')
               /\ meta # S!NoMeta =>
                    IF s \in Swapping THEN prev' # S!Absent
                    ELSE snap' # S!Absent \/ (prev' # S!Absent /\ (kills > 0 \/ fails' > 1))
      PROVE  SnapInv'
  <2>1. S!TypeOK' /\ RoleInv'
    BY <1>0, <1>2, <1>4, SnapFields, SnapTyped DEF Steps
  <2>2. fails' \in Nat
    BY <1>4, SnapshotConstants
  <2>3. ~crossed => Sound'
    BY <1>0, <1>2, <1>4, <2>2, SnapBuilds
  <2> QED
    BY <1>4, <2>1, <2>3 DEF SnapInv
\* A refresh given up: the process ends, with the pair as it should be found.
<1>5. ASSUME S!BuildGivesUp(p), fails' \in 0 .. MaxFails, fails <= fails',
             snap' \in S!Bodies, prev' \in S!Bodies, tmp' \in S!Bodies,
             ~crossed =>
               /\ snap' # S!Absent => NewEnough(snap')
               /\ prev' # S!Absent /\ snap' = S!Absent => NewEnough(prev')
               /\ meta # S!NoMeta => snap' # S!Absent \/ (prev' # S!Absent /\ (kills > 0 \/ fails' > 1))
      PROVE  SnapInv'
  <2>1. /\ UNCHANGED <<hub, meta, stamp, label, kills, crossed>>
        /\ scratch' \in [body : S!Bodies, by : Refreshers] /\ marker' \in S!Markers
        /\ pc' = [pc EXCEPT ![p] = "rest"] /\ payload' = [payload EXCEPT ![p] = 0]
    BY <1>0, <1>5, SnapFields DEF S!BuildGivesUp, S!GiveUp, S!End, S!Goto
  <2>2. payload' \in [Brokers -> S!Whole] /\ "rest" \in Steps /\ "rest" \in Resting
    BY <1>0, <2>1, SnapFields DEF Steps, Resting
  <2>3. S!TypeOK' /\ RoleInv'
    BY <1>0, <1>5, <2>1, <2>2, SnapFields, SnapTyped
  <2>4. fails' \in Nat /\ \A q \in Brokers \ {p} : payload'[q] = payload[q]
    BY <1>0, <1>5, <2>1, SnapshotConstants, SnapFields
  <2>5. ~crossed => Sound'
    BY <1>0, <1>2, <1>5, <2>1, <2>4, SnapBuilds DEF Swapping
  <2> QED
    BY <2>1, <2>3, <2>5 DEF SnapInv
<1>f. /\ fails \in 0 .. MaxFails /\ fails <= fails
      /\ S!Fail => fails' \in 0 .. MaxFails /\ fails <= fails' /\ fails' > 0 /\ (fails > 0 => fails' > 1)
  <2>1. fails \in Nat /\ fails \in 0 .. MaxFails /\ (S!Fail => fails' \in 0 .. MaxFails /\ fails' = fails + 1)
    BY <1>0, SnapFields
  <2> QED BY <2>1
<1>6. CASE S!Copy(p)
  <2>1. /\ UNCHANGED <<hub, snap, prev, scratch, meta, stamp, marker, payload, label, fails, kills, crossed>>
        /\ pc[p] = "copy" /\ tmp' = scratch.body /\ pc' = [pc EXCEPT ![p] = "keep"]
    BY <1>6 DEF S!Copy, S!Goto
  <2>2. snap' \in S!Bodies /\ prev' \in S!Bodies /\ tmp' \in S!Bodies
    BY <1>0, <2>1, SnapFields
  <2> QED
    BY <1>n, <1>f, <1>4, <2>1, <2>2 DEF Fetched, Swapping
<1>7. CASE S!KeepPrevious(p)
  <2>1. /\ UNCHANGED <<hub, tmp, scratch, meta, stamp, marker, payload, label, fails, kills, crossed>>
        /\ pc[p] = "keep" /\ pc' = [pc EXCEPT ![p] = "install"]
        /\ snap' = S!Absent
        /\ IF snap = S!Absent THEN prev' = prev ELSE prev' = snap
    BY <1>7 DEF S!KeepPrevious, S!Goto
  <2>2. snap' \in S!Bodies /\ prev' \in S!Bodies /\ tmp' \in S!Bodies
    BY <1>0, <2>1, SnapFields
  <2> QED
    BY <1>n, <1>f, <1>4, <2>1, <2>2 DEF Fetched, Swapping
<1>8. CASE S!Install(p)
  <2>1. /\ UNCHANGED <<hub, prev, scratch, meta, stamp, marker, payload, label, fails, kills, crossed>>
        /\ pc[p] = "install" /\ pc' = [pc EXCEPT ![p] = "meta"]
        /\ snap' = tmp /\ tmp' = S!Absent
    BY <1>8 DEF S!Install, S!Goto
  <2>2. snap' \in S!Bodies /\ prev' \in S!Bodies /\ tmp' \in S!Bodies
    BY <1>0, <2>1, SnapFields
  <2> QED
    BY <1>n, <1>f, <1>4, <2>1, <2>2 DEF Fetched, Swapping
<1>9. CASE S!InstallFails(p)
  <2>1. /\ UNCHANGED <<hub, snap, prev, tmp, scratch, meta, stamp, marker, payload, label, kills, crossed>>
        /\ pc[p] = "install" /\ pc' = [pc EXCEPT ![p] = "restore"]
        /\ (tmp = S!Absent /\ fails' = fails) \/ S!Fail
    BY <1>9 DEF S!InstallFails, S!Goto, S!files
  <2>2. snap' \in S!Bodies /\ prev' \in S!Bodies /\ tmp' \in S!Bodies
    BY <1>0, <2>1, SnapFields
  <2>3. ~crossed => S!Fail
    BY <1>0, <1>n, <2>1, SnapFields DEF Fetched, NewEnough
  <2> QED
    BY <1>n, <1>f, <1>4, <2>1, <2>2, <2>3 DEF Fetched, Swapping
<1>10. CASE S!MetaFails(p)
  <2>1. /\ UNCHANGED <<hub, prev, tmp, scratch, meta, stamp, marker, payload, label, kills, crossed>>
        /\ pc[p] = "meta" /\ pc' = [pc EXCEPT ![p] = "restore"]
        /\ snap' = S!Absent /\ S!Fail
    BY <1>10 DEF S!MetaFails, S!Goto
  <2>2. snap' \in S!Bodies /\ prev' \in S!Bodies /\ tmp' \in S!Bodies
    BY <1>0, <2>1, SnapFields
  <2> QED
    BY <1>n, <1>f, <1>4, <2>1, <2>2 DEF Fetched, Swapping
<1>11. CASE S!CopyFails(p)
  <2>1. pc[p] = "copy" /\ UNCHANGED <<snap, prev>> /\ (fails' = fails \/ S!Fail) /\ tmp' \in S!Bodies
    BY <1>0, <1>11, SnapFields DEF S!CopyFails
  <2>2. snap' \in S!Bodies /\ prev' \in S!Bodies /\ S!BuildGivesUp(p)
    BY <1>0, <1>11, <2>1, SnapFields DEF S!CopyFails
  <2>3. fails > 1 => fails' > 1
    BY <1>f, <2>1
  <2> QED
    BY <1>n, <1>f, <1>5, <2>1, <2>2, <2>3 DEF Swapping, S!BuildGivesUp
<1>12. CASE S!KeepFails(p)
  <2>1. /\ pc[p] = "keep" /\ snap # S!Absent /\ prev' \in {prev, S!Absent} /\ UNCHANGED <<snap, tmp>>
        /\ S!Fail /\ S!BuildGivesUp(p)
    BY <1>12 DEF S!KeepFails
  <2>2. snap' \in S!Bodies /\ prev' \in S!Bodies /\ tmp' \in S!Bodies
    BY <1>0, <2>1, SnapFields
  <2> QED
    BY <1>n, <1>f, <1>5, <2>1, <2>2
<1>13. CASE S!BuildFails(p)
  <2>1. pc[p] \in {"meta", "unlink"} /\ UNCHANGED <<snap, prev, tmp>> /\ S!Fail /\ S!BuildGivesUp(p)
    BY <1>13 DEF S!BuildFails
  <2>2. snap' \in S!Bodies /\ prev' \in S!Bodies /\ tmp' \in S!Bodies
    BY <1>0, <2>1, SnapFields
  <2>3. ~crossed /\ pc[p] = "meta" => snap # S!Absent
    BY <1>0, <1>n, SnapFields DEF Fetched, NewEnough
  <2>4. fails > 1 => fails' > 1
    BY <1>f, <2>1
  <2> QED
    BY <1>n, <1>f, <1>5, <2>1, <2>2, <2>3, <2>4 DEF Swapping, S!BuildGivesUp
<1>14. CASE S!Restore(p)
  <2>1. /\ pc[p] = "restore" /\ S!BuildGivesUp(p) /\ UNCHANGED <<tmp, fails>>
        /\ IF prev = S!Absent THEN UNCHANGED <<snap, prev>> ELSE snap' = prev /\ prev' = S!Absent
    BY <1>14 DEF S!Restore, S!Restored
  <2>2. snap' \in S!Bodies /\ prev' \in S!Bodies /\ tmp' \in S!Bodies
    BY <1>0, <2>1, SnapFields
  <2> QED
    BY <1>n, <1>f, <1>5, <2>1, <2>2 DEF Swapping, S!BuildGivesUp
<1>15. CASE S!RestoreFails(p)
  <2>1. pc[p] = "restore" /\ UNCHANGED <<snap, prev, tmp>> /\ S!Fail /\ S!BuildGivesUp(p)
    BY <1>15 DEF S!RestoreFails
  <2>2. snap' \in S!Bodies /\ prev' \in S!Bodies /\ tmp' \in S!Bodies
    BY <1>0, <2>1, SnapFields
  <2> QED
    BY <1>n, <1>f, <1>5, <2>1, <2>2 DEF Swapping, S!BuildGivesUp
\* The new label: no newer than the rows, nor than the hub.
<1>16. CASE S!WriteMeta(p)
  <2>1. /\ UNCHANGED <<hub, snap, prev, tmp, scratch, stamp, marker, payload, label, fails, kills, crossed>>
        /\ pc[p] = "meta" /\ pc' = [pc EXCEPT ![p] = "unlink"]
        /\ meta' = [rev |-> payload[p], age |-> 0]
    BY <1>16 DEF S!WriteMeta, S!Goto
  <2>2. payload[p] \in S!Whole /\ meta' \in S!Metas /\ meta'.rev = payload[p] /\ "unlink" \in Steps
    BY <1>0, <2>1, SnapFields DEF S!Metas, S!Ages, Steps
  <2>3. S!TypeOK' /\ RoleInv'
    BY <1>0, <1>2, <2>1, <2>2, SnapFields, SnapTyped
  <2>4. ASSUME ~crossed
        PROVE  Sound'
    <3>1. AloneInv /\ BuildInv
      BY <1>0, <2>4 DEF Sound
    <3>2. pc'[p] = "unlink" /\ \A q \in Brokers \ {p} : pc'[q] = pc[q] /\ pc[q] \notin S!Building
      BY <1>0, <1>2, <2>1, <3>1, SnapFields DEF AloneInv
    <3>3. \A q \in Brokers : pc'[q] \notin Fetched \cup Swapping \cup {"insert", "copy", "keep"}
      BY <3>2 DEF S!Building, Fetched, Swapping
    <3>4. snap = payload[p] /\ NewEnough(payload[p]) /\ payload[p] <= hub.rev /\ snap # S!Absent
      BY <1>0, <1>n, <2>1, <2>2, <2>4, SnapFields DEF Fetched
    <3>5. NewEnough(hub.rev)' /\ NewEnough(snap)'
      <4>1. payload[p] \in Nat
        BY <1>0, <2>2, SnapFields
      <4>2. NewEnough(hub.rev)
        BY <3>1 DEF BuildInv
      <4> QED BY <2>1, <2>2, <3>4, <4>1, <4>2 DEF NewEnough, S!Whole
    <3>6. AloneInv'
      BY <3>2 DEF AloneInv
    <3>7. BuildInv'
      BY <3>3, <3>5 DEF BuildInv, Swapping
    <3>8. PairInv' /\ KeptInv'
      BY <2>1, <3>3, <3>4, <3>5 DEF PairInv, KeptInv, S!Absent
    <3> QED BY <3>6, <3>7, <3>8 DEF Sound
  <2> QED
    BY <2>1, <2>3, <2>4 DEF SnapInv
<1> QED
  BY <1>6, <1>7, <1>8, <1>9, <1>10, <1>11, <1>12, <1>13, <1>14, <1>15, <1>16

LEMMA SnapKeeps ==
  ASSUME SnapInv, S!Next
  PROVE  SnapInv'
BY SnapOutside, SnapQuietSteps, SnapBuildSteps DEF S!Next, S!Moment, S!Refresh

LEMMA SnapSafe ==
  ASSUME SnapInv
  PROVE  S!LabelHonest /\ S!FailureKeepsPair
<1>1. S!LabelHonest
  <2> SUFFICES ASSUME ~crossed, NEW p \in Brokers, S!Served(p) # S!Absent
               PROVE  S!Served(p) >= label[p]
    BY DEF S!LabelHonest
  <2>1. S!Served(p) = snap /\ NewEnough(snap)
    BY DEF S!Served, SnapInv, Sound, PairInv
  <2> QED
    BY <2>1, SnapFields DEF NewEnough, SnapInv
<1>2. S!FailureKeepsPair
  <2> SUFFICES ASSUME ~crossed, meta # S!NoMeta,
                      \A p \in Brokers : pc[p] \in {"rest", "label", "serve"}
               PROVE  S!Kept
    BY DEF S!FailureKeepsPair
  <2>1. PairInv /\ KeptInv /\ S!Whole \subseteq Nat /\ meta.rev \in S!Whole
    BY SnapFields DEF SnapInv, Sound
  <2>2. ~ \E p \in Brokers : pc[p] \in Swapping
    BY DEF Swapping
  <2>3. CASE snap # S!Absent
    BY <2>1, <2>3 DEF PairInv, NewEnough, S!Kept
  <2>4. CASE snap = S!Absent
    BY <2>1, <2>2, <2>4 DEF PairInv, KeptInv, NewEnough, S!Kept
  <2> QED
    BY <2>3, <2>4
<1> QED
  BY <1>1, <1>2

--------------------------------------------------------------------------------
(* The rotated log, with one process that appends.                         *)

\* At most one process appends to the log at a time: with more, "a concurrent writer
\* mid-shift may have its line [...] lost" (log_rotate.py).
OneAppender == \E a : Appenders = {a}

Last == L!Max({0} \cup written)  \* the number of the last line appended

\* Each rotation, finished or killed, shifts the family by at most one and stamps one
\* marker; a line is appended before the next one, or it was killed.
BoundInv ==
  \A p \in Appenders :
    /\ pc[p] # "rest" => Last < MaxLines
    /\ \A n \in L!Family :
         /\ n <= FirstSegs + Last + faults + 1
         /\ pc[p] \in {"rest", "list"} => n <= FirstSegs + Last + faults
         /\ seg[n].seq >= 0 /\ seg[n].seq <= Last + faults + 1
         /\ pc[p] \notin {"fresh", "append"} => seg[n].seq <= Last + faults
    /\ pc[p] = "shift" => \A n \in todo[p] : n <= FirstSegs + Last + faults

\* A file holds lines that were written, older ones the higher its number.
LinesInv ==
  /\ active \subseteq written
  /\ \A n \in L!Family :
       /\ seg[n].lines # {} /\ seg[n].lines \subseteq written
       /\ \A k \in active, l \in seg[n].lines : k > l
  /\ \A p \in Appenders : pc[p] \in {"list", "shift"} => active # {}

\* A shift makes room from the top: there is no segment where the next one goes.
ShiftInv ==
  \A p \in Appenders : pc[p] = "shift" =>
    /\ todo[p] \subseteq L!Family
    /\ \A m \in L!Family \ todo[p] : m > 1 /\ \A n \in todo[p] : m > n + 1

\* An eviction leaves Keep segments below each one it removes.
EvictInv ==
  \A p \in Appenders : pc[p] = "evict" =>
    /\ todo[p] \subseteq L!Family
    /\ \A v \in todo[p] : L!Cardinality({k \in L!Family \ todo[p] : k < v}) >= Keep

RotInv ==
  /\ L!TypeOK /\ BoundInv /\ LinesInv /\ ShiftInv /\ EvictInv
  /\ L!NumberedByAge /\ L!NothingDestroyed

\* A finite set of integers that is not empty has a greatest element: one without, of
\* the least size, would have one when an element is taken away.
LEMMA Greatest ==
  ASSUME NEW a \in Int, NEW b \in Int, NEW Z \in SUBSET (a .. b), Z # {}
  PROVE  \E m \in Z : \A y \in Z : y <= m
<1> DEFINE I == a .. b
           Endless == {T \in SUBSET I : T # {} /\ \A x \in T : \E y \in T : ~ (y <= x)}
<1>1. SUFFICES ASSUME Endless # {}
               PROVE  FALSE
  BY <1>1
<1>2. PICK T \in Endless : \A U \in Endless : <<U, T>> \notin StrictSubsetOrdering(I)
  <2>1. Endless \subseteq FiniteSubsetsOf(I)
    BY FS_FiniteSubsetsOfFinite, FS_Interval
  <2>2. IsWellFoundedOn(StrictSubsetOrdering(I), FiniteSubsetsOf(I))
    BY FS_StrictSubsetOrderingWellFounded
  <2> QED
    BY <1>1, <2>1, <2>2, WFMin
<1>3. PICK t \in T : TRUE
  OBVIOUS
<1> DEFINE U == T \ {t}
<1>4. U \notin Endless
  <2>1. <<U, T>> \in StrictSubsetOrdering(I)
    BY <1>3 DEF StrictSubsetOrdering
  <2> QED
    BY <1>2, <2>1
<1>5. U # {}
  BY <1>3
<1>6. PICK u \in U : \A y \in U : y <= u
  BY <1>4, <1>5
<1>7. u \in Int /\ t \in Int
  BY <1>3
<1>8. CASE t <= u
  BY <1>3, <1>6, <1>7, <1>8
<1>9. CASE ~ (t <= u)
  <2>1. \A y \in U : y \in Int /\ y <= t
    BY <1>6, <1>7, <1>9
  <2> QED
    BY <1>3, <1>7, <2>1
<1> QED
  BY <1>8, <1>9

LEMMA MaxIs ==
  ASSUME NEW a \in Int, NEW b \in Int, NEW Z \in SUBSET (a .. b), Z # {}
  PROVE  L!Max(Z) \in Z /\ \A y \in Z : y <= L!Max(Z)
<1>1. \E m \in Z : \A y \in Z : m >= y
  BY Greatest
<1> QED
  BY <1>1 DEF L!Max

LEMMA MinIs ==
  ASSUME NEW a \in Int, NEW b \in Int, NEW Z \in SUBSET (a .. b), Z # {}
  PROVE  L!Min(Z) \in Z /\ \A y \in Z : L!Min(Z) <= y
<1> DEFINE T == {-x : x \in Z}
<1>1. T \in SUBSET ((-b) .. (-a)) /\ T # {}
  OBVIOUS
<1>2. PICK m \in T : \A y \in T : y <= m
  <2>1. -b \in Int /\ -a \in Int
    OBVIOUS
  <2> HIDE DEF T
  <2> QED
    BY <1>1, <2>1, Greatest
<1>3. PICK x \in Z : m = -x
  BY <1>2
<1>4. \A y \in Z : x <= y
  BY <1>2, <1>3
<1> QED
  BY <1>4 DEF L!Min

LEMMA SameCardinality == \A Z : L!Cardinality(Z) = Cardinality(Z)
BY DEF L!Cardinality, Cardinality, L!IsFiniteSet, IsFiniteSet

\* Of two finite sets of segment numbers, the one that contains the other is the larger.
LEMMA Counted ==
  ASSUME NEW Z, NEW T, Z \subseteq T, T \subseteq 1 .. L!MaxSeg
  PROVE  /\ IsFiniteSet(Z) /\ IsFiniteSet(T)
         /\ L!Cardinality(Z) \in Nat /\ L!Cardinality(T) \in Nat
         /\ L!Cardinality(Z) <= L!Cardinality(T)
<1>1. IsFiniteSet(1 .. L!MaxSeg)
  BY FS_Interval, LogConstants, ReservationConstants DEF L!MaxSeg
<1> QED
  BY <1>1, FS_Subset, FS_CardinalityType, SameCardinality

LEMMA LastIs ==
  ASSUME written \subseteq L!Lines
  PROVE  /\ Last \in 0 .. MaxLines /\ Last \in {0} \cup written
         /\ \A l \in written : l <= Last
<1> DEFINE Z == {0} \cup written
<1>1. Z \in SUBSET ((-FirstSegs) .. MaxLines) /\ Z # {}
  BY LogConstants DEF L!Lines
<1>2. Last \in Z /\ \A l \in Z : l <= Last
  <2>1. -FirstSegs \in Int /\ MaxLines \in Int
    BY LogConstants
  <2>2. Last = L!Max(Z)
    BY DEF Last
  <2> HIDE DEF Z
  <2> QED
    BY <1>1, <2>1, <2>2, MaxIs
<1> QED
  BY <1>1, <1>2, LogConstants

LEMMA RotInit == L!Init => RotInv
<1> SUFFICES ASSUME L!Init
             PROVE  RotInv
  OBVIOUS
<1>c. /\ FirstSegs \in Nat /\ MaxLines \in Nat /\ MaxLogFaults \in Nat /\ L!MaxSeg \in Nat
      /\ FirstSegs <= L!MaxSeg
  BY LogConstants DEF L!MaxSeg
<1>1. PICK F \in SUBSET (1 .. FirstSegs) :
        /\ seg = [n \in 1 .. L!MaxSeg |-> IF n \in F THEN [lines |-> {-n}, seq |-> 0] ELSE L!Absent]
        /\ written = {-n : n \in F}
  BY DEF L!Init
<1>2. /\ L!Family = F
      /\ \A n \in F : n \in Int /\ 1 <= n /\ n <= FirstSegs /\ seg[n].lines = {-n} /\ seg[n].seq = 0
  <2>1. \A n \in F : n \in 1 .. L!MaxSeg /\ n \in Int /\ 1 <= n /\ n <= FirstSegs
    BY <1>c
  <2>2. /\ \A n \in F : seg[n] = [lines |-> {-n}, seq |-> 0]
        /\ \A n \in (1 .. L!MaxSeg) \ F : seg[n] = L!Absent
    BY <1>1, <2>1
  <2>3. ASSUME NEW n \in F
        PROVE  seg[n].seq = 0 /\ seg[n].lines = {-n}
    <3>1. seg[n] = [lines |-> {-n}, seq |-> 0]
      BY <2>2
    <3> QED
      BY <3>1
  <2>4. \A n \in 1 .. L!MaxSeg : seg[n] # L!Absent <=> n \in F
    <3>1. L!Absent.seq = -1
      BY DEF L!Absent
    <3> QED
      BY <2>2, <2>3, <3>1
  <2> QED
    BY <2>1, <2>3, <2>4 DEF L!Family
<1>3. written \subseteq L!Lines /\ \A l \in written : l < 0
  BY <1>c, <1>1 DEF L!Lines
<1>4. L!TypeOK
  <2>1. \A n \in F : [lines |-> {-n}, seq |-> 0] \in L!Segs
    BY <1>c, <1>1 DEF L!Segs, L!Lines
  <2>2. L!Absent \in L!Segs
    BY <1>c DEF L!Segs, L!Absent
  <2>3. seg \in [1 .. L!MaxSeg -> L!Segs]
    BY <1>1, <2>1, <2>2
  <2>4. faults \in 0 .. MaxLogFaults
    BY <1>c DEF L!Init
  <2> QED
    BY <1>3, <2>3, <2>4 DEF L!Init, L!TypeOK
<1>5. Last = 0
  BY <1>3, LastIs, LogConstants
<1>6. BoundInv
  <2>1. faults = 0 /\ \A p \in Appenders : pc[p] = "rest"
    BY DEF L!Init
  <2> QED
    BY <1>c, <1>2, <1>5, <2>1 DEF BoundInv
<1>7. LinesInv /\ ShiftInv /\ EvictInv
  <2>1. active = {} /\ \A p \in Appenders : pc[p] = "rest"
    BY DEF L!Init
  <2> QED
    BY <1>1, <1>2, <2>1 DEF LinesInv, ShiftInv, EvictInv
<1>8. L!NumberedByAge
  <2>1. ASSUME NEW m \in F, NEW n \in F, m < n
        PROVE  /\ \A k \in seg[m].lines, l \in seg[n].lines : k > l
               /\ ~ (seg[m].seq > 0)
    BY <1>2, <2>1
  <2> QED
    BY <1>2, <2>1 DEF L!NumberedByAge
<1>9. L!NothingDestroyed
  <2>1. \A l \in written : \E n \in F : l \in seg[n].lines
    BY <1>1, <1>2
  <2> QED
    BY <1>2, <2>1 DEF L!NothingDestroyed
<1> QED
  BY <1>4, <1>6, <1>7, <1>8, <1>9 DEF RotInv

LEMMA RotStutter ==
  ASSUME RotInv, UNCHANGED L!vars
  PROVE  RotInv'
<1>1. L!Family' = L!Family /\ Last' = Last
  BY DEF L!vars, L!Family, Last
<1>2. L!TypeOK' /\ BoundInv' /\ LinesInv'
  BY <1>1 DEF L!vars, RotInv, L!TypeOK, BoundInv, LinesInv
<1>3. ShiftInv' /\ EvictInv'
  BY <1>1 DEF L!vars, RotInv, ShiftInv, EvictInv
<1>4. L!NumberedByAge' /\ L!NothingDestroyed'
  BY <1>1 DEF L!vars, RotInv, L!NumberedByAge, L!NothingDestroyed, L!Newer
<1> QED
  BY <1>2, <1>3, <1>4 DEF RotInv

\* A step of the appender that leaves every file alone.
LEMMA RotQuiet ==
  ASSUME NEW p, Appenders = {p}, RotInv, UNCHANGED <<active, seg, written>>, exists' \in BOOLEAN,
         NEW s \in {"rest", "list", "shift", "relist", "evict", "fresh", "append"},
         NEW T \in SUBSET (1 .. L!MaxSeg),
         pc' = [pc EXCEPT ![p] = s], todo' = [todo EXCEPT ![p] = T],
         faults' \in 0 .. MaxLogFaults, misread' \in BOOLEAN, misread => misread',
         s # "rest" => Last < MaxLines,
         \A n \in L!Family : n <= FirstSegs + Last + faults' + 1 /\ seg[n].seq <= Last + faults' + 1,
         s \in {"rest", "list"} => \A n \in L!Family : n <= FirstSegs + Last + faults',
         s \notin {"fresh", "append"} => \A n \in L!Family : seg[n].seq <= Last + faults',
         s = "shift" => \A n \in T : n <= FirstSegs + Last + faults',
         s \in {"list", "shift"} => active # {},
         s = "shift" => /\ T \subseteq L!Family
                        /\ \A m \in L!Family \ T : m > 1 /\ \A n \in T : m > n + 1,
         s = "evict" => /\ T \subseteq L!Family
                        /\ \A v \in T : L!Cardinality({k \in L!Family \ T : k < v}) >= Keep
  PROVE  RotInv'
<1>0. L!TypeOK /\ BoundInv /\ LinesInv /\ ShiftInv /\ EvictInv /\ L!NumberedByAge /\ L!NothingDestroyed
  BY DEF RotInv
<1>1. pc'[p] = s /\ todo'[p] = T
  BY <1>0 DEF L!TypeOK
<1>2. L!Family' = L!Family /\ Last' = Last
  BY DEF L!Family, Last
<1>3. L!TypeOK'
  BY <1>0 DEF L!TypeOK
<1>4. BoundInv'
  BY <1>0, <1>1, <1>2 DEF BoundInv
<1>5. LinesInv'
  BY <1>0, <1>1, <1>2 DEF LinesInv
<1>6. ShiftInv' /\ EvictInv'
  BY <1>1, <1>2 DEF ShiftInv, EvictInv
<1>7. L!NumberedByAge'
  BY <1>0, <1>2 DEF L!NumberedByAge
<1>8. L!NothingDestroyed'
  BY <1>0, <1>2 DEF L!NothingDestroyed, L!Newer
<1> QED
  BY <1>3, <1>4, <1>5, <1>6, <1>7, <1>8 DEF RotInv

\* What the invariant says of the one appender.
LEMMA RotFacts ==
  ASSUME NEW p, Appenders = {p}, RotInv
  PROVE  /\ L!MaxSeg = FirstSegs + MaxLines + MaxLogFaults
         /\ FirstSegs \in Nat /\ MaxLines \in Nat /\ MaxLogFaults \in Nat /\ L!MaxSeg \in Nat
         /\ active \in SUBSET L!Lines /\ exists \in BOOLEAN /\ written \in SUBSET L!Lines
         /\ seg \in [1 .. L!MaxSeg -> L!Segs] /\ L!Absent \in L!Segs
         /\ pc \in [{p} -> {"rest", "list", "shift", "relist", "evict", "fresh", "append"}]
         /\ todo \in [{p} -> SUBSET (1 .. L!MaxSeg)]
         /\ faults \in Nat /\ faults <= MaxLogFaults /\ misread \in BOOLEAN
         /\ Last \in Nat /\ Last <= MaxLines /\ (pc[p] # "rest" => Last < MaxLines)
         /\ L!Family \subseteq 1 .. L!MaxSeg
         /\ \A n \in L!Family :
              /\ n \in Nat /\ n >= 1 /\ n <= FirstSegs + Last + faults + 1
              /\ pc[p] \in {"rest", "list"} => n <= FirstSegs + Last + faults
              /\ seg[n].seq \in Int /\ seg[n].seq >= 0 /\ seg[n].seq <= Last + faults + 1
              /\ pc[p] \notin {"fresh", "append"} => seg[n].seq <= Last + faults
         /\ pc[p] = "shift" => \A n \in todo[p] : n <= FirstSegs + Last + faults
         /\ {} \in SUBSET (1 .. L!MaxSeg) /\ todo[p] \in SUBSET (1 .. L!MaxSeg)
         /\ L!Family \in SUBSET (1 .. L!MaxSeg)
<1>0. L!TypeOK /\ BoundInv
  BY DEF RotInv
<1>1. /\ L!MaxSeg = FirstSegs + MaxLines + MaxLogFaults
      /\ FirstSegs \in Nat /\ MaxLines \in Nat /\ MaxLogFaults \in Nat /\ L!MaxSeg \in Nat
  BY LogConstants DEF L!MaxSeg
<1>2. L!Absent \in L!Segs
  BY <1>1 DEF L!Absent, L!Segs
<1>3. Last \in Nat /\ Last <= MaxLines
  BY <1>0, <1>1, LastIs DEF L!TypeOK
<1>4. faults \in Nat /\ faults <= MaxLogFaults
  BY <1>0, <1>1 DEF L!TypeOK
<1>5. ASSUME NEW n \in L!Family
      PROVE  n \in 1 .. L!MaxSeg /\ n \in Nat /\ n >= 1 /\ seg[n].seq \in Int
  BY <1>0, <1>1 DEF L!Family, L!TypeOK, L!Segs
<1>6. L!Family \in SUBSET (1 .. L!MaxSeg) /\ {} \in SUBSET (1 .. L!MaxSeg)
  BY <1>5
<1>7. todo \in [{p} -> SUBSET (1 .. L!MaxSeg)] /\ todo[p] \in SUBSET (1 .. L!MaxSeg)
  BY <1>0 DEF L!TypeOK
<1> QED
  BY <1>0, <1>1, <1>2, <1>3, <1>4, <1>5, <1>6, <1>7 DEF L!TypeOK, BoundInv

\* The victims of an eviction are the segments above the Keep lowest: below the lowest
\* victim there are Keep, and none of them is a victim.
LEMMA VictimsAbove ==
  ASSUME L!Family \subseteq 1 .. L!MaxSeg, NEW v \in L!Victims
  PROVE  L!Cardinality({k \in L!Family \ L!Victims : k < v}) >= Keep
<1>1. L!Victims \in SUBSET (1 .. L!MaxSeg) /\ L!MaxSeg \in Nat
  <2>1. L!MaxSeg \in Nat
    BY LogConstants DEF L!MaxSeg
  <2>2. L!Victims \subseteq L!Family
    BY DEF L!Victims
  <2> QED
    BY <2>1, <2>2
<1>2. PICK m \in L!Victims : \A y \in L!Victims : m <= y
  <2>1. L!Victims # {} /\ 1 \in Int /\ L!MaxSeg \in Int
    BY <1>1
  <2> QED
    BY <1>1, <2>1, MinIs
<1> DEFINE Z == {k \in L!Family : k < m}
           T == {k \in L!Family \ L!Victims : k < v}
<1>3. L!Cardinality(Z) >= Keep
  BY <1>2 DEF L!Victims
<1>4. Z \subseteq T /\ T \subseteq 1 .. L!MaxSeg
  <2>1. m \in Int /\ v \in Int /\ m <= v
    BY <1>1, <1>2
  <2>2. ASSUME NEW k \in L!Family, k < m
        PROVE  k \notin L!Victims /\ k < v
    BY <1>1, <1>2, <2>1, <2>2
  <2> QED
    BY <2>2
<1>5. /\ L!Cardinality(Z) \in Nat /\ L!Cardinality(T) \in Nat
      /\ L!Cardinality(Z) <= L!Cardinality(T)
  <2> HIDE DEF Z, T
  <2> QED
    BY <1>4, Counted
<1> QED
  BY <1>3, <1>5, LogConstants

\* The steps that leave every file alone.
LEMMA RotQuietSteps ==
  ASSUME NEW p, Appenders = {p}, RotInv,
         \/ L!Probe(p) \/ L!List(p) \/ L!Relist(p) \/ L!EvictFails(p) \/ L!Fresh(p)
         \/ L!CallFails(p) \/ L!Kill(p)
  PROVE  RotInv'
<1>0. L!TypeOK /\ BoundInv /\ LinesInv /\ ShiftInv /\ EvictInv
  BY DEF RotInv
<1>f. /\ pc \in [{p} -> {"rest", "list", "shift", "relist", "evict", "fresh", "append"}]
      /\ todo \in [{p} -> SUBSET (1 .. L!MaxSeg)] /\ exists \in BOOLEAN
      /\ MaxLines \in Nat /\ MaxLogFaults \in Nat /\ L!MaxSeg \in Nat /\ FirstSegs \in Nat
      /\ faults \in Nat /\ faults <= MaxLogFaults /\ faults \in 0 .. MaxLogFaults /\ misread \in BOOLEAN
      /\ Last \in Nat /\ Last <= MaxLines /\ (pc[p] # "rest" => Last < MaxLines)
      /\ L!Family \in SUBSET (1 .. L!MaxSeg) /\ todo[p] \in SUBSET (1 .. L!MaxSeg)
      /\ {} \in SUBSET (1 .. L!MaxSeg)
  <2>1. faults \in 0 .. MaxLogFaults
    BY <1>0 DEF L!TypeOK
  <2> QED
    BY <2>1, RotFacts
<1>b. /\ \A n \in L!Family :
           /\ n \in Nat /\ n >= 1 /\ n <= FirstSegs + Last + faults + 1
           /\ seg[n].seq \in Int /\ seg[n].seq >= 0 /\ seg[n].seq <= Last + faults + 1
      /\ pc[p] \in {"rest", "list"} => \A n \in L!Family : n <= FirstSegs + Last + faults
      /\ pc[p] \notin {"fresh", "append"} => \A n \in L!Family : seg[n].seq <= Last + faults
      /\ pc[p] = "shift" => \A n \in todo[p] : n <= FirstSegs + Last + faults
  BY RotFacts
<1>1. CASE L!Probe(p)
  <2>1. PICK s \in {"list", "append"} :
          /\ pc' = [pc EXCEPT ![p] = s] /\ todo' = [todo EXCEPT ![p] = todo[p]]
          /\ s = "list" => L!Cardinality(active) > LogCap
    BY <1>1, <1>f DEF L!Probe, L!Goto
  <2>2. s = "list" => active # {}
    BY <2>1, SameCardinality, FS_EmptySet, LogConstants
  <2>3. Last < MaxLines
    <3>1. Last \in {0} \cup written /\ MaxLines \notin written
      BY <1>0, <1>1, LastIs DEF L!Probe, L!TypeOK
    <3>2. MaxLines # 0
      BY LogConstants
    <3> QED
      BY <1>f, <3>1, <3>2
  <2>4. pc[p] = "rest" /\ UNCHANGED <<active, exists, seg, written, misread, faults>>
    BY <1>1 DEF L!Probe
  <2> QED
    BY <1>f, <1>b, <2>1, <2>2, <2>3, <2>4, RotQuiet
<1>2. CASE L!List(p)
  <2>1. /\ UNCHANGED <<active, exists, seg, written, misread, faults>> /\ pc[p] = "list"
        /\ pc' = [pc EXCEPT ![p] = "shift"] /\ todo' = [todo EXCEPT ![p] = L!Family]
        /\ active # {}
    BY <1>0, <1>2 DEF L!List, L!Goto, LinesInv
  <2> QED
    BY <1>f, <1>b, <2>1, RotQuiet
<1>3. CASE L!Relist(p)
  <2>1. /\ UNCHANGED <<active, exists, seg, written, misread, faults>> /\ pc[p] = "relist"
        /\ pc' = [pc EXCEPT ![p] = "evict"] /\ todo' = [todo EXCEPT ![p] = L!Victims]
    BY <1>3 DEF L!Relist, L!Goto
  <2>2. L!Victims \subseteq L!Family
    BY DEF L!Victims
  <2>3. \A v \in L!Victims : L!Cardinality({k \in L!Family \ L!Victims : k < v}) >= Keep
    BY <1>f, VictimsAbove
  <2> QED
    BY <1>f, <1>b, <2>1, <2>2, <2>3, RotQuiet
<1>4. CASE L!EvictFails(p)
  <2> DEFINE T == todo[p] \ {L!Min(todo[p])}
  <2>1. /\ UNCHANGED <<active, exists, seg, written, misread>> /\ pc[p] = "evict"
        /\ pc' = [pc EXCEPT ![p] = "evict"] /\ todo' = [todo EXCEPT ![p] = T]
        /\ faults' = faults + 1 /\ faults' \in 0 .. MaxLogFaults
    BY <1>f, <1>4 DEF L!EvictFails, L!Fault
  <2>2. T \subseteq L!Family /\ T \in SUBSET (1 .. L!MaxSeg)
    BY <1>0, <1>f, <2>1 DEF EvictInv
  <2>3. ASSUME NEW v \in T
        PROVE  L!Cardinality({k \in L!Family \ T : k < v}) >= Keep
    <3> DEFINE A == {k \in L!Family \ todo[p] : k < v}
               B == {k \in L!Family \ T : k < v}
    <3>1. L!Cardinality(A) >= Keep
      BY <1>0, <2>1 DEF EvictInv
    <3>2. A \subseteq B /\ B \subseteq 1 .. L!MaxSeg
      BY <1>f
    <3>3. L!Cardinality(A) \in Nat /\ L!Cardinality(B) \in Nat /\ L!Cardinality(A) <= L!Cardinality(B)
      <4> HIDE DEF A, B
      <4> QED
        BY <3>2, Counted
    <3> QED
      BY <3>1, <3>3, LogConstants
  <2>4. \A n \in L!Family : /\ n <= FirstSegs + Last + faults' + 1
                             /\ seg[n].seq <= Last + faults' /\ seg[n].seq <= Last + faults' + 1
    BY <1>f, <1>b, <2>1
  <2> HIDE DEF T
  <2> QED
    BY <1>f, <1>b, <2>1, <2>2, <2>3, <2>4, RotQuiet
<1>5. CASE L!Fresh(p)
  <2>1. /\ UNCHANGED <<active, seg, written, misread, faults>> /\ pc[p] = "fresh" /\ exists' = TRUE
        /\ pc' = [pc EXCEPT ![p] = "append"] /\ todo' = [todo EXCEPT ![p] = todo[p]]
    BY <1>f, <1>5 DEF L!Fresh, L!Goto
  <2> QED
    BY <1>f, <1>b, <2>1, RotQuiet
<1>6. CASE L!CallFails(p) \/ L!Kill(p)
  <2>1. /\ UNCHANGED <<active, exists, seg, written, misread>> /\ pc[p] # "rest"
        /\ \/ pc' = [pc EXCEPT ![p] = "append"]
           \/ pc' = [pc EXCEPT ![p] = "rest"]
        /\ todo' = [todo EXCEPT ![p] = {}]
        /\ faults' = faults + 1 /\ faults' \in 0 .. MaxLogFaults
    BY <1>f, <1>6 DEF L!CallFails, L!Kill, L!Abort, L!Fault, L!Goto
  <2>2. \A n \in L!Family : n <= FirstSegs + Last + faults' /\ seg[n].seq <= Last + faults'
    BY <1>f, <1>b, <2>1
  <2>3. \A n \in L!Family : n <= FirstSegs + Last + faults' + 1 /\ seg[n].seq <= Last + faults' + 1
    BY <1>f, <1>b, <2>1
  <2>4. CASE pc' = [pc EXCEPT ![p] = "append"]
    BY <1>f, <2>1, <2>3, <2>4, RotQuiet
  <2>5. CASE pc' = [pc EXCEPT ![p] = "rest"]
    BY <1>f, <2>1, <2>2, <2>3, <2>5, RotQuiet
  <2> QED
    BY <2>1, <2>4, <2>5
<1> QED
  BY <1>1, <1>2, <1>3, <1>4, <1>5, <1>6

LEMMA RotShift ==
  ASSUME NEW p, Appenders = {p}, RotInv, L!Shift(p)
  PROVE  RotInv'
<1>0. /\ L!TypeOK /\ BoundInv /\ LinesInv /\ ShiftInv /\ EvictInv
      /\ L!NumberedByAge /\ L!NothingDestroyed
  BY DEF RotInv
<1> DEFINE n == L!NextShift(p)
           T == todo[p] \ {n}
<1>f. /\ pc \in [{p} -> {"rest", "list", "shift", "relist", "evict", "fresh", "append"}]
      /\ todo \in [{p} -> SUBSET (1 .. L!MaxSeg)]
      /\ seg \in [1 .. L!MaxSeg -> L!Segs] /\ L!Absent \in L!Segs
      /\ L!MaxSeg = FirstSegs + MaxLines + MaxLogFaults
      /\ MaxLines \in Nat /\ MaxLogFaults \in Nat /\ L!MaxSeg \in Nat /\ FirstSegs \in Nat
      /\ faults \in Nat /\ faults <= MaxLogFaults /\ Last \in Nat
      /\ L!Family \in SUBSET (1 .. L!MaxSeg) /\ todo[p] \in SUBSET (1 .. L!MaxSeg)
  BY RotFacts
<1>1. /\ pc[p] = "shift" /\ todo[p] # {} /\ todo[p] \subseteq L!Family
      /\ UNCHANGED <<active, exists, written, misread, faults>>
      /\ \A m \in L!Family \ todo[p] : m > 1 /\ \A k \in todo[p] : m > k + 1
      /\ Last < MaxLines
  BY <1>0, RotFacts DEF L!Shift, ShiftInv
<1>2. n \in todo[p] /\ \A k \in todo[p] : k <= n
  <2>1. 1 \in Int /\ L!MaxSeg \in Int
    BY <1>f
  <2> QED
    BY <1>f, <1>1, <2>1, MaxIs DEF L!NextShift
<1>3. /\ n \in L!Family /\ n \in 1 .. L!MaxSeg /\ n \in Nat
      /\ n <= FirstSegs + Last + faults /\ n + 1 \in 1 .. L!MaxSeg
  <2>1. n \in L!Family /\ n \in 1 .. L!MaxSeg /\ n \in Nat
    BY <1>f, <1>1, <1>2
  <2>2. n <= FirstSegs + Last + faults
    BY <1>1, <1>2, RotFacts
  <2> QED
    BY <1>f, <1>1, <2>1, <2>2
<1>4. n + 1 \notin L!Family
  <2>1. n + 1 \notin todo[p]
    BY <1>2, <1>3
  <2>2. ~ (n + 1 > n + 1)
    BY <1>3
  <2> QED
    BY <1>1, <1>2, <2>1, <2>2
<1>5. /\ seg' = [seg EXCEPT ![n + 1] = seg[n], ![n] = L!Absent]
      /\ todo' = [todo EXCEPT ![p] = T] /\ pc' = pc
  <2>1. seg[n] # L!Absent
    BY <1>3 DEF L!Family
  <2> QED
    BY <1>f, <2>1 DEF L!Shift
<1> HIDE DEF n, T
<1>6. /\ seg'[n] = L!Absent /\ seg'[n + 1] = seg[n]
      /\ \A k \in 1 .. L!MaxSeg : k # n /\ k # n + 1 => seg'[k] = seg[k]
  BY <1>f, <1>3, <1>5
<1>7. /\ L!Family' = (L!Family \ {n}) \cup {n + 1}
      /\ Last' = Last
  <2>1. seg[n] # L!Absent
    BY <1>3 DEF L!Family
  <2>2. \A k \in 1 .. L!MaxSeg :
          seg'[k] # L!Absent <=> (k # n /\ seg[k] # L!Absent) \/ k = n + 1
    BY <1>3, <1>4, <1>6, <2>1 DEF L!Family
  <2>3. L!Family' = {k \in 1 .. L!MaxSeg : seg'[k] # L!Absent}
    BY DEF L!Family
  <2> QED
    BY <1>1, <1>3, <2>2, <2>3 DEF L!Family, Last
\* Where the segment k was before the step.
<1> DEFINE was(k) == IF k = n + 1 THEN n ELSE k
<1>8. ASSUME NEW k \in L!Family'
      PROVE  was(k) \in L!Family /\ seg'[k] = seg[was(k)] /\ k \in Nat /\ was(k) \in Nat
  <2>1. CASE k = n + 1
    BY <1>3, <1>6, <2>1
  <2>2. CASE k # n + 1
    BY <1>f, <1>6, <1>7, <2>2
  <2> QED
    BY <2>1, <2>2
<1>9. ASSUME NEW k \in L!Family', NEW m \in L!Family', k < m
      PROVE  was(k) < was(m)
  BY <1>3, <1>7, <1>8, <1>9
<1>10. \A k \in L!Family : \E m \in L!Family' : was(m) = k
  <2>1. ASSUME NEW k \in L!Family
        PROVE  \E m \in L!Family' : was(m) = k
    <3>1. CASE k = n
      BY <1>7, <3>1
    <3>2. CASE k # n
      <4>1. k \in L!Family' /\ k # n + 1
        BY <1>4, <1>7, <3>2
      <4> QED
        BY <4>1
    <3> QED
      BY <3>1, <3>2
  <2> QED
    BY <2>1
<1>11. /\ L!TypeOK' /\ todo'[p] = T /\ pc'[p] = "shift"
       /\ T \subseteq todo[p] /\ n \notin T
  <2>1. T \subseteq todo[p] /\ n \notin T
    BY DEF T
  <2>2. T \in SUBSET (1 .. L!MaxSeg)
    BY <1>f, <2>1
  <2>3. seg' \in [1 .. L!MaxSeg -> L!Segs]
    BY <1>f, <1>3, <1>5
  <2>4. todo' \in [{p} -> SUBSET (1 .. L!MaxSeg)] /\ todo'[p] = T
    BY <1>f, <1>5, <2>2
  <2> QED
    BY <1>0, <1>1, <1>5, <2>1, <2>3, <2>4 DEF L!TypeOK
<1>12. BoundInv'
  <2>1. ASSUME NEW k \in L!Family'
        PROVE  /\ k <= FirstSegs + Last + faults + 1
               /\ seg'[k].seq >= 0 /\ seg'[k].seq <= Last + faults + 1 /\ seg'[k].seq <= Last + faults
    <3>1. k \in L!Family \/ k = n + 1
      BY <1>7
    <3>2. \A m \in L!Family : m \in Nat /\ m <= FirstSegs + Last + faults + 1
      BY RotFacts
    <3>3. k <= FirstSegs + Last + faults + 1
      <4>1. CASE k \in L!Family
        BY <3>2, <4>1
      <4>2. CASE k = n + 1
        BY <1>f, <1>3, <4>2
      <4> QED
        BY <3>1, <4>1, <4>2
    <3>4. /\ seg[was(k)].seq >= 0 /\ seg[was(k)].seq <= Last + faults + 1
          /\ seg[was(k)].seq <= Last + faults
      <4> HIDE DEF was
      <4> QED
        BY <1>1, <1>8, RotFacts
    <3> QED
      BY <1>8, <3>3, <3>4
  <2>2. \A k \in T : k <= FirstSegs + Last + faults
    BY <1>1, <1>11, RotFacts
  <2> QED
    BY <1>1, <1>7, <1>11, <2>1, <2>2 DEF BoundInv
<1> HIDE DEF was
<1>13. LinesInv'
  <2>1. \A k \in L!Family' : /\ seg'[k].lines # {} /\ seg'[k].lines \subseteq written
                             /\ \A x \in active, l \in seg'[k].lines : x > l
    BY <1>0, <1>8 DEF LinesInv
  <2>2. active \subseteq written /\ active # {}
    BY <1>0, <1>1 DEF LinesInv
  <2> QED
    BY <1>1, <2>1, <2>2 DEF LinesInv
<1>14. ShiftInv' /\ EvictInv'
  <2>1. T \subseteq L!Family'
    BY <1>1, <1>7, <1>11
  <2>2. ASSUME NEW m \in L!Family' \ T
        PROVE  m > 1 /\ \A k \in T : m > k + 1
    <3>1. CASE m = n + 1
      <4>1. \A k \in T : k \in Nat /\ k < n
        BY <1>f, <1>2, <1>3, <1>11
      <4> QED
        BY <1>3, <3>1, <4>1
    <3>2. CASE m # n + 1
      <4>1. m \in L!Family \ todo[p]
        BY <1>7, <3>2 DEF T
      <4> QED
        BY <1>1, <1>11, <4>1
    <3> QED
      BY <3>1, <3>2
  <2> QED
    BY <1>11, <2>1, <2>2 DEF ShiftInv, EvictInv
<1>15. L!NumberedByAge'
  BY <1>0, <1>1, <1>8, <1>9 DEF L!NumberedByAge
<1>16. L!NothingDestroyed'
  <2> SUFFICES ASSUME NEW l \in written
               PROVE  \/ l \in active \/ \E k \in L!Family' : l \in seg'[k].lines
                      \/ L!Cardinality(L!Newer(l)') >= Keep
    BY <1>1 DEF L!NothingDestroyed
  <2>1. CASE l \in active
    BY <2>1
  <2>2. CASE \E k \in L!Family : l \in seg[k].lines
    BY <1>8, <1>10, <2>2
  <2>3. CASE L!Cardinality(L!Newer(l)) >= Keep
    <3> DEFINE N == L!Newer(l)
               M == {k \in L!Family' : \A x \in seg'[k].lines : x > l}
    <3>1. N \subseteq L!Family /\ L!Newer(l)' = M
      BY DEF L!Newer
    <3>2. M = IF n \in N THEN (N \ {n}) \cup {n + 1} ELSE N
      <4>1. ASSUME NEW k \in L!Family, k # n
            PROVE  k \in L!Family' /\ (k \in M <=> k \in N)
        BY <1>f, <1>4, <1>6, <1>7, <4>1 DEF L!Newer
      <4>2. n + 1 \in L!Family' /\ (n + 1 \in M <=> n \in N)
        BY <1>3, <1>6, <1>7 DEF L!Newer
      <4> HIDE DEF M, N
      <4>3. M \subseteq (L!Family \ {n}) \cup {n + 1}
        BY <1>7 DEF M
      <4>4. n + 1 \notin N
        BY <1>4, <3>1
      <4> QED
        BY <3>1, <4>1, <4>2, <4>3, <4>4
    <3> HIDE DEF N, M
    <3>3. IsFiniteSet(N) /\ L!Cardinality(N) \in Nat
      BY <1>f, <3>1, Counted
    <3>4. CASE n \in N
      <4>1. IsFiniteSet(N \ {n}) /\ Cardinality(N \ {n}) = Cardinality(N) - 1
        BY <3>3, <3>4, FS_RemoveElement
      <4>2. n + 1 \notin N \ {n}
        BY <1>4, <3>1
      <4>3. Cardinality((N \ {n}) \cup {n + 1}) = Cardinality(N \ {n}) + 1
        BY <4>1, <4>2, FS_AddElement
      <4>4. Cardinality(M) = Cardinality(N) /\ L!Cardinality(M) = L!Cardinality(N)
        BY <3>2, <3>3, <3>4, <4>1, <4>3, SameCardinality
      <4> QED
        BY <2>3, <3>1, <4>4 DEF N
    <3>5. CASE n \notin N
      BY <2>3, <3>1, <3>2, <3>5 DEF N
    <3> QED
      BY <3>4, <3>5
  <2> QED
    BY <1>0, <2>1, <2>2, <2>3 DEF L!NothingDestroyed
<1> QED
  BY <1>11, <1>12, <1>13, <1>14, <1>15, <1>16 DEF RotInv

\* The active file becomes segment 1, whose place the shift has made free.
LEMMA RotRotateActive ==
  ASSUME NEW p, Appenders = {p}, RotInv, L!RotateActive(p)
  PROVE  RotInv'
<1>0. /\ L!TypeOK /\ BoundInv /\ LinesInv /\ ShiftInv /\ EvictInv
      /\ L!NumberedByAge /\ L!NothingDestroyed
  BY DEF RotInv
<1>f. /\ pc \in [{p} -> {"rest", "list", "shift", "relist", "evict", "fresh", "append"}]
      /\ todo \in [{p} -> SUBSET (1 .. L!MaxSeg)] /\ exists \in BOOLEAN
      /\ seg \in [1 .. L!MaxSeg -> L!Segs] /\ active \in SUBSET L!Lines
      /\ L!MaxSeg = FirstSegs + MaxLines + MaxLogFaults
      /\ MaxLines \in Nat /\ MaxLogFaults \in Nat /\ L!MaxSeg \in Nat /\ FirstSegs \in Nat
      /\ faults \in Nat /\ faults <= MaxLogFaults /\ faults \in 0 .. MaxLogFaults /\ Last \in Nat /\ misread \in BOOLEAN
      /\ L!Family \in SUBSET (1 .. L!MaxSeg) /\ {} \in SUBSET (1 .. L!MaxSeg)
  <2>1. faults \in 0 .. MaxLogFaults
    BY <1>0 DEF L!TypeOK
  <2> QED
    BY <2>1, RotFacts
<1>b. /\ \A n \in L!Family :
           /\ n \in Nat /\ n >= 1 /\ n <= FirstSegs + Last + faults + 1
           /\ seg[n].seq \in Int /\ seg[n].seq >= 0 /\ seg[n].seq <= Last + faults + 1
      /\ pc[p] = "shift" => \A n \in L!Family : seg[n].seq <= Last + faults
  BY RotFacts
<1>1. /\ pc[p] = "shift" /\ todo[p] = {} /\ UNCHANGED <<written, misread, faults>> /\ Last < MaxLines
      /\ \A m \in L!Family : m > 1
      /\ active # {} /\ active \subseteq written
  BY <1>0, RotFacts DEF L!RotateActive, ShiftInv, LinesInv
<1>2. CASE ~ exists
  <2>1. /\ UNCHANGED <<active, exists, seg>>
        /\ pc' = [pc EXCEPT ![p] = "append"] /\ todo' = [todo EXCEPT ![p] = {}]
    BY <1>2 DEF L!RotateActive, L!Abort, L!Goto
  <2> QED
    BY <1>f, <1>b, <1>1, <2>1, RotQuiet
<1>3. CASE exists
  <2> DEFINE first == [lines |-> active, seq |-> 0]
  <2>1. /\ seg' = [seg EXCEPT ![1] = first]
        /\ active' = {} /\ exists' = FALSE /\ pc' = [pc EXCEPT ![p] = "relist"] /\ todo' = todo
    BY <1>3 DEF L!RotateActive, L!Goto
  <2>2. first.lines = active /\ first.seq = 0 /\ first \in L!Segs /\ first # L!Absent
    <3>1. L!Absent.seq = -1
      BY DEF L!Absent
    <3> QED
      BY <1>f, <3>1 DEF L!Segs
  <2> HIDE DEF first
  <2>3. /\ 1 \in 1 .. L!MaxSeg /\ seg'[1] = first
        /\ \A k \in 1 .. L!MaxSeg : k # 1 => seg'[k] = seg[k]
    BY <1>f, <1>1, <2>1
  <2>4. /\ L!Family' = L!Family \cup {1} /\ 1 \notin L!Family
        /\ Last' = Last
    BY <1>1, <2>2, <2>3 DEF L!Family, Last
  <2>5. \A k \in L!Family : seg'[k] = seg[k] /\ k > 1
    BY <1>f, <1>1, <2>3, <2>4
  <2>6. /\ pc'[p] = "relist"
        /\ \A q \in Appenders : pc'[q] = "relist"
    BY <1>f, <2>1
  <2>7. L!TypeOK'
    BY <1>0, <1>1, <2>1, <2>2 DEF L!TypeOK
  <2>8. BoundInv'
    <3>1. /\ 1 <= FirstSegs + Last + faults + 1 /\ first.seq >= 0
          /\ first.seq <= Last + faults /\ first.seq <= Last + faults + 1
      BY <1>f, <2>2
    <3>2. \A n \in L!Family' :
            /\ n <= FirstSegs + Last + faults + 1
            /\ seg'[n].seq >= 0 /\ seg'[n].seq <= Last + faults + 1
            /\ seg'[n].seq <= Last + faults
      BY <1>b, <1>1, <2>3, <2>4, <2>5, <3>1
    <3> QED
      BY <1>1, <2>4, <2>6, <3>2 DEF BoundInv
  <2>9. LinesInv'
    BY <1>0, <1>1, <2>1, <2>2, <2>3, <2>4, <2>5, <2>6 DEF LinesInv
  <2>10. ShiftInv' /\ EvictInv'
    BY <2>6 DEF ShiftInv, EvictInv
  <2>11. L!NumberedByAge'
    <3> SUFFICES ASSUME NEW m \in L!Family', NEW n \in L!Family', m < n
                 PROVE  /\ \A k \in seg'[m].lines, l \in seg'[n].lines : k > l
                        /\ ~misread /\ seg'[m].seq > 0 => seg'[m].seq > seg'[n].seq
      BY <1>1 DEF L!NumberedByAge
    <3>1. n \in L!Family /\ seg'[n] = seg[n]
      BY <1>f, <2>4, <2>5
    <3>2. CASE m = 1
      BY <1>0, <2>2, <2>3, <3>1, <3>2 DEF LinesInv
    <3>3. CASE m # 1
      BY <1>0, <2>4, <2>5, <3>1, <3>3 DEF L!NumberedByAge
    <3> QED
      BY <3>2, <3>3
  <2>12. L!NothingDestroyed'
    <3> SUFFICES ASSUME NEW l \in written
                 PROVE  \/ l \in active' \/ \E k \in L!Family' : l \in seg'[k].lines
                        \/ L!Cardinality(L!Newer(l)') >= Keep
      BY <1>1 DEF L!NothingDestroyed
    <3>1. CASE l \in active
      BY <2>2, <2>3, <2>4, <3>1
    <3>2. CASE \E k \in L!Family : l \in seg[k].lines
      BY <2>4, <2>5, <3>2
    <3>3. CASE L!Cardinality(L!Newer(l)) >= Keep
      <4>1. L!Newer(l) \subseteq L!Newer(l)' /\ L!Newer(l)' \subseteq 1 .. L!MaxSeg
        BY <1>f, <2>3, <2>4, <2>5 DEF L!Newer
      <4>2. /\ L!Cardinality(L!Newer(l)) \in Nat /\ L!Cardinality(L!Newer(l)') \in Nat
            /\ L!Cardinality(L!Newer(l)) <= L!Cardinality(L!Newer(l)')
        BY <4>1, Counted
      <4> QED
        BY <3>3, <4>2, LogConstants
    <3> QED
      BY <1>0, <3>1, <3>2, <3>3 DEF L!NothingDestroyed
  <2> QED
    BY <2>7, <2>8, <2>9, <2>10, <2>11, <2>12 DEF RotInv
<1> QED
  BY <1>2, <1>3

\* A victim goes, with lines that Keep segments are newer than.
LEMMA RotEvict ==
  ASSUME NEW p, Appenders = {p}, RotInv, L!Evict(p)
  PROVE  RotInv'
<1>0. /\ L!TypeOK /\ BoundInv /\ LinesInv /\ ShiftInv /\ EvictInv
      /\ L!NumberedByAge /\ L!NothingDestroyed
  BY DEF RotInv
<1> DEFINE v == L!Min(todo[p])
           T == todo[p] \ {v}
           Below == {k \in L!Family \ todo[p] : k < v}
<1>f. /\ pc \in [{p} -> {"rest", "list", "shift", "relist", "evict", "fresh", "append"}]
      /\ todo \in [{p} -> SUBSET (1 .. L!MaxSeg)]
      /\ seg \in [1 .. L!MaxSeg -> L!Segs] /\ L!Absent \in L!Segs
      /\ L!MaxSeg \in Nat
      /\ L!Family \in SUBSET (1 .. L!MaxSeg) /\ todo[p] \in SUBSET (1 .. L!MaxSeg)
  BY RotFacts
<1>1. /\ pc[p] = "evict" /\ todo[p] # {} /\ todo[p] \subseteq L!Family
      /\ UNCHANGED <<active, exists, written, pc, misread, faults>>
      /\ seg' = [seg EXCEPT ![v] = L!Absent] /\ todo' = [todo EXCEPT ![p] = T]
      /\ \A x \in todo[p] : L!Cardinality({k \in L!Family \ todo[p] : k < x}) >= Keep
  BY <1>0, <1>f DEF L!Evict, EvictInv
<1>2. v \in todo[p] /\ v \in L!Family /\ v \in 1 .. L!MaxSeg
  <2>1. 1 \in Int /\ L!MaxSeg \in Int
    BY <1>f
  <2>2. L!Min(todo[p]) \in todo[p]
    BY <1>f, <1>1, <2>1, MinIs
  <2> QED
    BY <1>f, <1>1, <2>2
<1>3. L!Cardinality(Below) >= Keep
  BY <1>1, <1>2
<1>4. T \subseteq todo[p] /\ todo[p] \ T = {v} /\ v \notin T
  BY <1>2
<1> HIDE DEF v, T
<1>5. seg'[v] = L!Absent /\ \A k \in 1 .. L!MaxSeg : k # v => seg'[k] = seg[k]
  BY <1>f, <1>1, <1>2
<1>6. L!Family' = L!Family \ {v} /\ Last' = Last
  BY <1>1, <1>2, <1>5 DEF L!Family, Last
<1>7. \A k \in L!Family' : k \in L!Family /\ seg'[k] = seg[k]
  BY <1>f, <1>5, <1>6
<1>8. todo'[p] = T /\ pc'[p] = "evict"
  BY <1>f, <1>1
<1>9. L!TypeOK'
  <2>1. T \in SUBSET (1 .. L!MaxSeg)
    BY <1>f, <1>4
  <2>2. seg' \in [1 .. L!MaxSeg -> L!Segs]
    BY <1>f, <1>1
  <2> QED
    BY <1>0, <1>1, <2>1, <2>2 DEF L!TypeOK
<1>10. BoundInv'
  BY <1>0, <1>1, <1>6, <1>7, <1>8 DEF BoundInv
<1>11. LinesInv'
  BY <1>0, <1>1, <1>7, <1>8 DEF LinesInv
<1>12. ShiftInv' /\ EvictInv'
  <2>1. L!Family' \ T = L!Family \ todo[p]
    BY <1>4, <1>6, <1>2
  <2>2. T \subseteq L!Family'
    BY <1>1, <1>4, <1>6
  <2> QED
    BY <1>1, <1>4, <1>8, <2>1, <2>2 DEF ShiftInv, EvictInv
<1>13. L!NumberedByAge'
  BY <1>0, <1>1, <1>7 DEF L!NumberedByAge
<1>14. ASSUME NEW l, \A k \in L!Family : k < v => \A x \in seg[k].lines : x > l
       PROVE  L!Cardinality(L!Newer(l)') >= Keep
  <2>1. Below \subseteq L!Newer(l)'
    <3>1. ASSUME NEW k \in L!Family \ todo[p], k < v
          PROVE  k \in L!Family' /\ \A x \in seg'[k].lines : x > l
      BY <1>2, <1>6, <1>7, <1>14, <3>1
    <3> QED
      BY <3>1 DEF L!Newer
  <2>2. L!Newer(l)' \subseteq 1 .. L!MaxSeg
    BY <1>f, <1>6 DEF L!Newer
  <2>3. /\ L!Cardinality(Below) \in Nat /\ L!Cardinality(L!Newer(l)') \in Nat
        /\ L!Cardinality(Below) <= L!Cardinality(L!Newer(l)')
    <3> HIDE DEF Below
    <3> QED
      BY <2>1, <2>2, Counted
  <2> QED
    BY <1>3, <2>3, LogConstants
<1>15. L!NothingDestroyed'
  <2> SUFFICES ASSUME NEW l \in written
               PROVE  \/ l \in active \/ \E k \in L!Family' : l \in seg'[k].lines
                      \/ L!Cardinality(L!Newer(l)') >= Keep
    BY <1>1 DEF L!NothingDestroyed
  <2>1. CASE l \in active
    BY <2>1
  <2>2. CASE \E k \in L!Family : l \in seg[k].lines
    <3>1. PICK k \in L!Family : l \in seg[k].lines
      BY <2>2
    <3>2. CASE k = v
      <4>1. \A m \in L!Family : m < v => \A x \in seg[m].lines : x > l
        BY <1>0, <1>2, <3>1, <3>2 DEF L!NumberedByAge
      <4> QED
        BY <1>14, <4>1
    <3>3. CASE k # v
      BY <1>6, <1>7, <3>1, <3>3
    <3> QED
      BY <3>2, <3>3
  <2>3. CASE L!Cardinality(L!Newer(l)) >= Keep
    <3>1. CASE v \in L!Newer(l)
      <4>1. PICK y \in seg[v].lines : y > l
        BY <1>0, <1>2, <3>1 DEF LinesInv, L!Newer
      <4>2. ASSUME NEW m \in L!Family, m < v, NEW x \in seg[m].lines
            PROVE  x > l
        <5>1. x > y
          BY <1>0, <1>2, <4>1, <4>2 DEF L!NumberedByAge
        <5>2. x \in L!Lines /\ y \in L!Lines /\ l \in L!Lines
          BY <1>0, <1>2, <4>1, <4>2 DEF LinesInv, L!TypeOK
        <5>3. x \in Int /\ y \in Int /\ l \in Int
          BY <5>2, LogConstants DEF L!Lines
        <5> QED
          BY <4>1, <5>1, <5>3
      <4> QED
        BY <1>14, <4>2
    <3>2. CASE v \notin L!Newer(l)
      <4>1. L!Newer(l) = L!Newer(l)'
        BY <1>6, <1>7, <3>2 DEF L!Newer
      <4> QED
        BY <2>3, <4>1
    <3> QED
      BY <3>1, <3>2
  <2> QED
    BY <1>0, <2>1, <2>2, <2>3 DEF L!NothingDestroyed
<1> QED
  BY <1>9, <1>10, <1>11, <1>12, <1>13, <1>15 DEF RotInv

\* A stamp marks segment 1 higher than any other whose marker was read; a marker that
\* was not read leaves a misread.
LEMMA RotStamp ==
  ASSUME NEW p, Appenders = {p}, RotInv, L!Stamp(p)
  PROVE  RotInv'
<1>0. /\ L!TypeOK /\ BoundInv /\ LinesInv /\ ShiftInv /\ EvictInv
      /\ L!NumberedByAge /\ L!NothingDestroyed
  BY DEF RotInv
<1>f. /\ pc \in [{p} -> {"rest", "list", "shift", "relist", "evict", "fresh", "append"}]
      /\ todo \in [{p} -> SUBSET (1 .. L!MaxSeg)] /\ exists \in BOOLEAN
      /\ seg \in [1 .. L!MaxSeg -> L!Segs] /\ L!Absent \in L!Segs
      /\ L!MaxSeg = FirstSegs + MaxLines + MaxLogFaults
      /\ MaxLines \in Nat /\ MaxLogFaults \in Nat /\ L!MaxSeg \in Nat /\ FirstSegs \in Nat
      /\ faults \in Nat /\ faults <= MaxLogFaults /\ faults \in 0 .. MaxLogFaults
      /\ Last \in Nat /\ L!Family \in SUBSET (1 .. L!MaxSeg) /\ misread \in BOOLEAN
      /\ {} \in SUBSET (1 .. L!MaxSeg) /\ todo[p] \in SUBSET (1 .. L!MaxSeg)
  <2>1. faults \in 0 .. MaxLogFaults
    BY <1>0 DEF L!TypeOK
  <2> QED
    BY <2>1, RotFacts
<1>1. /\ pc[p] = "evict" /\ todo[p] = {} /\ UNCHANGED <<active, exists, written, todo>>
      /\ pc' = [pc EXCEPT ![p] = "fresh"] /\ Last < MaxLines
  BY RotFacts DEF L!Stamp, L!Goto
<1>b. \A n \in L!Family :
        /\ n \in Nat /\ n >= 1 /\ n <= FirstSegs + Last + faults + 1
        /\ seg[n].seq \in Int /\ seg[n].seq >= 0 /\ seg[n].seq <= Last + faults
        /\ seg[n].seq <= Last + faults + 1
  BY <1>1, RotFacts
<1>2. PICK read \in SUBSET L!Family :
        /\ seg' = seg \/ seg' = L!Stamped(read)
        /\ faults' = faults \/ L!Fault
        /\ misread' = misread \/ misread' = TRUE
        /\ read # L!Family => misread'
  BY <1>f DEF L!Stamp
<1>3. /\ faults' \in 0 .. MaxLogFaults /\ faults' \in Nat /\ faults <= faults'
      /\ misread' \in BOOLEAN /\ (misread => misread')
  <2>1. faults' = faults \/ (faults < MaxLogFaults /\ faults' = faults + 1)
    BY <1>2 DEF L!Fault
  <2>2. misread' \in BOOLEAN /\ (misread => misread')
    <3>1. misread \in BOOLEAN
      BY <1>f
    <3>2. CASE misread' = misread
      BY <3>1, <3>2, Zenon
    <3>3. CASE misread' = TRUE
      BY <3>3, Zenon
    <3> QED
      BY <1>2, <3>2, <3>3
  <2>3. faults' \in Nat /\ faults' <= MaxLogFaults /\ faults <= faults'
    BY <1>f, <2>1
  <2> QED
    BY <1>f, <2>2, <2>3
<1>4. CASE seg' = seg
  <2>n. FirstSegs \in Nat /\ Last \in Nat /\ faults \in Nat /\ MaxLogFaults \in Nat
    BY <1>f
  <2>0. faults' \in Nat /\ faults <= faults'
    BY <1>3
  <2>1. ASSUME NEW n \in L!Family
        PROVE  n <= FirstSegs + Last + faults' + 1 /\ seg[n].seq <= Last + faults' + 1
    <3>1. n \in Nat /\ n <= FirstSegs + Last + faults + 1
      BY <1>b
    <3>2. seg[n].seq \in Int /\ seg[n].seq <= Last + faults + 1
      BY <1>b
    <3>3. seg[n].seq <= Last + faults' + 1
      BY <2>n, <2>0, <3>2
    <3>4. n <= FirstSegs + Last + faults' + 1
      <4>1. \A a, b, c, d, x \in Nat : x <= a + b + c + 1 /\ c <= d => x <= a + b + d + 1
        OBVIOUS
      <4> QED
        BY <2>n, <2>0, <3>1, <4>1
    <3> QED
      BY <3>3, <3>4
  <2>2. todo' = [todo EXCEPT ![p] = {}]
    BY <1>f, <1>1
  <2> QED
    BY <1>f, <1>1, <1>4, <1>3, <2>1, <2>2, RotQuiet
<1>5. CASE seg[1] # L!Absent /\ seg' = [seg EXCEPT ![1].seq = L!NextSeq(read)]
  <2> DEFINE Z == {0} \cup {seg[n].seq : n \in read}
             s == L!NextSeq(read)
  <2>1. 1 \in 1 .. L!MaxSeg /\ 1 \in L!Family
    BY <1>f, <1>1, <1>5 DEF L!Family
  <2>2. s \in Nat /\ s >= 1 /\ s <= Last + faults + 1 /\ \A n \in read : s > seg[n].seq
    <3>1. Z \in SUBSET (0 .. (Last + faults)) /\ Z # {}
      <4>1. \A n \in read : seg[n].seq \in 0 .. (Last + faults)
        BY <1>f, <1>b
      <4>2. 0 \in 0 .. (Last + faults)
        BY <1>f
      <4> QED
        BY <4>1, <4>2
    <3>2. 0 \in Int /\ Last + faults \in Int
      BY <1>f
    <3>3. L!Max(Z) \in Z /\ \A z \in Z : z <= L!Max(Z)
      <4> HIDE DEF Z
      <4> QED
        BY <3>1, <3>2, MaxIs
    <3>4. s = L!Max(Z) + 1
      BY DEF L!NextSeq
    <3> HIDE DEF s
    <3>5. L!Max(Z) \in Nat /\ L!Max(Z) <= Last + faults /\ \A n \in read : seg[n].seq <= L!Max(Z)
      <4>1. L!Max(Z) \in 0 .. (Last + faults)
        BY <3>1, <3>3
      <4>2. \A n \in read : seg[n].seq <= L!Max(Z)
        BY <3>3
      <4> QED
        BY <1>f, <4>1, <4>2
    <3> HIDE DEF Z
    <3> QED
      BY <1>f, <1>b, <3>4, <3>5
  <2> HIDE DEF s
  <2>3. /\ seg'[1].lines = seg[1].lines /\ seg'[1].seq = s /\ seg'[1] \in L!Segs
        /\ \A k \in 1 .. L!MaxSeg : k # 1 => seg'[k] = seg[k]
        /\ seg' \in [1 .. L!MaxSeg -> L!Segs]
    <3>1. seg[1] \in [lines : SUBSET L!Lines, seq : -1 .. L!MaxSeg]
      BY <1>f, <2>1 DEF L!Segs
    <3>2. s \in -1 .. L!MaxSeg
      BY <1>f, <1>1, <2>2
    <3>3. seg' = [seg EXCEPT ![1] = [seg[1] EXCEPT !.seq = s]]
      BY <1>5 DEF s
    <3>4. [seg[1] EXCEPT !.seq = s] = [lines |-> seg[1].lines, seq |-> s]
      BY <3>1
    <3>5. [lines |-> seg[1].lines, seq |-> s] \in L!Segs
      BY <3>1, <3>2 DEF L!Segs
    <3>6. seg'[1] = [lines |-> seg[1].lines, seq |-> s]
      BY <1>f, <2>1, <3>3, <3>4
    <3> QED
      BY <1>f, <2>1, <3>3, <3>4, <3>5, <3>6
  <2>4. L!Family' = L!Family /\ Last' = Last
    <3>1. seg'[1] # L!Absent
      BY <2>2, <2>3 DEF L!Absent
    <3> QED
      BY <1>1, <1>5, <2>1, <2>3, <3>1 DEF L!Family, Last
  <2>5. \A k \in L!Family : seg'[k].lines = seg[k].lines /\ (k # 1 => seg'[k] = seg[k])
    BY <1>f, <2>3
  <2>6. pc'[p] = "fresh" /\ todo'[p] = {}
    BY <1>f, <1>1
  <2>7. L!TypeOK'
    BY <1>0, <1>1, <1>3, <2>3 DEF L!TypeOK
  <2>8. BoundInv'
    <3>1. \A n \in L!Family' : /\ n \in Nat /\ n <= FirstSegs + Last + faults + 1
                               /\ seg'[n].seq \in Int
                               /\ seg'[n].seq >= 0 /\ seg'[n].seq <= Last + faults + 1
      BY <1>b, <2>2, <2>3, <2>4, <2>5
    <3>2. /\ FirstSegs \in Nat /\ Last \in Nat /\ faults \in Nat /\ faults' \in Nat
          /\ faults <= faults'
      BY <1>f, <1>3
    <3>3. \A a, b, c, d, x \in Nat : x <= a + b + c + 1 /\ c <= d => x <= a + b + d + 1
      OBVIOUS
    <3>4. \A b, c, d \in Nat, x \in Int : x <= b + c + 1 /\ c <= d => x <= b + d + 1
      OBVIOUS
    <3>5. \A n \in L!Family' : /\ n <= FirstSegs + Last + faults' + 1
                               /\ seg'[n].seq >= 0 /\ seg'[n].seq <= Last + faults' + 1
      BY <3>1, <3>2, <3>3, <3>4
    <3> QED
      BY <1>1, <1>5, <2>4, <2>6, <3>5 DEF BoundInv
  <2>9. LinesInv'
    BY <1>0, <1>1, <2>4, <2>5, <2>6 DEF LinesInv
  <2>10. ShiftInv' /\ EvictInv'
    BY <2>6 DEF ShiftInv, EvictInv
  <2>11. L!NumberedByAge'
    <3> SUFFICES ASSUME NEW m \in L!Family, NEW n \in L!Family, m < n
                 PROVE  /\ \A k \in seg'[m].lines, l \in seg'[n].lines : k > l
                        /\ ~misread' /\ seg'[m].seq > 0 => seg'[m].seq > seg'[n].seq
      BY <2>4 DEF L!NumberedByAge
    <3>1. n # 1 /\ seg'[n] = seg[n]
      BY <1>b, <2>5
    <3>2. ~misread' /\ seg'[m].seq > 0 => seg'[m].seq > seg[n].seq
      <4>1. ~misread' => ~misread /\ read = L!Family
        BY <1>2, <1>3
      <4>2. CASE m = 1
        BY <2>2, <2>3, <4>1, <4>2
      <4>3. CASE m # 1
        BY <1>0, <2>5, <4>1, <4>3 DEF L!NumberedByAge
      <4> QED
        BY <4>2, <4>3
    <3> QED
      BY <1>0, <2>5, <3>1, <3>2 DEF L!NumberedByAge
  <2>12. L!NothingDestroyed'
    <3>1. \A l : L!Newer(l)' = L!Newer(l)
      BY <2>4, <2>5 DEF L!Newer
    <3> QED
      BY <1>0, <1>1, <2>4, <2>5, <3>1 DEF L!NothingDestroyed
  <2> QED
    BY <2>7, <2>8, <2>9, <2>10, <2>11, <2>12 DEF RotInv
<1> QED
  BY <1>4, <1>5, <1>2 DEF L!Stamped

\* A line is appended, newer than all.
LEMMA RotAppend ==
  ASSUME NEW p, Appenders = {p}, RotInv, L!Append(p)
  PROVE  RotInv'
<1>0. /\ L!TypeOK /\ BoundInv /\ LinesInv /\ ShiftInv /\ EvictInv
      /\ L!NumberedByAge /\ L!NothingDestroyed
  BY DEF RotInv
<1>f. /\ pc \in [{p} -> {"rest", "list", "shift", "relist", "evict", "fresh", "append"}]
      /\ MaxLines \in Nat /\ FirstSegs \in Nat /\ faults \in Nat /\ Last \in Nat
  BY RotFacts
<1> DEFINE line == Last + 1
<1>1. /\ pc[p] = "append" /\ pc' = [pc EXCEPT ![p] = "rest"]
      /\ UNCHANGED <<seg, todo, misread, faults>> /\ exists' = TRUE
      /\ active' = active \cup {line} /\ written' = written \cup {line}
      /\ Last < MaxLines
  BY RotFacts DEF L!Append, L!Goto, Last
<1>2. line \in L!Lines /\ written' \subseteq L!Lines /\ active' \subseteq L!Lines
  <2>1. line \in 1 .. MaxLines
    BY <1>f, <1>1
  <2>2. line \in L!Lines
    BY <2>1 DEF L!Lines
  <2> HIDE DEF line
  <2> QED
    BY <1>0, <1>1, <2>2 DEF L!TypeOK
<1>3. \A l \in written : l \in Int /\ l < line
  <2>1. \A l \in written : l <= Last
    BY <1>0, LastIs DEF L!TypeOK
  <2>2. \A l \in written : l \in Int
    BY <1>0, LogConstants DEF L!TypeOK, L!Lines
  <2> QED
    BY <1>f, <2>1, <2>2
<1>4. Last' = line
  <2>1. Last' \in 0 .. MaxLines /\ Last' \in {0} \cup written' /\ \A l \in written' : l <= Last'
    <3>1. Last' = L!Max({0} \cup written')
      BY DEF Last
    <3> DEFINE Z == {0} \cup written'
    <3>2. Z \in SUBSET ((-FirstSegs) .. MaxLines) /\ Z # {}
      <4> HIDE DEF line
      <4> QED
        BY <1>2, LogConstants DEF L!Lines
    <3>3. -FirstSegs \in Int /\ MaxLines \in Int
      BY <1>f
    <3>4. L!Max(Z) \in Z /\ \A y \in Z : y <= L!Max(Z)
      <4> HIDE DEF Z
      <4> QED
        BY <3>2, <3>3, MaxIs
    <3> QED
      BY <1>f, <3>1, <3>2, <3>4
  <2> QED
    BY <1>f, <1>1, <1>3, <2>1
<1>5. L!Family' = L!Family /\ pc'[p] = "rest"
  BY <1>f, <1>1 DEF L!Family
<1>6. L!TypeOK'
  BY <1>0, <1>1, <1>2 DEF L!TypeOK
<1>7. BoundInv'
  <2>1. \A n \in L!Family : /\ n <= FirstSegs + Last + faults + 1
                            /\ seg[n].seq >= 0 /\ seg[n].seq <= Last + faults + 1
                            /\ n \in Nat /\ seg[n].seq \in Int
    BY RotFacts
  <2>2. \A n \in L!Family : /\ n <= FirstSegs + line + faults /\ n <= FirstSegs + line + faults + 1
                            /\ seg[n].seq >= 0
                            /\ seg[n].seq <= line + faults /\ seg[n].seq <= line + faults + 1
    BY <1>f, <2>1
  <2> HIDE DEF line
  <2> QED
    BY <1>1, <1>4, <1>5, <2>2 DEF BoundInv
<1> HIDE DEF line
<1>8. LinesInv'
  BY <1>0, <1>1, <1>3, <1>5 DEF LinesInv
<1>9. ShiftInv' /\ EvictInv'
  BY <1>5 DEF ShiftInv, EvictInv
<1>10. L!NumberedByAge'
  BY <1>0, <1>1, <1>5 DEF L!NumberedByAge
<1>11. L!NothingDestroyed'
  <2>1. \A l : L!Newer(l)' = L!Newer(l)
    BY <1>1, <1>5 DEF L!Newer
  <2> QED
    BY <1>0, <1>1, <1>5, <2>1 DEF L!NothingDestroyed
<1> QED
  BY <1>6, <1>7, <1>8, <1>9, <1>10, <1>11 DEF RotInv

LEMMA RotKeeps ==
  ASSUME OneAppender, RotInv, L!Next
  PROVE  RotInv'
<1>1. PICK p : Appenders = {p}
  BY DEF OneAppender
<1>2. L!Step(p)
  BY <1>1 DEF L!Next
<1> QED
  BY <1>1, <1>2, RotQuietSteps, RotShift, RotRotateActive, RotEvict, RotStamp, RotAppend DEF L!Step

--------------------------------------------------------------------------------
(* The parts side by side: a behaviour stays in the part it begins in, and *)
(* the invariant of that part holds.                                       *)

\* Reservations and acknowledgements keep their invariant.
THEOREM ReserveHolds == Spec => [](part = "reserve" => ReserveInv)
<1>1. Init => (part = "reserve" => ReserveInv)
  BY ReserveInit DEF Init
<1>2. (part = "reserve" => ReserveInv) /\ [Next]_vars => (part = "reserve" => ReserveInv)'
  <2> SUFFICES ASSUME part = "reserve" => ReserveInv, [Next]_vars, part' = "reserve"
               PROVE  ReserveInv'
    OBVIOUS
  <2>1. CASE ReserveNext
    BY <2>1, ReserveKeeps DEF ReserveNext
  <2>2. CASE UNCHANGED vars
    BY <2>2, ReserveStutter DEF vars, reserveVars, R!vars, R!recorded, R!told
  <2>3. ~ SnapshotNext /\ ~ RotateNext /\ ~ QueueNext
    BY DEF SnapshotNext, RotateNext, QueueNext
  <2> QED
    BY <2>1, <2>2, <2>3 DEF Next
<1> QED
  BY <1>1, <1>2, PTL DEF Spec

\* The correction queue and its lock keep their invariant.
THEOREM QueueHolds == Spec => [](part = "queue" => QueueInv)
<1>1. Init => (part = "queue" => QueueInv)
  BY QueueInit DEF Init
<1>2. (part = "queue" => QueueInv) /\ [Next]_vars => (part = "queue" => QueueInv)'
  <2> SUFFICES ASSUME part = "queue" => QueueInv, [Next]_vars, part' = "queue"
               PROVE  QueueInv'
    OBVIOUS
  <2>1. CASE QueueNext
    BY <2>1, QueueKeeps DEF QueueNext
  <2>2. CASE UNCHANGED vars
    BY <2>2, QueueStutter DEF vars, queueVars, Q!vars
  <2>3. ~ SnapshotNext /\ ~ RotateNext /\ ~ ReserveNext
    BY DEF SnapshotNext, RotateNext, ReserveNext
  <2> QED
    BY <2>1, <2>2, <2>3 DEF Next
<1> QED
  BY <1>1, <1>2, PTL DEF Spec

\* The snapshot pair keeps its invariant, for any number of processes that refresh it.
THEOREM SnapshotHolds == Spec => [](part = "snapshot" => SnapInv)
<1>1. Init => (part = "snapshot" => SnapInv)
  BY SnapInit DEF Init
<1>2. (part = "snapshot" => SnapInv) /\ [Next]_vars => (part = "snapshot" => SnapInv)'
  <2> SUFFICES ASSUME part = "snapshot" => SnapInv, [Next]_vars, part' = "snapshot"
               PROVE  SnapInv'
    OBVIOUS
  <2>1. CASE SnapshotNext
    BY <2>1, SnapKeeps DEF SnapshotNext
  <2>2. CASE UNCHANGED vars
    BY <2>2, SnapStutter DEF vars, snapshotVars, S!vars, S!files
  <2>3. ~ QueueNext /\ ~ RotateNext /\ ~ ReserveNext
    BY DEF QueueNext, RotateNext, ReserveNext
  <2> QED
    BY <2>1, <2>2, <2>3 DEF Next
<1> QED
  BY <1>1, <1>2, PTL DEF Spec

\* The rotated log keeps its invariant, with one process that appends.
THEOREM RotateHolds ==
  ASSUME OneAppender
  PROVE  Spec => [](part = "rotate" => RotInv)
<1>1. Init => (part = "rotate" => RotInv)
  BY RotInit DEF Init
<1>2. (part = "rotate" => RotInv) /\ [Next]_vars => (part = "rotate" => RotInv)'
  <2> SUFFICES ASSUME part = "rotate" => RotInv, [Next]_vars, part' = "rotate"
               PROVE  RotInv'
    OBVIOUS
  <2>1. CASE RotateNext
    BY <2>1, RotKeeps DEF RotateNext
  <2>2. CASE UNCHANGED vars
    BY <2>2, RotStutter DEF vars, rotateVars, L!vars
  <2>3. ~ SnapshotNext /\ ~ QueueNext /\ ~ ReserveNext
    BY DEF SnapshotNext, QueueNext, ReserveNext
  <2> QED
    BY <2>1, <2>2, <2>3 DEF Next
<1> QED
  BY <1>1, <1>2, PTL DEF Spec

--------------------------------------------------------------------------------
(* What the runs check.                                                    *)

\* A row is answered as committed by at most one acknowledgement, counted per answer,
\* unless its ledger segment could not be written or it was admitted without the lock,
\* whatever acknowledgements race, are repeated, or are killed between the ledger and
\* the sidecar (mcp_server.py, memory_recall_ack).
THEOREM RowsCommittedOnce == Spec => []CommittedOnce
<1>1. (part = "reserve" => ReserveInv) => CommittedOnce
  BY DEF ReserveInv, AdmittedInv, OnceOnly, CommittedOnce, R!CommittedOnce
<1> QED
  BY <1>1, ReserveHolds, PTL

\* What an acknowledgement tells its client was delivered is in the ledger, or was
\* admitted and could not be published, whatever the sidecars have become.
THEOREM AnswersAreDelivered == Spec => []ToldIsDelivered
<1>1. (part = "reserve" => ReserveInv) => ToldIsDelivered
  BY DEF ReserveInv, DeliveredInv, Delivered, ToldIsDelivered, R!ToldIsDelivered
<1> QED
  BY <1>1, ReserveHolds, PTL

\* A capture that was queued stays until the queue is full or it is cleared, for any
\* number of hooks behind the lock file, as long as none of them is killed or outlasts
\* the lock, and no unlocked writer replaces a queue it has not loaded
\* (capture_correction.py, append_to_queue).
THEOREM NoCaptureLost == Spec => []CapturesKept
<1>1. (part = "queue" => QueueInv) => CapturesKept
  BY DEF QueueInv, Calm, LoadedInv, CapturesKept, Q!CapturesKept
<1> QED
  BY <1>1, QueueHolds, PTL

\* What is served offline is whole and at least as new as the label read before it,
\* whatever refresh, failure or kill comes between, for any number of readers and of
\* processes that refresh, until two of them were building at once (snapshot.py, _load
\* and build_snapshot).
THEOREM LabelsAreHonest == Spec => []LabelHonest
<1>1. (part = "snapshot" => SnapInv) => LabelHonest
  BY SnapSafe DEF LabelHonest
<1> QED
  BY <1>1, SnapshotHolds, PTL

\* A refresh that fails, at whatever step, leaves a pair to serve when there was one
\* until two refreshes were building at once (snapshot.py, build_snapshot).
THEOREM FailuresKeepThePair == Spec => []FailureKeepsPair
<1>1. (part = "snapshot" => SnapInv) => FailureKeepsPair
  BY SnapSafe DEF FailureKeepsPair
<1> QED
  BY <1>1, SnapshotHolds, PTL

\* No line of a log is lost to a rotation that fails at any call or is killed at any
\* step, but by the eviction of a segment that Keep newer ones stand below
\* (log_rotate.py, rotate_on_append).
THEOREM NoLineDestroyed ==
  ASSUME OneAppender
  PROVE  Spec => []NothingDestroyed
<1>1. (part = "rotate" => RotInv) => NothingDestroyed
  BY DEF RotInv, NothingDestroyed
<1> QED
  BY <1>1, RotateHolds, PTL

\* The higher its number the older a segment's lines, and the lower its marker as long
\* as every scan of the markers read them all (log_rotate.py, rotate_on_append and
\* _stamp_segment).
THEOREM SegmentsAreByAge ==
  ASSUME OneAppender
  PROVE  Spec => []NumberedByAge
<1>1. (part = "rotate" => RotInv) => NumberedByAge
  BY DEF RotInv, NumberedByAge
<1> QED
  BY <1>1, RotateHolds, PTL

\* The state of every part keeps its type.
THEOREM TypesHold ==
  ASSUME OneAppender
  PROVE  Spec => []TypeOK
<1>1. /\ part = "reserve" => ReserveInv
      /\ part = "queue" => QueueInv
      /\ part = "snapshot" => SnapInv
      /\ part = "rotate" => RotInv
      => TypeOK
  BY DEF ReserveInv, QueueInv, SnapInv, RotInv, TypeOK
<1> QED
  BY <1>1, ReserveHolds, QueueHolds, SnapshotHolds, RotateHolds, PTL

================================================================================
