------------------------------ MODULE ClientFiles ------------------------------
(***************************************************************************)
(* The client's small file protocols side by side.  They share no file:    *)
(* which of them a behaviour is about is chosen at the start (part), the   *)
(* variables of the others stay as they are.                               *)
(***************************************************************************)
EXTENDS Naturals

CONSTANTS
  Brokers, Refreshers, MaxRev, MaxOutages, MaxFails,     \* Snapshot
  Appenders, LogCap, Keep, FirstSegs, MaxLines, MaxLogFaults, \* LogRotate
  Hooks, Writers, Keys, MaxQueue, MaxCalls, MaxSlow,     \* CorrectionQueue
  Reservers, Ackers, Rows, Cap, MaxIds, MaxAcks, MaxFaults,   \* Reservations
  MaxKills                                               \* Snapshot, CorrectionQueue

ASSUME SnapshotConstants ==
  /\ Refreshers \subseteq Brokers
  /\ MaxRev \in Nat /\ MaxOutages \in Nat /\ MaxFails \in Nat /\ MaxKills \in Nat
ASSUME LogConstants ==
  /\ LogCap \in Nat /\ Keep \in Nat \ {0}
  /\ FirstSegs \in Nat /\ MaxLines \in Nat \ {0} /\ MaxLogFaults \in Nat
ASSUME QueueConstants ==
  /\ Hooks \cap Writers = {} /\ "none" \notin Hooks \cup Writers \cup Keys
  /\ MaxQueue \in Nat \ {0} /\ MaxCalls \in Nat /\ MaxSlow \in Nat
ASSUME ReservationConstants == MaxIds \in Nat /\ MaxAcks \in Nat /\ MaxFaults \in Nat

VARIABLES part, pc, faults, kills,
          hub, snap, prev, tmp, scratch, meta, stamp, marker, payload, label, fails, crossed,
          active, exists, seg, written, todo, misread,
          queue, lock, holder, key, loaded, owed, clobbered, calls, slow,
          ledger, unpublished, bare, file, expired, minted, id, held, listed, admitted,
          answers, commits, acks

S == INSTANCE Snapshot
L == INSTANCE LogRotate WITH Cap <- LogCap, MaxFaults <- MaxLogFaults
Q == INSTANCE CorrectionQueue
R == INSTANCE Reservations

snapshotVars == <<hub, snap, prev, tmp, scratch, meta, stamp, marker, payload, label, fails, crossed>>
rotateVars   == <<active, exists, seg, written, todo, misread>>
queueVars    == <<queue, lock, holder, key, loaded, owed, clobbered, calls, slow>>
reserveVars  == <<ledger, unpublished, bare, file, expired, minted, id, held, listed, admitted,
                  answers, commits, acks>>
vars == <<part, pc, faults, kills, snapshotVars, rotateVars, queueVars, reserveVars>>

NoSnapshot == /\ hub = 0 /\ snap = 0 /\ prev = 0 /\ tmp = 0 /\ scratch = 0
              /\ meta = S!NoMeta /\ stamp = FALSE /\ marker = 0 /\ payload = 0 /\ label = 0 /\ fails = 0 /\ crossed = 0
NoRotate   == active = 0 /\ exists = 0 /\ seg = 0 /\ written = 0 /\ todo = 0 /\ misread = 0
NoQueue    == /\ queue = 0 /\ lock = 0 /\ holder = 0 /\ key = 0 /\ loaded = 0 /\ owed = 0
              /\ clobbered = 0 /\ calls = 0 /\ slow = 0
NoReserve  == /\ ledger = 0 /\ unpublished = 0 /\ bare = 0 /\ commits = 0 /\ file = 0 /\ expired = 0 /\ minted = 0 /\ id = 0 /\ held = 0
              /\ listed = 0 /\ admitted = 0 /\ answers = 0 /\ acks = 0

Init == \/ part = "snapshot" /\ S!Init /\ faults = 0 /\ NoRotate /\ NoQueue /\ NoReserve
        \/ part = "rotate"   /\ L!Init /\ kills = 0 /\ NoSnapshot /\ NoQueue /\ NoReserve
        \/ part = "queue"    /\ Q!Init /\ faults = 0 /\ NoSnapshot /\ NoRotate /\ NoReserve
        \/ part = "reserve"  /\ R!Init /\ kills = 0 /\ NoSnapshot /\ NoRotate /\ NoQueue

SnapshotNext == part = "snapshot" /\ S!Next /\ UNCHANGED <<part, faults, rotateVars, queueVars, reserveVars>>
RotateNext   == part = "rotate" /\ L!Next /\ UNCHANGED <<part, kills, snapshotVars, queueVars, reserveVars>>
QueueNext    == part = "queue" /\ Q!Next /\ UNCHANGED <<part, faults, snapshotVars, rotateVars, reserveVars>>
ReserveNext  == part = "reserve" /\ R!Next /\ UNCHANGED <<part, kills, snapshotVars, rotateVars, queueVars>>

Next == SnapshotNext \/ RotateNext \/ QueueNext \/ ReserveNext
Spec == Init /\ [][Next]_vars

\* Fairness as in module Snapshot, the one part with a liveness property.
FairSpec == /\ Spec
            /\ WF_(S!vars)(part = "snapshot" /\ S!HubBack)
            /\ WF_(S!vars)(part = "snapshot" /\ S!Age)
            /\ WF_(S!vars)(part = "snapshot" /\ S!AgeMarker)
            /\ \A p \in Brokers : WF_(S!vars)(part = "snapshot" /\ S!Moment(p))

-----------------------------------------------------------------------------
\* The type invariants of the four modules.
TypeOK == /\ part = "snapshot" => S!TypeOK
          /\ part = "rotate" => L!TypeOK
          /\ part = "queue" => Q!TypeOK
          /\ part = "reserve" => R!TypeOK

\* Snapshot: what is served offline is at least as new as its label says.
LabelHonest == part = "snapshot" => S!LabelHonest
\* Snapshot: a refresh that fails leaves a pair, unless two of them crossed.
FailureKeepsPair == part = "snapshot" => S!FailureKeepsPair
\* Snapshot: with the hub back, the stamp is cleared and the pair there, for ever again,
\* unless two refreshes crossed.
Recovers == []<>(part = "snapshot" => crossed \/ S!Recovered)
\* LogRotate: no line is lost by a rotation that fails or is killed.
NothingDestroyed == part = "rotate" => L!NothingDestroyed
\* LogRotate: segments and their markers are numbered by age.
NumberedByAge == part = "rotate" => L!NumberedByAge
\* CorrectionQueue: a capture is not lost to another capture.
CapturesKept == part = "queue" => Q!CapturesKept
\* Reservations: no row is answered as committed twice.
CommittedOnce == part = "reserve" => R!CommittedOnce
\* Reservations: what an acknowledgement reports is delivered.
ToldIsDelivered == part = "reserve" => R!ToldIsDelivered

================================================================================
