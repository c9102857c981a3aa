------------------------------ MODULE ExactlyOnce ------------------------------
(***************************************************************************)
(* What the operation queue and the hub promise together, with nothing     *)
(* said of files, locks, calls or transactions.  An op that was accepted   *)
(* takes effect at most once; its owner learns one verdict, which is       *)
(* "committed" or "duplicate" only if it took effect; it may be dropped by *)
(* age, before or after.                                                   *)
(***************************************************************************)
CONSTANTS Ops, Verdicts

VARIABLES
  accepted,     \* ops that were ever durable in the queue
  queued,       \* ops durable in the queue now
  applied,      \* ops that took effect at the hub
  verdict       \* what the queue says of an op

vars == <<accepted, queued, applied, verdict>>

Init ==
  /\ accepted = {} /\ queued = {} /\ applied = {}
  /\ verdict = [o \in Ops |-> "pending"]

Accept(o) ==
  /\ o \notin accepted
  /\ accepted' = accepted \cup {o}
  /\ queued' = queued \cup {o}
  /\ UNCHANGED <<applied, verdict>>

\* The age bound drops ops, whatever is known of them.
Drop(gone) ==
  /\ gone \subseteq queued
  /\ queued' = queued \ gone
  /\ verdict' = [o \in Ops |-> IF o \in gone THEN "pending" ELSE verdict[o]]
  /\ UNCHANGED <<accepted, applied>>

\* A batch takes effect as a whole; an op that was dropped since may be in it.
Apply(ops) ==
  /\ ops \subseteq accepted \ applied
  /\ applied' = applied \cup ops
  /\ UNCHANGED <<accepted, queued, verdict>>

\* Verdicts are learnt once, and a success only of what took effect.
Learn(ops) ==
  /\ ops \subseteq {o \in queued : verdict[o] = "pending"}
  /\ \E v \in [ops -> Verdicts] :
       /\ \A o \in ops : v[o] \in {"committed", "duplicate"} => o \in applied
       /\ verdict' = [o \in Ops |-> IF o \in ops THEN v[o] ELSE verdict[o]]
  /\ UNCHANGED <<accepted, queued, applied>>

Next ==
  \/ \E o \in Ops : Accept(o)
  \/ \E s \in SUBSET Ops : Drop(s) \/ Apply(s) \/ Learn(s)

Spec == Init /\ [][Next]_vars

================================================================================
