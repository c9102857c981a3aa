------------------------------ MODULE MCHostLock -------------------------------
(***************************************************************************)
(* Two processes and three lock files: one at the path, one held aside by  *)
(* a breaker, and one for whoever takes the path in between.               *)
(***************************************************************************)
EXTENDS HostLock, TLC

CONSTANTS p1, p2, i1, i2, i3

ProcsPair == {p1, p2}
InstancesSmall == {i1, i2, i3}
================================================================================
