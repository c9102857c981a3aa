------------------------------ MODULE MCFleetLive ------------------------------
(* A backlog longer than one hub call, flushed by the moments of one machine.  *)
EXTENDS FleetFlush, TLC

CONSTANTS o1, o2, o3, w1, b1, global, alpha, beta

Add(ns, text) ==
  [kind |-> "add", ns |-> ns, text |-> text, expiry |-> None,
   id |-> None, via |-> None, dep |-> None]

MCKeyOf == [o \in Ops |-> None]
MCCmds == [o \in Ops |-> {Add(None, alpha)}]
MCSplitCmds == [o \in Ops |-> {Add(None, IF o = o1 THEN beta ELSE alpha)}]
MCPrincipals == {[known |-> TRUE, mutate |-> TRUE, scope |-> {global}]}
MCNear == [t \in Texts |-> {t}]
MCSeedRows == <<>>
================================================================================
