----------------------------- MODULE MCFleetFlush ------------------------------
(* Two brokers flush the queue of one hook: an add and an op that depends on it.*)
EXTENDS FleetFlush, TLC

CONSTANTS o1, o2, w1, b1, b2, s1, global, alpha

Op(kind, text, via, dep) ==
  [kind |-> kind, ns |-> None, text |-> text, expiry |-> None,
   id |-> None, via |-> via, dep |-> dep]

MCKeyOf == [o \in Ops |-> None]
MCCmds == (o1 :> {Op("add", alpha, None, None)})
       @@ (o2 :> {Op("supersede", None, o1, o1)})
MCPrincipals == {[known |-> TRUE, mutate |-> TRUE, scope |-> {global}]}
MCNear == alpha :> {alpha}
MCSeedRows == s1 :> [ns |-> global, text |-> alpha, expiry |-> None]
NoSeeds == <<>>
MCSymmetry == Permutations({b1, b2})
================================================================================
