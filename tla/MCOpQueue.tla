------------------------------- MODULE MCOpQueue -------------------------------
(* Two hooks and two broker moments over one queue file: a hook replays a     *)
(* captured event under a new op_id while both brokers flush.                 *)
EXTENDS OpQueue, TLC

CONSTANTS o1, o2, o3, w1, w2, b1, b2, k1

MCKeyOf == (o1 :> k1) @@ (o2 :> k1) @@ (o3 :> None)

MCSymmetry == Permutations({w1, w2}) \cup Permutations({b1, b2})
================================================================================
