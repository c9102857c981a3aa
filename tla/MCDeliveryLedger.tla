---------------------------- MODULE MCDeliveryLedger ---------------------------
(* Small instances of DeliveryLedger.                                        *)
EXTENDS DeliveryLedger, TLC

CONSTANTS r1, r2, c1, i1, s1, s2, s3

Sym == Permutations(Segs) \cup Permutations(Recorders)
================================================================================
