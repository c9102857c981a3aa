----------------------------- MODULE MCClientFiles -----------------------------
(* Small instances of the client's file protocols.                           *)
EXTENDS ClientFiles

CONSTANTS h1, h2, w1, k1, k2, k3, r1

\* What is promised of the snapshot ends where two refreshes cross, and they stay
\* crossed: a behaviour need not be followed beyond that.
Uncrossed == part = "snapshot" => ~crossed
================================================================================
