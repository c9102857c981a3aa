---------------------------- MODULE MCWriterLease ------------------------------
(***************************************************************************)
(* A command of the shared dispatch, one that takes its lease first, a     *)
(* job, a restore and a purge.                                             *)
(***************************************************************************)
EXTENDS WriterLease, TLC

CONSTANTS add, rescan, job, restore, purge

OneAdd == {add}
OneRescan == {rescan}
OneJob == {job}
Consolidates == job :> "consolidate"
OneRestore == {restore}
OnePurge == {purge}
================================================================================
