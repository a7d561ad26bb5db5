------------------------------- MODULE MCSync --------------------------------
(* Sync for TLC: its runs give the constants their values in the .cfg files. *)
EXTENDS Sync, TLC

\* Syncers differ in nothing; sound for the safety runs that use it.
SyncerSymmetry == Permutations(Syncers)
=============================================================================
