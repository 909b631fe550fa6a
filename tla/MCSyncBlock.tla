---------------------------- MODULE MCSyncBlock -----------------------------
(***************************************************************************)
(* Instances of SyncBlock for TLC.  Object 1 is the first lock object a    *)
(* program allocates, object 2 the second; two threads with two blocks     *)
(* each race on the table and on a monitor and come back to both.          *)
(***************************************************************************)
EXTENDS SyncBlock, TLC

ThreadSymmetry == Permutations(Threads)
=============================================================================
