-------------------------- MODULE MCObjectMonitor ---------------------------
(***************************************************************************)
(* Instances of ObjectMonitor for TLC: three threads are the least that    *)
(* can be inside, asleep and arriving at once.                             *)
(***************************************************************************)
EXTENDS ObjectMonitor, TLC

ThreadSymmetry == Permutations(Threads)
=============================================================================
