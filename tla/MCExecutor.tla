----------------------------- MODULE MCExecutor -----------------------------
(***************************************************************************)
(* Instances of Executor for TLC.  Two calls of Thread.start let a started *)
(* thread start another, and let the process thread find one future and    *)
(* miss the other.                                                         *)
(***************************************************************************)
EXTENDS Executor
=============================================================================
