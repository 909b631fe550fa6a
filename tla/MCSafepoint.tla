---------------------------- MODULE MCSafepoint -----------------------------
(***************************************************************************)
(* Instances of Safepoint for TLC: a main thread that may start two more.  *)
(***************************************************************************)
EXTENDS Safepoint
=============================================================================
