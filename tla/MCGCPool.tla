------------------------------ MODULE MCGCPool ------------------------------
(***************************************************************************)
(* Instances of GCPool for TLC: two workers, the fewest with which a       *)
(* missed notification cannot stop the pool, and two collections, so that  *)
(* the second meets what the first leaves behind.                          *)
(***************************************************************************)
EXTENDS GCPool
=============================================================================
