----------------------------- MODULE MC_SkipList -----------------------------
(* One writer inserting four keys into a three-level list, one reader seeking. *)
EXTENDS SkipList
=============================================================================
