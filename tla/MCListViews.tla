---------------------------- MODULE MCListViews ----------------------------
(* The list views with interchangeable requests. *)
EXTENDS ListViews, TLC

Symmetry == Permutations(Ids)
=============================================================================
