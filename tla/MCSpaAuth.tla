----------------------------- MODULE MCSpaAuth -----------------------------
(* Interchangeable task slots of one tab. *)
EXTENDS SpaAuth, TLC

Symmetry == Permutations(Tasks)
=============================================================================
