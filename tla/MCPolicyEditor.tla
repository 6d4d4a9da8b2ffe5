--------------------------- MODULE MCPolicyEditor ---------------------------
(* One admin's editor and another admin's saves. *)
EXTENDS PolicyEditor, TLC

Symmetry == Permutations(Slots)
=============================================================================
