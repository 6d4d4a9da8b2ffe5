----------------------------- MODULE MCConsole -----------------------------
(* The pages of the console; their slots are too few for symmetry to pay. *)
EXTENDS Console
=============================================================================
