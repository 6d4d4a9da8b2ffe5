------------------------------ MODULE MCBffEdge ------------------------------
(* One limited route, a client and the BFF's own host.  The run checks        *)
(* liveness with the rest, so it uses no symmetry.                            *)
EXTENDS BffEdge
=============================================================================
