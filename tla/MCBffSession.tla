---------------------------- MODULE MCBffSession ----------------------------
(* Two requests on one session.  The symmetry serves MCBffSessionRevoke.cfg  *)
(* only: MCBffSession.cfg checks liveness as well.                           *)
EXTENDS BffSession, TLC

Symmetry == Permutations(Requests)
=============================================================================
