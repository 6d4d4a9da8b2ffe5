---------------------------- MODULE MCElevation ----------------------------
(* Three calls and two step-ups of one admin console.  The run checks liveness *)
(* with the rest, so it uses no symmetry.                                    *)
EXTENDS Elevation
=============================================================================
