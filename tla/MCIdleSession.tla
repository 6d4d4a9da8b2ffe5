---------------------------- MODULE MCIdleSession ----------------------------
(* One tab of the console, with the layout's idle timeout.                    *)
EXTENDS IdleSession
=============================================================================
