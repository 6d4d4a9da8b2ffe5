---------------------------- MODULE SessionGrant ----------------------------
(***************************************************************************)
(* What a BFF session promises its user of the grant behind it (bff/app.go,*)
(* bff/elevate.go, bff/oauth.go and README.md): the session has at most one*)
(* refresh token that the issuer takes, each renewal replaces it at once by*)
(* a newer one, and the session is deleted only when it has none left or   *)
(* its user signs out.  There are no requests, no answers on their way and *)
(* no store here: BffSession, where a renewal takes several steps beside   *)
(* those of other requests, is shown to implement this module.             *)
(***************************************************************************)
EXTENDS Naturals

CONSTANT Tokens   \* refresh tokens, by number in the order they are issued

VARIABLES grant,   \* the refresh token the session can be renewed with, or none
          phase,   \* open, closed (deleted), or forgotten in a restart
          excused  \* a sign-out has begun, or the answer to a renewal was lost

vars == <<grant, phase, excused>>

Init == grant = {1} /\ phase = "open" /\ excused = FALSE

\* A refresh, in one step as far as the session is concerned.
Renew ==
    /\ grant # {}
    /\ \E token \in Tokens : (\A old \in grant : old < token) /\ grant' = {token}
    /\ UNCHANGED <<phase, excused>>

Excuse == excused' = TRUE /\ UNCHANGED <<grant, phase>>

\* The grant is revoked by a sign-out, or its token is lost with an answer.  It never
\* comes back.
Lose == grant' = {} /\ excused' = TRUE /\ UNCHANGED phase

Close ==
    /\ phase = "open"
    /\ grant = {} \/ excused
    /\ grant' = {} /\ phase' = "closed" /\ UNCHANGED excused

Forget == grant' = {} /\ phase' = "forgotten" /\ UNCHANGED excused

Next == Renew \/ Excuse \/ Lose \/ Close \/ Forget

Spec == Init /\ [][Next]_vars
=============================================================================
