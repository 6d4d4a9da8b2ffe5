----------------------------- MODULE IdleSession -----------------------------
(***************************************************************************)
(* The idle timeout of one tab: useSessionTimeout.ts over useIdle, in the  *)
(* layout of the console's pages (AdminLayout.vue), on top of SpaAuth.     *)
(*                                                                         *)
(* useIdle sees only events of this document, and timer callbacks run      *)
(* between any two callbacks of SpaAuth.  The thirteen and the two minutes *)
(* are left open: an idle page is noticed and its warning runs out at any  *)
(* time.  A press of "Stay signed in" is an event of the document, so it   *)
(* is activity first.                                                      *)
(***************************************************************************)
EXTENDS SpaAuth

VARIABLES
    idle,         \* useIdle's ref
    showWarning,  \* the warning is on screen
    expireTimer   \* the timeout of two minutes is set, and the countdown with it

idleVars == <<idle, showWarning, expireTimer>>
tabVars == <<vars, idleVars>>

OnConsole == page \in RequiresAuth

IdleInit == Init /\ idle = FALSE /\ showWarning = FALSE /\ expireTimer = FALSE

\* Mutant of dismissWarning: the warning goes and its timer stays.
hideWarning == showWarning' = FALSE /\ UNCHANGED expireTimer

dismissWarning == showWarning' = FALSE /\ expireTimer' = FALSE

\* No event for thirteen minutes (which count as an action): the watch shows the warning
\* and sets the timer.
BecomesIdle ==
    /\ OnConsole /\ Idle /\ ~idle
    /\ clicks < MaxClicks /\ clicks' = clicks + 1
    /\ idle' = TRUE /\ showWarning' = TRUE /\ expireTimer' = TRUE
    /\ UNCHANGED <<server, spa, history>>

\* The admin moves the mouse, presses a key or a button.
Activity ==
    /\ OnConsole /\ Idle /\ idle
    /\ idle' = FALSE
    /\ dismissWarning
    /\ UNCHANGED vars

\* The timer fires: expireSession signs out.  The page stays idle for the watch, which sees
\* no other change before the next activity.
expireSession(t) ==
    /\ Idle /\ expireTimer /\ task[t] = Free
    /\ dismissWarning
    /\ task' = [task EXCEPT ![t] = Request("logout", "logout", page, csrf)]
    /\ UNCHANGED <<server, user, csrf, gate, page, nav, clicks, history, idle>>

\* The layout, and its timers, go with the last page of the console.
Layout ==
    IF page' \in RequiresAuth THEN UNCHANGED idleVars
    ELSE idle' = FALSE /\ dismissWarning

IdleNext ==
    \/ Next /\ Layout
    \/ BecomesIdle \/ Activity
    \/ \E t \in Tasks : expireSession(t)

IdleSpec == IdleInit /\ [][IdleNext]_tabVars

\* Requests are answered or fail (those to /bff as the BFF answers, or with the connection:
\* their client has no timeout), their callbacks run, and a timer that is set fires.
IdleFairSpec ==
    /\ IdleSpec
    /\ \A t \in Tasks : WF_tabVars(Step(t) /\ Layout)
    /\ WF_tabVars(\E t \in Tasks : expireSession(t))

-----------------------------------------------------------------------------
(* Properties *)

\* Nobody is signed out unwarned: the timer that signs the admin out runs only on a page of
\* the console that has been idle ever since and shows the warning, whatever the admin,
\* another navigation or the end of the session did in between; once it has fired, or
\* activity has stopped it, it is not left behind to sign out the next page.
WarnedBeforeExpiry == expireTimer => OnConsole /\ idle /\ showWarning

\* A sign-out that the server did not perform: lost on the way, or refused because another
\* tab has signed in since.
Spared ==
    \E t \in Tasks : /\ task[t].kind = "logout" /\ task[t].ans \in {"lost", "403"}
                     /\ session # 0

\* A console page that goes idle is left, unless there is activity in time or the server did
\* not perform the sign-out: no pending navigation, late answer or expired session that
\* crosses the sign-out keeps the page on screen.
IdleSignOutLeaves == expireTimer ~> ~idle \/ Spared
=============================================================================
