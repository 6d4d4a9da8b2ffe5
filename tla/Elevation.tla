----------------------------- MODULE Elevation -----------------------------
(***************************************************************************)
(* Step-up in the SPA: the 403 branch of the response interceptor          *)
(* (src/services/api.ts), the prompt's state and waiters                   *)
(* (src/services/adminGuards.ts) and ElevationDialog.vue.                  *)
(*                                                                         *)
(* A sensitive call is answered 403 elevation_required while the BFF       *)
(* session is not elevated.  The call then waits for the prompt, which all *)
(* waiting calls share, and is sent once more when the step-up succeeds.   *)
(* The script is single threaded: a step is one event handler run to its   *)
(* next await, microtasks included.  What the BFF does with a request and  *)
(* the delivery of its answer are steps of their own.                      *)
(*                                                                         *)
(* The BFF and the admin API are reduced to whether the session is         *)
(* elevated; BffSession.tla has the BFF's side of it.                      *)
(***************************************************************************)
EXTENDS Naturals, FiniteSets

CONSTANTS Calls,     \* the sensitive calls an admin makes
          Submits,   \* slots for step-ups in flight
          HasMfa     \* the admin's account asks for a code

ASSUME HasMfaAssumption == HasMfa \in BOOLEAN

VARIABLES
    at,           \* where each call is
    retried,      \* original._elevated
    performed,    \* history: how often the admin API performed each call
    waiters,      \* the calls whose promise requireElevation keeps
    visible,      \* elevationVisible
    loading,      \* elevationLoading
    failed,       \* elevationError is set
    mfaRequired,  \* elevationMfaRequired
    submit,       \* the step-ups in flight: the request, then its answer
    elevated      \* the BFF session holds an elevated token

prompt == <<waiters, visible, loading, failed, mfaRequired>>
calls == <<at, retried, performed>>
vars == <<calls, prompt, submit, elevated>>

Settled == {"done", "refused", "abandoned", "failed"}
Places == {"idle", "sent", "answered", "challenged", "waiting"} \cup Settled
SubmitStates == {"none", "sent", "sentWithCode", "granted", "needsCode", "rejected"}

Init ==
    /\ at = [c \in Calls |-> "idle"]
    /\ retried = [c \in Calls |-> FALSE]
    /\ performed = [c \in Calls |-> 0]
    /\ waiters = {} /\ visible = FALSE /\ loading = FALSE /\ failed = FALSE /\ mfaRequired = FALSE
    /\ submit = [i \in Submits |-> "none"]
    /\ elevated = FALSE

Goto(c, place) == at' = [at EXCEPT ![c] = place]

-----------------------------------------------------------------------------
(* The calls *)

Issue(c) ==
    /\ at[c] = "idle"
    /\ Goto(c, "sent")
    /\ UNCHANGED <<retried, performed, prompt, submit, elevated>>

\* The admin API performs the call, or asks for step-up.
Perform(c) ==
    /\ at[c] = "sent" /\ elevated
    /\ performed' = [performed EXCEPT ![c] = @ + 1]
    /\ Goto(c, "answered")
    /\ UNCHANGED <<retried, prompt, submit, elevated>>

Challenge(c) ==
    /\ at[c] = "sent" /\ ~elevated
    /\ Goto(c, "challenged")
    /\ UNCHANGED <<retried, performed, prompt, submit, elevated>>

Succeed(c) ==
    /\ at[c] = "answered"
    /\ Goto(c, "done")
    /\ UNCHANGED <<retried, performed, prompt, submit, elevated>>

\* Mutant of Lose: a call without an answer is sent again.
LoseAndResend(c) ==
    /\ at[c] \in {"sent", "answered", "challenged"}
    /\ Goto(c, "sent")
    /\ UNCHANGED <<retried, performed, prompt, submit, elevated>>

\* No answer within 30 s, or a network error: there is no status to act on.
Lose(c) ==
    /\ at[c] \in {"sent", "answered", "challenged"}
    /\ Goto(c, "failed")
    /\ UNCHANGED <<retried, performed, prompt, submit, elevated>>

\* Mutant of requireElevation: one pending promise, which a second call overwrites.
requireElevationLast(c) ==
    /\ at[c] = "challenged" /\ ~retried[c]
    /\ retried' = [retried EXCEPT ![c] = TRUE]
    /\ Goto(c, "waiting")
    /\ waiters' = {c}
    /\ visible' = TRUE
    /\ failed' = (visible /\ failed)
    /\ mfaRequired' = (visible /\ mfaRequired)
    /\ UNCHANGED <<performed, loading, submit, elevated>>

\* The interceptor sees the first 403 elevation_required of a call.
requireElevation(c) ==
    /\ at[c] = "challenged" /\ ~retried[c]
    /\ retried' = [retried EXCEPT ![c] = TRUE]
    /\ Goto(c, "waiting")
    /\ waiters' = waiters \cup {c}
    /\ visible' = TRUE
    /\ failed' = (visible /\ failed)
    /\ mfaRequired' = (visible /\ mfaRequired)
    /\ UNCHANGED <<performed, loading, submit, elevated>>

\* A second challenge of the same call is surfaced.
Refuse(c) ==
    /\ at[c] = "challenged" /\ retried[c]
    /\ Goto(c, "refused")
    /\ UNCHANGED <<retried, performed, prompt, submit, elevated>>

-----------------------------------------------------------------------------
(* The prompt *)

\* All waiting calls are sent again, or given up.
finishElevation(place) ==
    /\ at' = [c \in Calls |-> IF c \in waiters THEN place ELSE at[c]]
    /\ waiters' = {}
    /\ visible' = FALSE /\ loading' = FALSE /\ failed' = FALSE /\ mfaRequired' = FALSE

\* The admin confirms (canSubmit), with a code once the prompt asks for one.
submitElevation(i) ==
    /\ visible /\ ~loading
    /\ submit[i] = "none"
    /\ submit' = [submit EXCEPT ![i] = IF mfaRequired THEN "sentWithCode" ELSE "sent"]
    /\ loading' = TRUE
    /\ failed' = FALSE
    /\ UNCHANGED <<calls, waiters, visible, mfaRequired, elevated>>

\* POST /bff/elevate at the BFF: accepted ...
Grant(i) ==
    /\ submit[i] = "sentWithCode" \/ (submit[i] = "sent" /\ ~HasMfa)
    /\ elevated' = TRUE
    /\ submit' = [submit EXCEPT ![i] = "granted"]
    /\ UNCHANGED <<calls, prompt>>

\* ... answered mfa_required ...
AskForCode(i) ==
    /\ submit[i] = "sent" /\ HasMfa
    /\ submit' = [submit EXCEPT ![i] = "needsCode"]
    /\ UNCHANGED <<calls, prompt, elevated>>

\* ... or refused (wrong password or code, rate limit, no session), or unanswered,
\* which includes an answer lost after the session was elevated.
Reject(i) ==
    /\ submit[i] \in {"sent", "sentWithCode", "granted"}
    /\ submit' = [submit EXCEPT ![i] = "rejected"]
    /\ UNCHANGED <<calls, prompt, elevated>>

\* bffElevate resolves: retry every waiting call.
Confirmed(i) ==
    /\ submit[i] = "granted"
    /\ submit' = [submit EXCEPT ![i] = "none"]
    /\ finishElevation("sent")
    /\ UNCHANGED <<retried, performed, elevated>>

\* Mutant of Unconfirmed: the prompt stays locked after a failed step-up.
UnconfirmedLocked(i) ==
    /\ submit[i] \in {"needsCode", "rejected"}
    /\ submit' = [submit EXCEPT ![i] = "none"]
    /\ mfaRequired' = (mfaRequired \/ submit[i] = "needsCode")
    /\ failed' = TRUE
    /\ UNCHANGED <<calls, waiters, visible, loading, elevated>>

\* bffElevate rejects: show why and let the admin try again.
Unconfirmed(i) ==
    /\ submit[i] \in {"needsCode", "rejected"}
    /\ submit' = [submit EXCEPT ![i] = "none"]
    /\ mfaRequired' = (mfaRequired \/ submit[i] = "needsCode")
    /\ failed' = TRUE
    /\ loading' = FALSE
    /\ UNCHANGED <<calls, waiters, visible, elevated>>

\* Mutant of cancel: the waiting calls are resolved, not rejected.
cancelAndRetry ==
    /\ visible /\ ~loading
    /\ finishElevation("sent")
    /\ UNCHANGED <<retried, performed, submit, elevated>>

\* The Cancel button, disabled while a step-up is in flight.
cancel ==
    /\ visible /\ ~loading
    /\ finishElevation("abandoned")
    /\ UNCHANGED <<retried, performed, submit, elevated>>

\* The Dialog component hides itself: a path that does not look at loading.  The dialog is
\* not closable, and its comment keeps the handler for "the escape/overlay path anyway", so
\* the model has more such steps than a browser may ever take.
onVisibility ==
    /\ visible
    /\ finishElevation("abandoned")
    /\ UNCHANGED <<retried, performed, submit, elevated>>

\* The elevated token expires, or a refresh replaces it.
Lapse ==
    /\ elevated
    /\ elevated' = FALSE
    /\ UNCHANGED <<calls, prompt, submit>>

CallStep(c) ==
    \/ Perform(c) \/ Challenge(c) \/ Succeed(c) \/ Lose(c)
    \/ requireElevation(c) \/ Refuse(c)

SubmitStep(i) ==
    Grant(i) \/ AskForCode(i) \/ Reject(i) \/ Confirmed(i) \/ Unconfirmed(i)

Done == (\A c \in Calls : at[c] \in Settled) /\ UNCHANGED vars

Next ==
    \/ \E c \in Calls : Issue(c) \/ CallStep(c)
    \/ \E i \in Submits : submitElevation(i) \/ SubmitStep(i)
    \/ cancel \/ onVisibility \/ Lapse
    \/ Done

Spec == Init /\ [][Next]_vars

\* The calls are answered or time out (30 s, api.ts).  A step-up goes through the bff
\* instance (session.ts), which has no timeout of its own: it ends because the BFF gives up
\* its own calls after 10 s (bff/oauth.go), or with the connection.  An admin who keeps
\* failing the prompt gives up: whenever Cancel is enabled again and again, it is used.
FairSpec ==
    /\ Spec
    /\ \A c \in Calls : WF_vars(CallStep(c))
    /\ \A i \in Submits : WF_vars(SubmitStep(i))
    /\ SF_vars(cancel)

-----------------------------------------------------------------------------
(* Properties *)

TypeOK ==
    /\ at \in [Calls -> Places]
    /\ retried \in [Calls -> BOOLEAN]
    /\ performed \in [Calls -> 0 .. 2]
    /\ waiters \subseteq Calls
    /\ visible \in BOOLEAN /\ loading \in BOOLEAN /\ failed \in BOOLEAN /\ mfaRequired \in BOOLEAN
    /\ submit \in [Submits -> SubmitStates]
    /\ elevated \in BOOLEAN

\* The prompt is on screen exactly while calls wait for it, and no call waits without
\* being among its waiters: no call is left pending with nothing to answer it, and no
\* prompt is left that answers nobody.
PromptServesWaiters ==
    /\ visible <=> waiters # {}
    /\ waiters = {c \in Calls : at[c] = "waiting"}

\* The replay never repeats what the admin API has performed, and a call that ends
\* refused or abandoned was never performed.
PerformedAtMostOnce ==
    \A c \in Calls :
        /\ performed[c] <= 1
        /\ at[c] \in {"refused", "abandoned"} => performed[c] = 0

\* The prompt is never locked (Cancel and Confirm disabled) without a step-up in
\* flight that will unlock it.
LockedOnlyInFlight == loading => \E i \in Submits : submit[i] # "none"

\* Only an answer of the BFF makes waiting calls go out again, all of them in the
\* same step; a lapse, a cancel or another call's fate never sends one.
RetriedTogether ==
    [][ (\E c \in Calls : at[c] = "waiting" /\ at'[c] = "sent") =>
          /\ \A c \in Calls : at[c] = "waiting" => at'[c] = "sent"
          /\ \E i \in Submits : submit[i] = "granted" /\ submit'[i] = "none" ]_vars

\* Every challenged call is settled in the end: sent again and answered, or given up.
ChallengeSettled ==
    \A c \in Calls : at[c] = "waiting" ~> at[c] \in Settled
=============================================================================
