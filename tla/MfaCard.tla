------------------------------- MODULE MfaCard -------------------------------
(***************************************************************************)
(* The MFA card of the profile page (components/security/MfaCard.vue over  *)
(* services/mfaService.ts): enrolment, recovery codes that are shown once, *)
(* and turning MFA off.  Every operation is a sequence of calls of which   *)
(* each may fail; `busy` and `loading` keep operations apart.              *)
(***************************************************************************)
EXTENDS Naturals, Sequences

VARIABLES
    mfaOn,       \* at the issuer: MFA is on for this account
    status,      \* the status the card has: "none", "on" or "off"
    enrollment,  \* an enrolment is on display
    codes,       \* unacknowledged recovery codes are held by the card
    disabling,   \* the form that turns MFA off is open
    loadError,   \* the status could not be loaded
    op,          \* the operation under way
    handed,      \* history: the issuer's codes reached the card and are not acknowledged
    unsure       \* history: MFA changed elsewhere, or a call failed that may have changed
                 \* it, since the issuer was last asked

mfaVars == <<mfaOn, status, enrollment, codes, disabling, loadError, op, handed, unsure>>

Operations == {"mount", "start", "confirm", "newCodes", "disable"}

\* Mutant of Calls: the status is not loaded after MFA was turned off.
CallsWithoutReload(o) ==
    CASE o = "mount"    -> <<"status">>
      [] o = "start"    -> <<"enroll">>
      [] o = "confirm"  -> <<"confirm", "codes", "status">>
      [] o = "newCodes" -> <<"codes", "status">>
      [] o = "disable"  -> <<"disable">>

\* The calls an operation makes, one after the other as long as they succeed.
Calls(o) ==
    CASE o = "mount"    -> <<"status">>
      [] o = "start"    -> <<"enroll">>
      [] o = "confirm"  -> <<"confirm", "codes", "status">>
      [] o = "newCodes" -> <<"codes", "status">>
      [] o = "disable"  -> <<"disable", "status">>

Begun(o) == [todo |-> Calls(o), served |-> FALSE, on |-> FALSE]
Nothing == [todo |-> <<>>, served |-> FALSE, on |-> FALSE]
Under == op.todo # <<>>
Current(c) == Under /\ Head(op.todo) = c
Advanced == [op EXCEPT !.todo = Tail(@), !.served = FALSE, !.on = FALSE]

\* What the card shows, the first branch that applies.
Screen ==
    IF Current("status") THEN "loading"
    ELSE IF loadError    THEN "error"
    ELSE IF codes        THEN "codes"
    ELSE IF enrollment   THEN "enrollment"
    ELSE IF disabling    THEN "disabling"
    ELSE status

Init ==
    /\ mfaOn \in BOOLEAN
    /\ status = "none" /\ op = Begun("mount")
    /\ enrollment = FALSE /\ codes = FALSE /\ disabling = FALSE /\ loadError = FALSE
    /\ handed = FALSE /\ unsure = FALSE

-----------------------------------------------------------------------------
(* The admin.  Buttons are locked while an operation is under way. *)

Begin(o, screen) ==
    /\ ~Under /\ Screen = screen
    /\ op' = Begun(o)
    /\ UNCHANGED <<mfaOn, status, enrollment, codes, disabling, loadError, handed, unsure>>

start == Begin("start", "off")
confirm == Begin("confirm", "enrollment")
newCodes == Begin("newCodes", "on")
disable == Begin("disable", "disabling")

cancelEnrollment ==
    /\ ~Under /\ Screen = "enrollment"
    /\ enrollment' = FALSE
    /\ UNCHANGED <<mfaOn, status, codes, disabling, loadError, op, handed, unsure>>

\* "Turn off" is not locked; the form's Cancel is.
OpenDisable ==
    /\ Screen = "on" /\ disabling' = TRUE
    /\ UNCHANGED <<mfaOn, status, enrollment, codes, loadError, op, handed, unsure>>

CancelDisable ==
    /\ ~Under /\ Screen = "disabling" /\ disabling' = FALSE
    /\ UNCHANGED <<mfaOn, status, enrollment, codes, loadError, op, handed, unsure>>

\* "I have saved them", also while the rest of the operation is under way.
Acknowledge ==
    /\ Screen = "codes"
    /\ codes' = FALSE /\ handed' = FALSE
    /\ UNCHANGED <<mfaOn, status, enrollment, disabling, loadError, op, unsure>>

-----------------------------------------------------------------------------
(* The issuer *)

\* A call is performed; codes are only made for an account with MFA.
ServeMfa ==
    /\ Under /\ ~op.served
    /\ Current("codes") \/ Current("disable") => mfaOn
    /\ mfaOn' = IF Current("confirm") THEN TRUE ELSE IF Current("disable") THEN FALSE ELSE mfaOn
    /\ op' = [op EXCEPT !.served = TRUE, !.on = Current("status") /\ mfaOn]
    /\ unsure' = (unsure /\ ~Current("status"))
    /\ UNCHANGED <<status, enrollment, codes, disabling, loadError, handed>>

\* The account's MFA is turned on or off in another session.
MfaElsewhere ==
    /\ mfaOn' = ~mfaOn
    /\ unsure' = TRUE
    /\ UNCHANGED <<status, enrollment, codes, disabling, loadError, op, handed>>

-----------------------------------------------------------------------------
(* What becomes of a call *)

AnsweredMfa(c) ==
    /\ Current(c) /\ op.served
    /\ op' = Advanced
    /\ UNCHANGED <<mfaOn, unsure>>

StatusLoaded ==
    /\ AnsweredMfa("status")
    /\ status' = IF op.on THEN "on" ELSE "off"
    /\ loadError' = FALSE
    /\ UNCHANGED <<enrollment, codes, disabling, handed>>

Enrolled ==
    /\ AnsweredMfa("enroll")
    /\ enrollment' = TRUE
    /\ UNCHANGED <<status, codes, disabling, loadError, handed>>

Confirmed ==
    /\ AnsweredMfa("confirm")
    /\ enrollment' = FALSE
    /\ UNCHANGED <<status, codes, disabling, loadError, handed>>

CodesGiven ==
    /\ AnsweredMfa("codes")
    /\ codes' = TRUE /\ handed' = TRUE
    /\ UNCHANGED <<status, enrollment, disabling, loadError>>

Disabled ==
    /\ AnsweredMfa("disable")
    /\ disabling' = FALSE
    /\ UNCHANGED <<status, enrollment, codes, loadError, handed>>

\* A call fails, before it was performed or after: the rest of the operation is dropped
\* with a toast.  A status that does not load leaves an error with no way to try again.
MfaFailed ==
    /\ Under
    /\ op' = Nothing
    /\ loadError' = (loadError \/ Current("status"))
    /\ unsure' = (unsure \/ ~Current("status"))
    /\ UNCHANGED <<mfaOn, status, enrollment, codes, disabling, handed>>

Next ==
    \/ start \/ confirm \/ newCodes \/ disable
    \/ cancelEnrollment \/ OpenDisable \/ CancelDisable \/ Acknowledge
    \/ ServeMfa \/ MfaElsewhere
    \/ StatusLoaded \/ Enrolled \/ Confirmed \/ CodesGiven \/ Disabled \/ MfaFailed

Spec == Init /\ [][Next]_mfaVars

-----------------------------------------------------------------------------
(* Properties *)

MfaTypeOK ==
    /\ mfaOn \in BOOLEAN /\ status \in {"none", "on", "off"}
    /\ enrollment \in BOOLEAN /\ codes \in BOOLEAN /\ disabling \in BOOLEAN
    /\ loadError \in BOOLEAN /\ handed \in BOOLEAN /\ unsure \in BOOLEAN
    /\ op \in [todo : {SubSeq(Calls(o), i, Len(Calls(o))) : o \in Operations, i \in 1..4},
               served : BOOLEAN, on : BOOLEAN]

\* "Hand out recovery codes right away: without them a lost phone locks the account"
\* (MfaCard.vue): once the card is at rest, codes that reached it are on screen until the
\* admin has acknowledged them, and MFA is said to be on exactly when it is, through
\* whichever operations; unless a call failed, or MFA changed in another session.
CardTruthful ==
    ~Under /\ ~loadError =>
        /\ handed => Screen = "codes"
        /\ ~unsure => (status = "on" <=> mfaOn)
=============================================================================
