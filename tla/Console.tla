------------------------------ MODULE Console ------------------------------
(***************************************************************************)
(* The console's pages with state of their own, as the router shows them:  *)
(* one at a time, and only that one has anything under way.  (The pages    *)
(* that are lists are in ListViews.)                                       *)
(***************************************************************************)
EXTENDS Naturals, Sequences, FiniteSets

CONSTANTS TokenFields, Omitted, Rivals, Edits, MaxInFlight,   \* of ApplicationDetail
          MaxRows, MaxAttributes,             \* of SettingsRows
          ReportIds, Polls,                   \* of Reports
          Streams, NoStream                   \* of EventStream

VARIABLES
    open,   \* the page on screen
    server, app, form, call, edited, apart,
    account, user, rows, request, touched, foreign,
    sheet, stored, fields, retyped,
    mfaOn, status, enrollment, codes, disabling, loadError, op, handed, unsure,
    remote, listed, pollers, polls, generating, mounted, crossed, unpolled, late,
    live, eventStream, stream, aborted, shownOn

Application == INSTANCE ApplicationDetail
User == INSTANCE UserDetail
Settings == INSTANCE SettingsRows
Mfa == INSTANCE MfaCard
Report == INSTANCE Reports
Stream == INSTANCE EventStream

\* The token settings are fields of their own, and the bounds name fields of the forms.
ASSUME ApplicationAssumption ==
    /\ TokenFields \cap (Application!DetailFields \cup {"active"}) = {}
    /\ Omitted \subseteq Application!FormFields
    /\ Rivals \subseteq Application!Fields /\ Edits \subseteq Application!FormFields

ASSUME RowsAssumption == MaxRows \in Nat /\ MaxAttributes \in Nat

\* No report has the id, and no slot the name, that stands for none.
ASSUME ReportsAssumption == "none" \notin ReportIds
ASSUME StreamAssumption == NoStream \notin Streams

applicationVars == <<server, app, form, call, edited, apart>>
userVars == <<account, user, rows, request, touched, foreign>>
settingsVars == <<sheet, stored, fields, retyped>>
mfaVars == <<mfaOn, status, enrollment, codes, disabling, loadError, op, handed, unsure>>
reportVars == <<remote, listed, pollers, polls, generating, mounted, crossed, unpolled, late>>
streamVars == <<live, eventStream, stream, aborted, shownOn>>
pageVars == <<applicationVars, userVars, settingsVars, mfaVars, reportVars, streamVars>>

Pages == {"application", "user", "settings", "profile", "reports", "security"}

\* What a page that is not on screen would start with, one case of it; no property is
\* about it.
Closed(p) ==
    CASE p = "application" -> server["url"] = 0
      [] p = "user"        -> ~account.blocked
      [] p = "settings"    -> sheet = "claims" /\ stored = << >>
      [] p = "profile"     -> ~mfaOn
      [] OTHER             -> TRUE

Init ==
    /\ open \in Pages
    /\ Application!Init /\ User!Init /\ Settings!Init /\ Mfa!Init /\ Report!Init
    /\ Stream!Init
    /\ \A p \in Pages \ {open} : Closed(p)

Next ==
    \/ open = "application" /\ Application!Next
         /\ UNCHANGED <<open, userVars, settingsVars, mfaVars, reportVars, streamVars>>
    \/ open = "user" /\ User!Next
         /\ UNCHANGED <<open, applicationVars, settingsVars, mfaVars, reportVars, streamVars>>
    \/ open = "settings" /\ Settings!Next
         /\ UNCHANGED <<open, applicationVars, userVars, mfaVars, reportVars, streamVars>>
    \/ open = "profile" /\ Mfa!Next
         /\ UNCHANGED <<open, applicationVars, userVars, settingsVars, reportVars, streamVars>>
    \/ open = "reports" /\ Report!Next
         /\ UNCHANGED <<open, applicationVars, userVars, settingsVars, mfaVars, streamVars>>
    \/ open = "security" /\ Stream!Next
         /\ UNCHANGED <<open, applicationVars, userVars, settingsVars, mfaVars, reportVars>>

Spec == Init /\ [][Next]_<<open, pageVars>>

-----------------------------------------------------------------------------
(* Properties *)

\* Every variable of the page on screen keeps its type.
TypeOK ==
    CASE open = "application" -> Application!TypeOK
      [] open = "user"        -> User!UserTypeOK
      [] open = "settings"    -> Settings!RowsTypeOK
      [] open = "profile"     -> Mfa!MfaTypeOK
      [] open = "reports"     -> Report!ReportsTypeOK
      [] open = "security"    -> Stream!StreamTypeOK

\* A save of token settings sends only what the admin edited (ApplicationDetailView.vue).
TokensSentOnlyWhenEdited == Application!TokensSentOnlyWhenEdited

\* The application page shows what the server has, but for overlaps, failures, other
\* admins and cleared token settings (ApplicationDetailView.vue).
PageAgrees == open = "application" => Application!PageAgrees

\* Saving attributes nobody touched changes nothing (UserDetailView.vue).
UntouchedSaveHarmless == open = "user" => User!UntouchedSaveHarmless

\* No edited row is dropped, merged or overwritten on the way to the saved set
\* (tokenSettings.ts).
NoRowLost == open = "settings" => Settings!NoRowLost

\* Rows nobody touched stand for the stored set (tokenSettings.ts).
UntouchedRowsStand == open = "settings" => Settings!UntouchedRowsStand

\* Recovery codes stay on screen, and the card says whether MFA is on (MfaCard.vue).
CardTruthful == open = "profile" => Mfa!CardTruthful

\* A report is polled until it is seen to finish (ReportsView.vue).
PolledUntilFinished == open = "reports" => Report!PolledUntilFinished

\* Events are shown as live over one connected stream (SecurityDashboardView.vue).
LiveOverItsStream == open = "security" => Stream!LiveOverItsStream
=============================================================================
