-------------------------- MODULE ApplicationDetail --------------------------
(***************************************************************************)
(* The settings of one application, as ApplicationDetailView.vue edits     *)
(* them: a details form, a token-settings form and the activation toggle,  *)
(* each saved by a PUT of its own that the server answers with the whole   *)
(* application, over one copy of the application kept by the page (app).   *)
(*                                                                         *)
(* Each button is locked by its own flag while its request is under way,   *)
(* so there is one request of each kind at a time, but requests of         *)
(* different kinds overlap, the details form stays editable during a save, *)
(* and another admin writes to the same application.                       *)
(***************************************************************************)
EXTENDS Naturals, FiniteSets

CONSTANTS TokenFields,  \* audiences, allowed_scopes, claim_mappings and the lifetime
          Omitted,      \* the settings that an answer leaves out when they are not set
          Rivals,       \* bound: the fields another admin writes
          Edits,        \* bound: the fields this admin edits
          MaxInFlight   \* bound: the requests of the page under way at once

VARIABLES
    server,   \* the application as the server has it
    app,      \* the page's copy
    form,     \* editForm and tokenForm
    call,     \* the requests of the page, one of each kind
    edited,   \* history: fields the admin changed since the form last took them from app
    apart     \* history: fields that an overlap, another admin, a failure, an edit during a
              \* save or the clearing of a token setting may have set apart on the page and
              \* on the server

vars == <<server, app, form, call, edited, apart>>

\* Two values of each field.  A URL of 0 is empty; with 1 the field behaves like the name
\* and the redirect URIs, which it stands for too.
DetailFields == {"url", "magic_link_url"}
FormFields == DetailFields \cup TokenFields
Fields == FormFields \cup {"active"}
Values == {0, 1}
Application == [Fields -> Values]

NoFields == [f \in {} |-> 0]
NotLoaded == NoFields

\* Part of an application, written over it.
Overlay(a, part) == [f \in DOMAIN a |-> IF f \in DOMAIN part THEN part[f] ELSE a[f]]
Part(a, fields) == [f \in fields |-> a[f]]
Read(part, f) == IF f \in DOMAIN part THEN part[f] ELSE 0

Kinds == {"load", "details", "tokens", "toggle"}
Parts == UNION {[S -> Values] : S \in SUBSET Fields}
NoCall == [at |-> "idle", write |-> NoFields, answer |-> NoFields]
Sent(write) == [at |-> "sent", write |-> write, answer |-> NoFields]

\* What the page looks at in an answer, which has the whole application but for the
\* settings that are omitted when they are not set.
Reads(k) == CASE k = "details" -> {"magic_link_url"}
              [] k = "toggle"  -> {}
              [] OTHER         -> Fields

Told(k, a) == {f \in Reads(k) : f \in Omitted => a[f] # 0}

Idle(k) == call[k].at = "idle"
Writing(f) == \E k \in Kinds : f \in DOMAIN call[k].write
Loaded == app # NotLoaded

Init ==
    /\ server \in {a \in Application : \A f \in Fields \ {"url"} : a[f] = 0}
    /\ app = NotLoaded
    /\ form = [f \in FormFields |-> 0]
    /\ call = [k \in Kinds |-> IF k = "load" THEN Sent(NoFields) ELSE NoCall]
    /\ edited = {} /\ apart = {}

-----------------------------------------------------------------------------
(* The admin *)

\* The token fields are disabled while they are saved, the details never.
Edit(f) ==
    /\ Loaded
    /\ f \in TokenFields => Idle("tokens")
    /\ form' = [form EXCEPT ![f] = 1 - @]
    /\ edited' = edited \cup ({f} \ {"url"})
    /\ apart' = IF Idle("details") THEN apart ELSE apart \cup ({f} \cap {"url"})
    /\ UNCHANGED <<server, app, call>>

Send(k, write) ==
    /\ Loaded /\ Idle(k)
    /\ Cardinality({other \in Kinds : ~Idle(other)}) < MaxInFlight
    /\ call' = [call EXCEPT ![k] = Sent(write)]
    /\ UNCHANGED <<server, app, form, edited>>

\* The answer to a save of the tokens is merged whole: it may bring back, or lead the
\* toggle to flip back, what another request that it meets has written.
Overlapping(k, write) ==
    apart \cup IF Idle("tokens") /\ k # "tokens" THEN {}
               ELSE (UNION {DOMAIN w : w \in {call[o].write : o \in Kinds \ {"tokens"}}})
                      \cup (DOMAIN write \ TokenFields)

\* The fields that differ from the page's copy.
Changed(fields) == {f \in fields : form[f] # app[f]}

\* Only what changed is sent, and nothing when nothing did.  The answer will not say that
\* a setting was cleared, and the page goes on showing it.
saveTokenSettings ==
    LET write == Part(form, Changed(TokenFields)) IN
    /\ Loaded /\ write # NoFields
    /\ Send("tokens", write)
    /\ apart' = Overlapping("tokens", write) \cup {f \in Omitted \cap DOMAIN write : write[f] = 0}

\* An emptied URL is left out of the request; the magic link is sent only when it
\* differs from the page's copy.
saveSettings ==
    LET write == Part(form, {f \in {"url"} : form[f] # 0} \cup Changed({"magic_link_url"})) IN
    /\ Send("details", write)
    /\ apart' = Overlapping("details", write) \cup ({"url"} \ DOMAIN write)

toggleActive ==
    LET write == [f \in {"active"} |-> 1 - app[f]] IN
    /\ Send("toggle", write)
    /\ apart' = Overlapping("toggle", write)

-----------------------------------------------------------------------------
(* The server *)

\* A request is performed, and answered with the application as it then is, without the
\* settings that are absent when they are not set.
Serve(k) ==
    /\ call[k].at = "sent"
    /\ server' = Overlay(server, call[k].write)
    /\ call' = [call EXCEPT ![k].at = "served", ![k].answer = Part(server', Told(k, server'))]
    /\ UNCHANGED <<app, form, edited, apart>>

\* Another admin, or another tab, saves a field.
OtherWrites(f) ==
    /\ server' = [server EXCEPT ![f] = 1 - @]
    /\ apart' = apart \cup {f}
    /\ UNCHANGED <<app, form, call, edited>>

-----------------------------------------------------------------------------
(* What becomes of a request *)

Answered(k) ==
    /\ call[k].at = "served"
    /\ call' = [call EXCEPT ![k] = NoCall]
    /\ UNCHANGED <<server, apart>>

\* loadApplication: both forms take the application's values.
LoadAnswered ==
    /\ Answered("load")
    /\ app' = [f \in Fields |-> Read(call["load"].answer, f)]
    /\ form' = Part(app', FormFields)
    /\ UNCHANGED edited

\* Mutant of TokensAnswered: the form keeps its rows.
TokensAnsweredUnreset ==
    /\ Answered("tokens")
    /\ app' = Overlay(app, call["tokens"].answer)
    /\ edited' = edited \ TokenFields
    /\ UNCHANGED form

\* The fields that the answer has replace the page's, one that it leaves out keeps the
\* value the page had, and the token form is reset from the page's copy.
TokensAnswered ==
    /\ Answered("tokens")
    /\ app' = Overlay(app, call["tokens"].answer)
    /\ form' = Overlay(form, Part(app', TokenFields))
    /\ edited' = edited \ TokenFields

\* Mutant of DetailsAnswered: the page keeps the magic link it had.
DetailsAnsweredKeepingLink ==
    /\ Answered("details")
    /\ app' = [app EXCEPT !["url"] = form["url"]]
    /\ form' = [form EXCEPT !["magic_link_url"] = app["magic_link_url"]]
    /\ edited' = edited \ {"magic_link_url"}

\* The URL is taken from the form as it now is, the magic link from the
\* answer, and only the magic link goes back into the form.
DetailsAnswered ==
    LET link == Read(call["details"].answer, "magic_link_url") IN
    /\ Answered("details")
    /\ app' = [app EXCEPT !["url"] = form["url"], !["magic_link_url"] = link]
    /\ form' = [form EXCEPT !["magic_link_url"] = link]
    /\ edited' = edited \ {"magic_link_url"}

\* The answer is not looked at: the page's copy is flipped as it now is.
ToggleAnswered ==
    /\ Answered("toggle")
    /\ app' = [app EXCEPT !["active"] = 1 - @]
    /\ UNCHANGED <<form, edited>>

\* Refused by the server or lost, before it was performed or after: a message, and the
\* page stays as it is.  An application that does not load stays away.
Fail(k) ==
    /\ ~Idle(k)
    /\ call' = [call EXCEPT ![k] = NoCall]
    /\ apart' = apart \cup DOMAIN call[k].write
    /\ UNCHANGED <<server, app, form, edited>>

Next ==
    \/ \E f \in Edits : Edit(f)
    \/ saveTokenSettings \/ saveSettings \/ toggleActive
    \/ \E k \in Kinds : Serve(k) \/ Fail(k)
    \/ \E f \in Rivals : OtherWrites(f)
    \/ LoadAnswered \/ TokensAnswered \/ DetailsAnswered \/ ToggleAnswered

Spec == Init /\ [][Next]_vars

-----------------------------------------------------------------------------
(* Properties *)

TypeOK ==
    /\ server \in Application
    /\ app \in Application \cup {NotLoaded}
    /\ form \in [FormFields -> Values]
    /\ call \in [Kinds -> [at : {"idle", "sent", "served"}, write : Parts,
                           answer : Parts]]
    /\ edited \subseteq FormFields /\ apart \subseteq Fields

Starts(k) == Idle(k) /\ call'[k].at = "sent"

\* "saveTokenSettings sends only what changed": a save carries only settings the admin
\* has edited since the page last took them from the server, so that saving one setting
\* never undoes what another admin did to the others, whatever the page has merged since.
TokensSentOnlyWhenEdited ==
    [][ Starts("tokens") => DOMAIN call'["tokens"].write \subseteq edited ]_vars

\* What the page shows of the application is what the server has, field by field, after
\* any saves that failed nowhere and did not overlap, unless another admin wrote the field,
\* or a save cleared a token setting, which the merge of the answer does not show.
PageAgrees ==
    Loaded => \A f \in Fields \ apart : ~Writing(f) => app[f] = server[f]
=============================================================================
