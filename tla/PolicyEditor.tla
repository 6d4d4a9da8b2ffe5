---------------------------- MODULE PolicyEditor ----------------------------
(***************************************************************************)
(* The policy editor: src/composables/usePolicyEditor.ts, the buttons of   *)
(* src/views/security/PolicyView.vue that drive it, and the versioned      *)
(* policy at the admin API, which other admins save to as well.            *)
(*                                                                         *)
(* The script is single threaded; a step is one handler run to its next    *)
(* await.  A request is a slot: the server serves it in one step and the   *)
(* answer is applied in another, so an answer may be old when it arrives.  *)
(* The simulator, the decision log and the view of an old version only     *)
(* read, and are left out (but for loadDecisions, on which load waits); so *)
(* are the error texts, which no guard reads.                              *)
(*                                                                         *)
(* A draft is the version it was copied from and what the server would say *)
(* of its text.                                                            *)
(***************************************************************************)
EXTENDS Naturals

CONSTANTS Slots,        \* requests in flight
          MaxVersion    \* bound: versions of the policy

ASSUME BoundsAssumption == MaxVersion \in Nat \ {0}

VARIABLES
    latest,     \* the newest version stored; the older ones are kept below it
    policy,     \* policy.value.version, 0 for null
    listed,     \* versions.value: the versions up to here
    loading, editing, saving,
    draft,      \* draftText while editing, and what it is an edited copy of
    validated, conflict,
    shown,      \* history: the versions policy.value has held
    req         \* the requests

page == <<policy, listed, shown>>
feedback == <<validated, conflict>>
form == <<editing, draft>>
vars == <<latest, page, loading, saving, form, feedback, req>>

Versions == 0 .. MaxVersion
Judgements == {"unparsable", "refused", "valid"}

\* basis: the version the text was copied from or, after a conflict, reloaded for.
Text == [basis : Versions, judged : Judgements]
Copy(version) == [basis |-> version, judged |-> "valid"]
NoText == Copy(0)

Writes == {"save", "restore"}
Reads == {"load", "reload", "history", "relist"}

\* What a request asks the server for, in GETs of their own.  Nothing is kept of the
\* catalogue here: it never changes, but a load needs it.
Resources == {"policy", "catalogue", "list"}
Parts(op) == CASE op = "load" -> Resources
               [] op = "reload" -> {"policy"}
               [] op \in {"history", "relist"} -> {"list"}
               [] OTHER -> {}

\* base and text as sent; ans is the status, version and list the body of the answer.
Calls == [op : Writes \cup Reads \cup {"decisions", "validate", "free"},
          ans : {"none", "200", "409", "422", "403", "lost"}, got : SUBSET Resources,
          base : Versions, text : Text, version : Versions, list : Versions]
Request(op, base, text) ==
    [op |-> op, ans |-> "none", got |-> {}, base |-> base, text |-> text,
     version |-> 0, list |-> 0]
Free == Request("free", 0, NoText)
Unused(s) == req[s].op = "free"
Send(s, op, base, text) == req' = [req EXCEPT ![s] = Request(op, base, text)]
Sent(s, ops) == req[s].op \in ops /\ req[s].ans = "none"
Answered(s, ops, ans) == req[s].op \in ops /\ req[s].ans = ans
End(s) == req' = [req EXCEPT ![s] = Free]

Show(version) == policy' = version /\ shown' = shown \cup {version}

\* The page has just been opened (onMounted calls load), on a stored policy or none.
Init ==
    /\ latest \in 0 .. 1
    /\ policy = 0 /\ listed = 0 /\ shown = {0}
    /\ loading = TRUE /\ editing = FALSE /\ saving = FALSE
    /\ draft = NoText
    /\ validated = FALSE /\ conflict = FALSE
    /\ \E s \in Slots :
          req = [x \in Slots |-> IF x = s THEN Request("load", 0, draft) ELSE Free]

-----------------------------------------------------------------------------
(* The admin *)

\* The Refresh button, disabled while a load is under way.
load(s) ==
    /\ Unused(s) /\ ~loading
    /\ loading' = TRUE
    /\ Send(s, "load", 0, NoText)
    /\ UNCHANGED <<latest, page, saving, form, feedback>>

resetDraftFeedback == validated' = FALSE /\ conflict' = FALSE

\* The draft is not read again until startEdit replaces it.
closeEditor == editing' = FALSE /\ draft' = NoText

startEdit ==
    /\ ~editing
    /\ editing' = TRUE
    /\ draft' = Copy(policy)
    /\ resetDraftFeedback
    /\ UNCHANGED <<latest, page, loading, saving, req>>

cancelEdit ==
    /\ editing
    /\ closeEditor
    /\ resetDraftFeedback
    /\ UNCHANGED <<latest, page, loading, saving, req>>

\* The textarea stays open to edits while requests are in flight.
onDraftChanged ==
    /\ editing
    /\ \E judged \in Judgements : draft' = [draft EXCEPT !.judged = judged]
    /\ validated' = FALSE
    /\ UNCHANGED <<latest, page, loading, saving, editing, conflict, req>>

\* parsedDraft: a text that is no rule list is not sent, neither here nor by save.
validate(s) ==
    /\ Unused(s)
    /\ editing /\ draft.judged # "unparsable"
    /\ Send(s, "validate", 0, draft)
    /\ UNCHANGED <<latest, page, loading, saving, form, feedback>>

\* Mutant of save: the base is the newest version of the history.
saveOverListed(s) ==
    /\ Unused(s)
    /\ editing /\ ~saving /\ draft.judged # "unparsable"
    /\ saving' = TRUE
    /\ conflict' = FALSE
    /\ Send(s, "save", listed, draft)
    /\ UNCHANGED <<latest, page, loading, form, validated>>

\* Save as new version, disabled while saving.
save(s) ==
    /\ Unused(s)
    /\ editing /\ ~saving /\ draft.judged # "unparsable"
    /\ saving' = TRUE
    /\ conflict' = FALSE
    /\ Send(s, "save", policy, draft)
    /\ UNCHANGED <<latest, page, loading, form, validated>>

\* Restore an older version of the history; its button does not look at saving.
restore(s) ==
    /\ Unused(s)
    /\ \E version \in 1 .. listed : version # policy
    /\ saving' = TRUE
    /\ conflict' = FALSE
    /\ Send(s, "restore", policy, Copy(policy))
    /\ UNCHANGED <<latest, page, loading, form, validated>>

\* Reload latest, in the conflict banner.
reloadKeepingDraft(s) ==
    /\ Unused(s)
    /\ editing /\ conflict
    /\ Send(s, "reload", 0, NoText)
    /\ UNCHANGED <<latest, page, loading, saving, form, feedback>>

-----------------------------------------------------------------------------
(* The admin API *)

\* The answer has no body that is used, and drops what a read had gathered.
Answer(s, ans) ==
    /\ req' = [req EXCEPT ![s] = [@ EXCEPT !.ans = ans, !.got = {},
                                           !.version = 0, !.list = 0]]
    /\ UNCHANGED <<latest, page, loading, saving, form, feedback>>

\* A new version on top of the one the editor named.
StoreVersion(s) ==
    /\ Sent(s, Writes)
    /\ req[s].base = latest /\ req[s].text.judged = "valid"
    /\ latest < MaxVersion
    /\ latest' = latest + 1
    /\ req' = [req EXCEPT ![s].ans = "200", ![s].version = latest + 1]
    /\ UNCHANGED <<page, loading, saving, form, feedback>>

\* 409 for an old base, 422 for bad rules, 403 when the step-up prompt is dismissed.
RefuseWrite(s) ==
    /\ Sent(s, Writes)
    /\ \/ req[s].base # latest /\ Answer(s, "409")
       \/ req[s].text.judged = "refused" /\ Answer(s, "422")
       \/ Answer(s, "403")

\* One GET is served; the request is answered when all of its GETs are.
ServeRead(s, part) ==
    /\ Sent(s, Reads)
    /\ part \in Parts(req[s].op) \ req[s].got
    /\ part = "policy" => latest > 0
    /\ LET got == req[s].got \cup {part} IN
       req' = [req EXCEPT ![s].got = got,
                          ![s].ans = IF got = Parts(req[s].op) THEN "200" ELSE @,
                          ![s].version = IF part = "policy" THEN latest ELSE @,
                          ![s].list = IF part = "list" THEN latest ELSE @]
    /\ UNCHANGED <<latest, page, loading, saving, form, feedback>>

\* A request or its answer is lost, or ends in an error of any other status.
Fail(s) == req[s].op \in Writes \cup Reads /\ req[s].ans # "lost" /\ Answer(s, "lost")

\* Another admin saves.
OtherSaves ==
    /\ latest < MaxVersion
    /\ latest' = latest + 1
    /\ UNCHANGED <<page, loading, saving, form, feedback, req>>

-----------------------------------------------------------------------------
(* The answers *)

Loaded(s) ==
    /\ Answered(s, {"load"}, "200")
    /\ Show(req[s].version)
    /\ listed' = req[s].list
    /\ Send(s, "decisions", 0, NoText)
    /\ UNCHANGED <<latest, loading, saving, form, feedback>>

\* The load failed, or loadDecisions has settled: its answer matters to nothing here.
LoadDone(s) ==
    /\ Answered(s, {"load"}, "lost") \/ req[s].op = "decisions"
    /\ loading' = FALSE
    /\ End(s)
    /\ UNCHANGED <<latest, page, saving, form, feedback>>

\* The server's verdict on the text that was sent (200 or 422), or no answer.
Validated(s) ==
    /\ req[s].op = "validate"
    /\ validated' \in {req[s].text.judged = "valid", FALSE}
    /\ End(s)
    /\ UNCHANGED <<latest, page, loading, saving, form, conflict>>

\* The version is stored: show it, close the editor and refresh the history.
Saved(s) ==
    /\ Answered(s, Writes, "200")
    /\ Show(req[s].version)
    /\ closeEditor
    /\ Send(s, "history", 0, NoText)
    /\ UNCHANGED <<latest, listed, loading, saving, feedback>>

\* refreshHistory after a write; its failure goes through writeFailure like the write's own.
HistoryRefreshed(s) ==
    /\ \/ Answered(s, {"history"}, "200") /\ listed' = req[s].list
       \/ Answered(s, {"history"}, "lost") /\ UNCHANGED listed
    /\ saving' = FALSE
    /\ End(s)
    /\ UNCHANGED <<latest, policy, shown, loading, form, feedback>>

\* Mutant of writeFailure: a conflict closes the editor.
writeFailureCloses(s) ==
    /\ \E ans \in {"409", "422", "403", "lost"} :
          /\ Answered(s, Writes, ans)
          /\ conflict' = (conflict \/ ans = "409")
    /\ saving' = FALSE /\ closeEditor
    /\ End(s)
    /\ UNCHANGED <<latest, page, loading, validated>>

\* The write failed: say why; the draft stays as it is.
writeFailure(s) ==
    /\ \E ans \in {"409", "422", "403", "lost"} :
          /\ Answered(s, Writes, ans)
          /\ conflict' = (conflict \/ ans = "409")
    /\ saving' = FALSE
    /\ End(s)
    /\ UNCHANGED <<latest, page, loading, form, validated>>

\* The draft is kept, to be re-applied to the version reloaded.
Reloaded(s) ==
    /\ Answered(s, {"reload"}, "200")
    /\ Show(req[s].version)
    /\ conflict' = FALSE
    /\ draft' = [draft EXCEPT !.basis = req[s].version]
    /\ Send(s, "relist", 0, NoText)
    /\ UNCHANGED <<latest, listed, loading, saving, editing, validated>>

ReloadDone(s) ==
    /\ \/ Answered(s, {"relist"}, "200") /\ listed' = req[s].list
       \/ Answered(s, {"reload", "relist"}, "lost") /\ UNCHANGED listed
    /\ End(s)
    /\ UNCHANGED <<latest, policy, shown, loading, saving, form, feedback>>

-----------------------------------------------------------------------------
Admin(s) == load(s) \/ validate(s) \/ save(s) \/ restore(s) \/ reloadKeepingDraft(s)

Serve(s) ==
    \/ StoreVersion(s) \/ RefuseWrite(s) \/ Fail(s)
    \/ \E part \in Resources : ServeRead(s, part)

Deliver(s) ==
    \/ Loaded(s) \/ LoadDone(s) \/ Validated(s)
    \/ Saved(s) \/ HistoryRefreshed(s) \/ writeFailure(s)
    \/ Reloaded(s) \/ ReloadDone(s)

Next ==
    \/ \E s \in Slots : Admin(s) \/ Serve(s) \/ Deliver(s)
    \/ startEdit \/ cancelEdit \/ onDraftChanged
    \/ OtherSaves

Spec == Init /\ [][Next]_vars

-----------------------------------------------------------------------------
(* Properties *)

TypeOK ==
    /\ latest \in Versions /\ policy \in Versions /\ listed \in Versions /\ shown \subseteq Versions
    /\ loading \in BOOLEAN /\ editing \in BOOLEAN /\ saving \in BOOLEAN
    /\ draft \in Text
    /\ validated \in BOOLEAN /\ conflict \in BOOLEAN
    /\ req \in [Slots -> Calls]

\* The server stores the write in slot s.
Stores(s) == Sent(s, Writes) /\ req'[s].op = req[s].op /\ req'[s].ans = "200"

\* The editor only ever puts a version on top of one its page has shown: whatever is in
\* flight and whoever else saves.  So a save whose answer was lost is not repeated on top of
\* itself, and two admins do not overwrite each other unseen.
OverwritesOnlyShown ==
    [][ \A s \in Slots : Stores(s) => latest \in shown ]_vars

\* A draft leaves the screen only by Cancel or because the answer to a write says that a
\* version was stored: a conflict, a refusal or a lost answer keep it.
DraftKept ==
    [][ editing /\ ~editing' /\ req' # req =>
          \E s \in Slots : Answered(s, Writes, "200") /\ req'[s].op = "history" ]_vars

\* The Save button is never locked for good: while it is, a write of this page is on its
\* way, or the refresh of the history after it, and every answer to those unlocks it.
SavingWhileWriting ==
    saving => \E s \in Slots : req[s].op \in Writes \cup {"history"}

\* "Someone saved since this version was loaded.  Keep the draft: the admin reloads, then
\* re-applies their change deliberately" (writeFailure): a save never stores an edited copy of
\* one version on top of another unless the admin has reloaded after a conflict.
NoLostUpdate ==
    [][ \A s \in Slots : Stores(s) => req[s].text.basis = latest ]_vars
=============================================================================
