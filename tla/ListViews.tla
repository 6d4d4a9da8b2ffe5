----------------------------- MODULE ListViews -----------------------------
(***************************************************************************)
(* The console's list views: pages that show rows loaded from the admin    *)
(* API (their sources), filter and refresh them, write, and load again.    *)
(* The views differ in data, not in control, so each is a row of a table   *)
(* here and the actions are written once; a page whose sources never meet  *)
(* in one load or write has a row for each.  One view is mounted throughout.*)
(*                                                                         *)
(* Every load and write is a request whose answer is applied when it       *)
(* arrives, whatever has been asked meanwhile: no view cancels a request   *)
(* or compares the answer with the filters it now has.                     *)
(***************************************************************************)
EXTENDS Naturals, FiniteSets, Functions

CONSTANTS Ids,        \* slots for requests in flight
          MaxStamp,   \* bound: one more than the writes the server performs
          None

ASSUME StampAssumption == MaxStamp \in Nat \ {0}

-----------------------------------------------------------------------------
(* The views *)

\* A write: the sources it loads again once it is answered, whether its button is
\* locked meanwhile, and whether the lock waits for that load.
Write(name, again, locks, waits) ==
    [name |-> name, again |-> again, locks |-> locks, waits |-> waits]

\* A view by its loads, each a set of sources fetched together:
\*   mount     loads it starts when mounted; they hide the page when `hidden`
\*   tabs      sources loaded when their tab or dialog opens and they have no rows
\*   timed     sources loaded by a timer
\*   filtered  sources whose filters or page reload them when changed
\*   typed     sources with filters that change without a load
\*   refreshed sources the admin loads again at any time; guarded: unless in progress
\*   blanked   sources emptied before a load; cleared: by a load that fails
\*   silent    sources whose own loads show no progress
\*   then      sources loaded next when a load of the others is answered, whose progress
\*             lasts until both have ended
Plain(sources) ==
    [sources |-> sources, mount |-> {{s} : s \in sources}, tabs |-> {}, timed |-> {},
     filtered |-> {}, typed |-> {}, blanked |-> {}, cleared |-> {},
     refreshed |-> {}, guarded |-> {}, silent |-> {}, then |-> {}, hidden |-> FALSE,
     writes |-> {}]

SessionsView == [Plain({"sessions"}) EXCEPT !.filtered = {"sessions"}, !.cleared = {"sessions"}]

SecurityEventsView == [Plain({"events"}) EXCEPT !.filtered = {"events"}, !.typed = {"events"},
                          !.refreshed = {"events"}]

AdminLogsView == [Plain({"logs"}) EXCEPT !.filtered = {"logs"},
                     !.writes = {Write("exportLogs", {}, TRUE, FALSE)}]

\* The writes are those of the forms, tables and dialogs of a page, whose buttons show
\* (`:loading`) or do not show their progress.
RulesTable == {Write("deleteRule", {"rules"}, FALSE, FALSE)}
RuleDialog == {Write("submitRule", {"rules"}, TRUE, TRUE)}
AlertRules == [Plain({"rules"}) EXCEPT !.writes = RulesTable \cup RuleDialog]
HistoryTable == {Write("acknowledge", {"alerts"}, FALSE, FALSE)}
AlertHistory == [Plain({"alerts"}) EXCEPT !.writes = HistoryTable]

\* The reputation looked up for a typed address; Enter looks it up at any time.
LookupCard == {"reputation"}
IpReputation == [Plain(LookupCard) EXCEPT !.mount = {},
                    !.typed = LookupCard, !.refreshed = LookupCard,
                    !.blanked = LookupCard, !.cleared = LookupCard]
BlockedTable == {Write("unblock", {"blocked"}, FALSE, FALSE)}
BlockDialog == {Write("submitBlock", {"blocked"}, TRUE, TRUE)}
BlockedIps == [Plain({"blocked"}) EXCEPT !.writes = BlockedTable \cup BlockDialog]

\* The "Done" button after an invitation loads the users in any state, so the lock of
\* their refresh button stops nothing.
SuperadminsTab == {Write("createSuperadmin", {"superadmins", "users"}, TRUE, FALSE)}
SuperadminDialogs == {Write("saveSuperadmin", {"superadmins"}, TRUE, FALSE),
                      Write("deleteSuperadmin", {"superadmins", "users"}, TRUE, FALSE)}
UserLists == [Plain({"users", "superadmins"}) EXCEPT
                 !.tabs = {"users", "superadmins"},
                 !.refreshed = {"users"}, !.guarded = {"superadmins"},
                 !.writes = SuperadminsTab \cup SuperadminDialogs]

\* The buttons in the rows of the users (revoke, unlock) load nothing.
UsersTab == {Write("quickAction", {}, FALSE, FALSE)}
UserListLogs == [Plain({"logs"}) EXCEPT !.mount = {}, !.tabs = {"logs"}, !.guarded = {"logs"},
                    !.writes = UsersTab]
InviteForm == {Write("inviteUser", {}, TRUE, FALSE)}
InviteDialog == [Plain({"apps"}) EXCEPT !.mount = {}, !.tabs = {"apps"},
                    !.writes = InviteForm]

ApplicationListView == [Plain({"apps"}) EXCEPT !.guarded = {"apps"}]

\* The recent activity has a timer like that of the statistics, and the usage only the
\* load on mount: "stats" stands for the three.
DashboardView == [Plain({"stats", "health", "trends"}) EXCEPT
                     !.mount = {{"stats", "health", "trends"}}, !.hidden = TRUE,
                     !.timed = {"stats", "health"}, !.filtered = {"trends"},
                     !.guarded = {"health"}, !.silent = {"stats", "trends"}]

\* The users and the logs of one application, tabs of ApplicationDetailView.
AddUserForm == {Write("addUser", {"users"}, TRUE, FALSE)}
MemberRows == {Write("sendEmail", {}, FALSE, FALSE)}
MemberDialogs == {Write("changeRole", {"users"}, TRUE, FALSE),
                  Write("removeUser", {"users"}, TRUE, FALSE)}
AppUsers == [Plain({"users"}) EXCEPT !.refreshed = {"users"},
                !.writes = AddUserForm \cup MemberRows \cup MemberDialogs]
AppLogs == [Plain({"logs"}) EXCEPT !.mount = {}, !.tabs = {"logs"}, !.guarded = {"logs"}]

\* The tabs and the account buttons of UserDetailView (see also UserDetail).
UserTables == {"memberships", "sessions"}
UserTabs == [Plain(UserTables) EXCEPT !.guarded = UserTables, !.cleared = {"sessions"}]
AccountDialogs == {Write(action, {}, TRUE, FALSE) :
                      action \in {"revokeTokens", "unlockAccount", "deleteAccount"}}
UserActions == [Plain({}) EXCEPT !.writes = AccountDialogs]

\* The buttons of ApplicationDetailView that leave its copy alone (see ApplicationDetail).
AppDialogs == {Write(action, {}, TRUE, FALSE) :
                  action \in {"deleteApplication", "rotateSecret"}}
AppActions == [Plain({}) EXCEPT !.writes = AppDialogs]

\* A page that is one form.
SubmitForm == {Write("handleSubmit", {}, TRUE, FALSE)}
CreateApplicationView == [Plain({}) EXCEPT !.writes = SubmitForm]

\* Success is shown even when the request fails; "Resend email" submits again.
ForgotPasswordView == [Plain({}) EXCEPT !.writes = SubmitForm]

\* Success leaves the page and drops the token.
ResetPasswordView == [Plain({}) EXCEPT !.writes = SubmitForm]

\* The figures with the recent events, and the panels that are loaded once: "panels" stands
\* for the checklist, the token statistics and the geography.
SecurityDashboardView == [Plain({"security", "panels"}) EXCEPT
                             !.guarded = {"security"}, !.silent = {"panels"}]

\* The connections are tested once the configuration has arrived, before the page is
\* shown, and on their button.
SettingsView == [Plain({"config", "connections"}) EXCEPT
                    !.mount = {{"config"}}, !.hidden = TRUE, !.then = {"connections"},
                    !.guarded = {"config", "connections"}, !.cleared = {"connections"}]

\* The admin is told of success even when these writes fail.
ProfileForms == {Write("updateProfile", {}, TRUE, FALSE),
                 Write("sendPasswordReset", {}, TRUE, FALSE)}
ProfileView == [Plain({"sessions"}) EXCEPT !.cleared = {"sessions"}, !.silent = {"sessions"},
                   !.writes = ProfileForms]

\* The panels of the policy page beside the editor (see PolicyEditor).  A simulation
\* that is refused for its inputs is one that fails.
SimulatorCard == {"result"}
PolicySimulator == [Plain(SimulatorCard) EXCEPT !.mount = {}, !.typed = SimulatorCard,
                       !.guarded = SimulatorCard, !.blanked = SimulatorCard]

\* Decisions are loaded last in a load of the editor, whose button shows the progress,
\* and by the switch between all of them and the divergences.
DecisionsTable == {"decisions"}
PolicyDecisions == [Plain(DecisionsTable) EXCEPT !.filtered = DecisionsTable,
                       !.refreshed = DecisionsTable, !.silent = DecisionsTable]

\* The admin picks a version of the history to look at.
PolicyVersions == [Plain({"version"}) EXCEPT !.mount = {},
                      !.filtered = {"version"}, !.silent = {"version"}]

Views == {SessionsView, SecurityEventsView, AdminLogsView, AlertRules, AlertHistory,
          IpReputation, BlockedIps, UserLists, UserListLogs, InviteDialog,
          ApplicationListView, DashboardView, AppUsers, AppLogs,
          UserTabs, UserActions, AppActions, CreateApplicationView,
          ForgotPasswordView, ResetPasswordView,
          SecurityDashboardView, SettingsView, ProfileView,
          PolicySimulator, PolicyDecisions, PolicyVersions}

\* "No write" and "no filters" are neither a write nor a filter.
ASSUME NoneAssumption == /\ \A v \in Views : None \notin v.writes
                         /\ None \notin {0, 1}

-----------------------------------------------------------------------------
VARIABLES
    view,      \* the mounted view
    calls,     \* the requests in flight
    shown,     \* per source: the filters and the server state its rows answer
    query,     \* per source: the filters now (0 or 1)
    spinning,  \* loads shown as in progress
    busy,      \* writes whose button is locked
    stamp,     \* state of the server: counts the writes it has performed
    told,      \* history, per source: the last write its admin was told had succeeded
    asked,     \* history, per source: the filters of the latest load
    mixed,     \* history: sources of which two loads were in flight at once
    failed     \* history: sources whose last answer, if any, was a failure

page == <<shown, query, spinning, busy>>
history == <<told, asked, mixed, failed>>
vars == <<view, calls, stamp, page, history>>

Sources == view.sources
Writes == view.writes
Loads == {{s} : s \in Sources} \cup view.mount

\* Before its first answer, and when it is emptied, a source has no rows.
Nothing == [query |-> None, stamp |-> 0]
NoCall == [at |-> "none", load |-> {}, after |-> {}, write |-> None, query |-> 0, stamp |-> 0]

\* A load of these sources, for the write that waits for it or for None; a write.  `after`
\* is the load whose progress lasts until this one ends.
NewLoad(load, write, q) ==
    [NoCall EXCEPT !.at = "sent", !.load = load, !.write = write, !.query = q]
NewWrite(w) == [NoCall EXCEPT !.at = "sent", !.write = w]

FreeIds == {i \in Ids : calls[i].at = "none"}
IsLoad(i) == calls[i].load # {}
IsWrite(i) == calls[i].at # "none" /\ calls[i].load = {}
InFlight(s) == \E i \in Ids : s \in calls[i].load
Hidden == view.hidden /\ view.mount \cap spinning # {}

\* The loads of these that show progress.
Visible(loads) == {l \in loads : \A s \in view.silent : l # {s}}

\* The distinct slots new loads can take, the slots in `own` being vacated.
Places(loads, own) ==
    {place \in [loads -> FreeIds \cup own] : IsInjective(place)}

Init ==
    /\ view \in Views
    /\ stamp = 0 /\ query = 0 /\ busy = {}
    /\ spinning = Visible(view.mount)
    /\ shown = [s \in Sources |-> Nothing]
    /\ told = [s \in Sources |-> 0]
    /\ asked = [s \in Sources |-> IF s \in UNION view.mount THEN 0 ELSE None]
    /\ mixed = {} /\ failed = {}
    /\ \E place \in {p \in [view.mount -> Ids] : IsInjective(p)} :
         calls = [i \in Ids |->
                    IF i \in Range(place)
                    THEN [NoCall EXCEPT !.at = "sent", !.load = CHOOSE l \in view.mount : place[l] = i]
                    ELSE NoCall]

-----------------------------------------------------------------------------
(* What starts a request *)

\* Starts these loads with filters q, in place of the calls in `own`.
StartLoads(loads, q, write, own) ==
    LET started == UNION loads IN
    /\ \E place \in Places(loads, own) :
         calls' = [i \in Ids |->
                     IF i \in Range(place)
                     THEN NewLoad(CHOOSE l \in loads : place[l] = i, write, q)
                     ELSE IF i \in own THEN NoCall ELSE calls[i]]
    /\ spinning' = spinning \cup Visible(loads)
    /\ shown' = [s \in Sources |-> IF s \in started \cap view.blanked THEN Nothing ELSE shown[s]]
    /\ asked' = [s \in Sources |-> IF s \in started THEN q ELSE asked[s]]
    /\ mixed' = (mixed \ started) \cup {s \in started : InFlight(s)}

\* The admin picks other filters or another page, which loads.
Filter(s) ==
    /\ s \in view.filtered /\ ~Hidden
    /\ \E q \in {0, 1} : query' = q /\ StartLoads({{s}}, q, None, {})
    /\ UNCHANGED <<view, stamp, busy, told, failed>>

\* The admin edits a filter that loads only on Enter or on its button.
TypeAhead(s) ==
    /\ s \in view.typed
    /\ query' = 1 - query
    /\ UNCHANGED <<view, calls, stamp, shown, spinning, busy, history>>

\* A load the page starts with the filters it has.
Reload(s) ==
    /\ StartLoads({{s}}, query, None, {})
    /\ UNCHANGED <<view, stamp, query, busy, told, failed>>

\* The admin presses the source's refresh button (or Enter, in a filter).
Refresh(s) ==
    /\ ~Hidden
    /\ s \in view.refreshed \/ (s \in view.guarded /\ {s} \notin spinning)
    /\ Reload(s)

\* The admin opens a tab or dialog whose list has no rows (a list of the server that
\* was loaded once is taken to have some).
OpenTab(s) == s \in view.tabs /\ shown[s] = Nothing /\ Reload(s)

\* The source's interval elapses.
Timer(s) == s \in view.timed /\ Reload(s)

\* The admin submits or confirms a write, unless its button is locked.
SubmitWrite(w) ==
    /\ w \notin busy
    /\ \E i \in FreeIds : calls' = [calls EXCEPT ![i] = NewWrite(w)]
    /\ busy' = IF w.locks THEN busy \cup {w} ELSE busy
    /\ UNCHANGED <<view, stamp, shown, query, spinning, history>>

-----------------------------------------------------------------------------
(* What becomes of a request *)

\* The API performs a request.  A write the page never shows leaves the stamp alone.
Serve(i) ==
    /\ calls[i].at = "sent"
    /\ stamp' = IF IsWrite(i) /\ calls[i].write.again # {} THEN stamp + 1 ELSE stamp
    /\ stamp' <= MaxStamp
    /\ calls' = [calls EXCEPT ![i].at = "served", ![i].stamp = stamp']
    /\ UNCHANGED <<view, page, history>>

\* Mutant of LoadEnded: the write's button is left locked.
LoadEndedLocked(i) ==
    /\ spinning' = spinning \ {calls[i].load, calls[i].after}
    /\ calls' = [calls EXCEPT ![i] = NoCall]
    /\ UNCHANGED <<view, stamp, query, busy, told, asked, mixed>>

\* Every load ends the same way: its progress ends, and so does the write waiting for it.
LoadEnded(i) ==
    /\ spinning' = spinning \ {calls[i].load, calls[i].after}
    /\ busy' = busy \ {calls[i].write}
    /\ calls' = [calls EXCEPT ![i] = NoCall]
    /\ UNCHANGED <<view, stamp, query, told, asked, mixed>>

\* The answer replaces the rows, whatever was asked since.
Answer(i) ==
    /\ calls[i].at = "served" /\ IsLoad(i)
    /\ shown' = [s \in Sources |-> IF s \in calls[i].load
                                   THEN [query |-> calls[i].query, stamp |-> calls[i].stamp]
                                   ELSE shown[s]]
    /\ failed' = failed \ calls[i].load

LoadAnswered(i) == Answer(i) /\ view.then \subseteq calls[i].load /\ LoadEnded(i)

\* The load goes on with the sources that come next, its progress still shown.
LoadContinued(i) ==
    /\ Answer(i) /\ ~(view.then \subseteq calls[i].load)
    /\ calls' = [calls EXCEPT ![i] =
                    [NewLoad(view.then, calls[i].write, query) EXCEPT !.after = calls[i].load]]
    /\ spinning' = spinning \cup {view.then}
    /\ asked' = [s \in Sources |-> IF s \in view.then THEN query ELSE asked[s]]
    /\ mixed' = (mixed \ view.then) \cup {s \in view.then : InFlight(s)}
    /\ UNCHANGED <<view, stamp, query, busy, told>>

\* A load fails, before the API performed it or after: a toast, and rows emptied or kept.
LoadFailed(i) ==
    /\ IsLoad(i)
    /\ shown' = [s \in Sources |-> IF s \in calls[i].load \cap view.cleared
                                   THEN Nothing ELSE shown[s]]
    /\ failed' = failed \cup calls[i].load
    /\ LoadEnded(i)

\* Mutant of WriteAnswered: the page does not load what the write changed.
WriteAnsweredOnly(i) ==
    /\ calls[i].at = "served" /\ IsWrite(i)
    /\ told' = [s \in Sources |-> IF s \in calls[i].write.again
                                  THEN calls[i].stamp ELSE told[s]]
    /\ StartLoads({}, query, None, {i})
    /\ busy' = busy \ {calls[i].write}
    /\ UNCHANGED <<view, stamp, query, failed>>

\* A write is confirmed: the admin is told, and the page loads what it changed.
WriteAnswered(i) ==
    LET w == calls[i].write IN
    /\ calls[i].at = "served" /\ IsWrite(i)
    /\ told' = [s \in Sources |-> IF s \in w.again /\ told[s] < calls[i].stamp
                                  THEN calls[i].stamp ELSE told[s]]
    /\ StartLoads({{s} : s \in w.again}, query, IF w.waits THEN w ELSE None, {i})
    /\ busy' = IF w.waits THEN busy ELSE busy \ {w}
    /\ UNCHANGED <<view, stamp, query, failed>>

\* A write fails, before the API performed it or after: the admin is told it failed.
WriteFailed(i) ==
    /\ IsWrite(i)
    /\ busy' = busy \ {calls[i].write}
    /\ calls' = [calls EXCEPT ![i] = NoCall]
    /\ UNCHANGED <<view, stamp, shown, query, spinning, history>>

Next ==
    \/ \E s \in Sources : Filter(s) \/ TypeAhead(s) \/ Refresh(s) \/ OpenTab(s) \/ Timer(s)
    \/ \E w \in Writes : SubmitWrite(w)
    \/ \E i \in Ids : \/ Serve(i) \/ LoadAnswered(i) \/ LoadContinued(i) \/ LoadFailed(i)
                      \/ WriteAnswered(i) \/ WriteFailed(i)

Spec == Init /\ [][Next]_vars

-----------------------------------------------------------------------------
(* Properties *)

\* Every variable keeps its type, and a call in flight is a load or a write of the view.
TypeOK ==
    /\ view \in Views
    /\ stamp \in 0..MaxStamp /\ query \in {0, 1}
    /\ spinning \subseteq Loads /\ busy \subseteq Writes
    /\ shown \in [Sources -> [query : {0, 1, None}, stamp : 0..MaxStamp]]
    /\ told \in [Sources -> 0..MaxStamp]
    /\ asked \in [Sources -> {0, 1, None}]
    /\ mixed \subseteq Sources /\ failed \subseteq Sources
    /\ calls \in [Ids -> {NoCall} \cup
                    [at : {"sent", "served"}, load : Loads \cup {{}}, after : Loads \cup {{}},
                     write : Writes \cup {None}, query : {0, 1}, stamp : 0..MaxStamp]]

\* Nothing shows progress for ever: a load shown as in progress, and a write whose button
\* is locked, have a request in flight whose answer or failure lifts it, however loads of
\* the same source overlap and whichever step of a write and its reload, or of two loads in
\* a row, fails.
SpinnersEnd ==
    /\ \A l \in spinning : \E i \in Ids : l \in {calls[i].load, calls[i].after}
    /\ \A w \in busy : \E i \in Ids : calls[i].write = w

\* Once nothing loads a source, its rows answer the filters last asked for, and include
\* every write the admin was told had succeeded, provided the last load did not fail and
\* had the source to itself (answers are applied in the order they arrive: with two loads
\* of a source in flight the older one may be applied last).
FreshWhenQuiet ==
    \A s \in Sources \ (mixed \cup failed) :
      InFlight(s) \/ (shown[s].query = asked[s] /\ shown[s].stamp >= told[s])

\* A locked button sends its write once: two requests of the same locked write are never
\* in flight together, although a write fails, is answered and waits for loads in between.
LockedWritesOnce ==
    \A i, j \in Ids :
      IsWrite(i) /\ IsWrite(j) /\ calls[i].write = calls[j].write
        /\ calls[i].write.locks => i = j
=============================================================================
