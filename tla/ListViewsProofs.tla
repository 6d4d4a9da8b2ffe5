-------------------------- MODULE ListViewsProofs --------------------------
(***************************************************************************)
(* Theorems about ListViews, for any number of requests in flight and of   *)
(* writes.  The table of panels enters through one lemma, PanelsWellFormed; *)
(* what follows holds of any table with that property.                     *)
(***************************************************************************)
EXTENDS ListViews, TLAPS

\* A panel starts on mount loads of sources of its own, no source twice; a load goes on
\* with at most one source, and a write that waits for a load waits for one.
LoadsOK(v) ==
    /\ \A l \in v.mount : l \subseteq v.sources /\ l # {}
    /\ \A k, l \in v.mount : k = l \/ k \cap l = {}
    /\ v.then = {} \/ \E s \in v.sources : v.then = {s}

WriteOK(w, sources) ==
    /\ w.again \subseteq sources
    /\ w.locks \in BOOLEAN /\ w.waits \in BOOLEAN
    /\ w.waits => \E s \in sources : w.again = {s}

PanelOK(v) == LoadsOK(v) /\ \A w \in v.writes : WriteOK(w, v.sources)

\* Every row of the table is a well-formed panel.
LEMMA PanelsWellFormed == \A v \in Views : PanelOK(v)
<1>1. PanelOK(SessionsView) BY DEF SessionsView, Plain, PanelOK, LoadsOK
<1>2. PanelOK(SecurityEventsView) BY DEF SecurityEventsView, Plain, PanelOK, LoadsOK
<1>3. PanelOK(AdminLogsView)
  <2>1. /\ AdminLogsView.then = {}
        /\ AdminLogsView.sources = {"logs"} /\ AdminLogsView.mount = {{"logs"}}
        /\ AdminLogsView.writes =
             {Write("exportLogs", {}, TRUE, FALSE)}
    BY DEF AdminLogsView, Plain
  <2>2. WriteOK(Write("exportLogs", {}, TRUE, FALSE), {"logs"})
    BY DEF Write, WriteOK
  <2> QED BY <2>1, <2>2 DEF PanelOK, LoadsOK
<1>4. PanelOK(AlertRules)
  <2>1. /\ AlertRules.then = {}
        /\ AlertRules.sources = {"rules"} /\ AlertRules.mount = {{"rules"}}
        /\ AlertRules.writes =
             {Write("submitRule", {"rules"}, TRUE, TRUE),
              Write("deleteRule", {"rules"}, FALSE, FALSE)}
    BY DEF AlertRules, RulesTable, RuleDialog, Plain
  <2>2. WriteOK(Write("submitRule", {"rules"}, TRUE, TRUE), {"rules"})
    BY DEF Write, WriteOK
  <2>3. WriteOK(Write("deleteRule", {"rules"}, FALSE, FALSE), {"rules"})
    BY DEF Write, WriteOK
  <2> QED BY <2>1, <2>2, <2>3 DEF PanelOK, LoadsOK
<1>5. PanelOK(AlertHistory)
  <2>1. /\ AlertHistory.then = {}
        /\ AlertHistory.sources = {"alerts"} /\ AlertHistory.mount = {{"alerts"}}
        /\ AlertHistory.writes =
             {Write("acknowledge", {"alerts"}, FALSE, FALSE)}
    BY DEF AlertHistory, HistoryTable, Plain
  <2>2. WriteOK(Write("acknowledge", {"alerts"}, FALSE, FALSE), {"alerts"})
    BY DEF Write, WriteOK
  <2> QED BY <2>1, <2>2 DEF PanelOK, LoadsOK
<1>6. PanelOK(IpReputation) BY DEF IpReputation, LookupCard, Plain, PanelOK, LoadsOK
<1>7. PanelOK(BlockedIps)
  <2>1. /\ BlockedIps.then = {}
        /\ BlockedIps.sources = {"blocked"} /\ BlockedIps.mount = {{"blocked"}}
        /\ BlockedIps.writes =
             {Write("submitBlock", {"blocked"}, TRUE, TRUE),
              Write("unblock", {"blocked"}, FALSE, FALSE)}
    BY DEF BlockedIps, BlockedTable, BlockDialog, Plain
  <2>2. WriteOK(Write("submitBlock", {"blocked"}, TRUE, TRUE), {"blocked"})
    BY DEF Write, WriteOK
  <2>3. WriteOK(Write("unblock", {"blocked"}, FALSE, FALSE), {"blocked"})
    BY DEF Write, WriteOK
  <2> QED BY <2>1, <2>2, <2>3 DEF PanelOK, LoadsOK
<1>8. PanelOK(UserLists)
  <2>1. /\ UserLists.then = {}
        /\ UserLists.sources = {"users", "superadmins"} /\ UserLists.mount = {{"users"}, {"superadmins"}}
        /\ UserLists.writes =
             {Write("createSuperadmin", {"superadmins", "users"}, TRUE, FALSE),
              Write("saveSuperadmin", {"superadmins"}, TRUE, FALSE),
              Write("deleteSuperadmin", {"superadmins", "users"}, TRUE, FALSE)}
    BY DEF UserLists, SuperadminsTab, SuperadminDialogs, Plain
  <2>2. WriteOK(Write("createSuperadmin", {"superadmins", "users"}, TRUE, FALSE), {"users", "superadmins"})
    BY DEF Write, WriteOK
  <2>3. WriteOK(Write("saveSuperadmin", {"superadmins"}, TRUE, FALSE), {"users", "superadmins"})
    BY DEF Write, WriteOK
  <2>4. WriteOK(Write("deleteSuperadmin", {"superadmins", "users"}, TRUE, FALSE), {"users", "superadmins"})
    BY DEF Write, WriteOK
  <2> QED BY <2>1, <2>2, <2>3, <2>4 DEF PanelOK, LoadsOK
<1>9. PanelOK(UserListLogs)
  <2>1. /\ UserListLogs.then = {}
        /\ UserListLogs.sources = {"logs"} /\ UserListLogs.mount = {}
        /\ UserListLogs.writes =
             {Write("quickAction", {}, FALSE, FALSE)}
    BY DEF UserListLogs, UsersTab, Plain
  <2>2. WriteOK(Write("quickAction", {}, FALSE, FALSE), {"logs"})
    BY DEF Write, WriteOK
  <2> QED BY <2>1, <2>2 DEF PanelOK, LoadsOK
<1>10. PanelOK(InviteDialog)
  <2>1. /\ InviteDialog.then = {}
        /\ InviteDialog.sources = {"apps"} /\ InviteDialog.mount = {}
        /\ InviteDialog.writes =
             {Write("inviteUser", {}, TRUE, FALSE)}
    BY DEF InviteDialog, InviteForm, Plain
  <2>2. WriteOK(Write("inviteUser", {}, TRUE, FALSE), {"apps"})
    BY DEF Write, WriteOK
  <2> QED BY <2>1, <2>2 DEF PanelOK, LoadsOK
<1>11. PanelOK(ApplicationListView) BY DEF ApplicationListView, Plain, PanelOK, LoadsOK
<1>12. PanelOK(DashboardView) BY DEF DashboardView, Plain, PanelOK, LoadsOK
<1>13. PanelOK(AppUsers)
  <2>1. /\ AppUsers.then = {}
        /\ AppUsers.sources = {"users"} /\ AppUsers.mount = {{"users"}}
        /\ AppUsers.writes =
             {Write("addUser", {"users"}, TRUE, FALSE),
              Write("changeRole", {"users"}, TRUE, FALSE),
              Write("removeUser", {"users"}, TRUE, FALSE),
              Write("sendEmail", {}, FALSE, FALSE)}
    BY DEF AppUsers, AddUserForm, MemberRows, MemberDialogs, Plain
  <2>2. WriteOK(Write("addUser", {"users"}, TRUE, FALSE), {"users"})
    BY DEF Write, WriteOK
  <2>3. WriteOK(Write("changeRole", {"users"}, TRUE, FALSE), {"users"})
    BY DEF Write, WriteOK
  <2>4. WriteOK(Write("removeUser", {"users"}, TRUE, FALSE), {"users"})
    BY DEF Write, WriteOK
  <2>5. WriteOK(Write("sendEmail", {}, FALSE, FALSE), {"users"})
    BY DEF Write, WriteOK
  <2> QED BY <2>1, <2>2, <2>3, <2>4, <2>5 DEF PanelOK, LoadsOK
<1>14. PanelOK(AppLogs) BY DEF AppLogs, Plain, PanelOK, LoadsOK
<1>15. PanelOK(UserTabs)
  <2>1. /\ UserTabs.then = {}
        /\ UserTabs.sources = {"memberships", "sessions"}
        /\ UserTabs.mount = {{"memberships"}, {"sessions"}}
        /\ UserTabs.writes = {}
    BY DEF UserTabs, UserTables, Plain
  <2> QED BY <2>1 DEF PanelOK, LoadsOK
<1>16. PanelOK(UserActions)
  <2>1. /\ UserActions.then = {}
        /\ UserActions.sources = {} /\ UserActions.mount = {}
        /\ UserActions.writes =
             {Write("revokeTokens", {}, TRUE, FALSE),
              Write("unlockAccount", {}, TRUE, FALSE),
              Write("deleteAccount", {}, TRUE, FALSE)}
    BY DEF UserActions, AccountDialogs, Plain
  <2>2. \A name : WriteOK(Write(name, {}, TRUE, FALSE), {}) BY DEF Write, WriteOK
  <2> QED BY <2>1, <2>2 DEF PanelOK, LoadsOK
<1>17. PanelOK(AppActions)
  <2>1. /\ AppActions.then = {}
        /\ AppActions.sources = {} /\ AppActions.mount = {}
        /\ AppActions.writes =
             {Write("deleteApplication", {}, TRUE, FALSE),
              Write("rotateSecret", {}, TRUE, FALSE)}
    BY DEF AppActions, AppDialogs, Plain
  <2>2. \A name : WriteOK(Write(name, {}, TRUE, FALSE), {}) BY DEF Write, WriteOK
  <2> QED BY <2>1, <2>2 DEF PanelOK, LoadsOK
<1>18. PanelOK(CreateApplicationView)
  <2>1. /\ CreateApplicationView.then = {}
        /\ CreateApplicationView.sources = {} /\ CreateApplicationView.mount = {}
        /\ CreateApplicationView.writes = {Write("handleSubmit", {}, TRUE, FALSE)}
    BY DEF CreateApplicationView, SubmitForm, Plain
  <2>2. WriteOK(Write("handleSubmit", {}, TRUE, FALSE), {}) BY DEF Write, WriteOK
  <2> QED BY <2>1, <2>2 DEF PanelOK, LoadsOK
<1>19. PanelOK(SecurityDashboardView)
  <2>1. /\ SecurityDashboardView.then = {}
        /\ SecurityDashboardView.sources = {"security", "panels"}
        /\ SecurityDashboardView.mount = {{"security"}, {"panels"}}
        /\ SecurityDashboardView.writes = {}
    BY DEF SecurityDashboardView, Plain
  <2> QED BY <2>1 DEF PanelOK, LoadsOK
<1>20. PanelOK(SettingsView)
  <2>1. /\ SettingsView.then = {"connections"}
        /\ SettingsView.sources = {"config", "connections"}
        /\ SettingsView.mount = {{"config"}}
        /\ SettingsView.writes = {}
    BY DEF SettingsView, Plain
  <2> QED BY <2>1 DEF PanelOK, LoadsOK
<1>21. PanelOK(ProfileView)
  <2>1. /\ ProfileView.then = {}
        /\ ProfileView.sources = {"sessions"} /\ ProfileView.mount = {{"sessions"}}
        /\ ProfileView.writes =
             {Write("updateProfile", {}, TRUE, FALSE),
              Write("sendPasswordReset", {}, TRUE, FALSE)}
    BY DEF ProfileView, ProfileForms, Plain
  <2>2. \A name : WriteOK(Write(name, {}, TRUE, FALSE), {"sessions"}) BY DEF Write, WriteOK
  <2> QED BY <2>1, <2>2 DEF PanelOK, LoadsOK
<1>22. PanelOK(ForgotPasswordView) BY <1>18 DEF ForgotPasswordView, CreateApplicationView
<1>23. PanelOK(ResetPasswordView) BY <1>18 DEF ResetPasswordView, CreateApplicationView
<1>24. PanelOK(PolicySimulator)
  BY DEF PolicySimulator, SimulatorCard, Plain, PanelOK, LoadsOK
<1>25. PanelOK(PolicyDecisions)
  BY DEF PolicyDecisions, DecisionsTable, Plain, PanelOK, LoadsOK
<1>26. PanelOK(PolicyVersions) BY DEF PolicyVersions, Plain, PanelOK, LoadsOK
<1> QED
  BY <1>1, <1>2, <1>3, <1>4, <1>5, <1>6, <1>7, <1>8, <1>9, <1>10, <1>11, <1>12, <1>13, <1>14,
     <1>15, <1>16, <1>17, <1>18, <1>19, <1>20, <1>21, <1>22, <1>23, <1>24, <1>25, <1>26
  DEF Views

-----------------------------------------------------------------------------
(* The invariant *)

\* A call in flight without a load is a write, a load with a write is what that write
\* waits for, a load started by another is of the sources that come next, and no call has
\* seen more writes than the server performed.
ShapeInv ==
    \A i \in Ids :
      /\ calls[i].at # "none" /\ calls[i].load = {} => calls[i].write \in Writes
      /\ calls[i].load # {} /\ calls[i].write # None => calls[i].write.waits
      /\ calls[i].after # {} => calls[i].load # {} /\ calls[i].load = view.then
      /\ calls[i].stamp <= stamp

\* A locked write is in flight, or waiting for its load, only once.
LockInv ==
    \A i \in Ids : calls[i].write # None /\ calls[i].write.locks =>
      /\ calls[i].write \in busy
      /\ \A j \in Ids : calls[j].write = calls[i].write => j = i

\* Of a source that is loaded undisturbed, the load in flight carries the latest filters,
\* and once performed every write the admin has been told of.
FreshInv ==
    \A s \in Sources :
      /\ told[s] <= stamp
      /\ s \notin mixed =>
           \A i \in Ids : s \in calls[i].load =>
             /\ \A j \in Ids : s \in calls[j].load => j = i
             /\ calls[i].query = asked[s]
             /\ calls[i].at = "served" => calls[i].stamp >= told[s]

IInv == TypeOK /\ ShapeInv /\ LockInv /\ SpinnersEnd /\ FreshInv /\ FreshWhenQuiet

-----------------------------------------------------------------------------
(* What starting loads does *)

\* StartLoads puts each load in a slot of its own and changes no other request.
LEMMA Starting ==
    ASSUME NEW loads, NEW q, NEW write, NEW own \in SUBSET Ids,
           StartLoads(loads, q, write, own)
    PROVE  \E new \in SUBSET (FreeIds \cup own) :
             /\ calls' = [i \in Ids |-> calls'[i]]
             /\ \A l \in loads : \E i \in new : calls'[i] = NewLoad(l, write, q)
             /\ \A i \in new : \E l \in loads : calls'[i] = NewLoad(l, write, q)
             /\ \A i, j \in new : calls'[i].load = calls'[j].load => i = j
             /\ \A i \in Ids \ new : calls'[i] = IF i \in own THEN NoCall ELSE calls[i]
<1>1. PICK place \in Places(loads, own) :
        calls' = [i \in Ids |->
                    IF i \in Range(place)
                    THEN NewLoad(CHOOSE l \in loads : place[l] = i, write, q)
                    ELSE IF i \in own THEN NoCall ELSE calls[i]]
  BY DEF StartLoads
<1>2. /\ place \in [loads -> FreeIds \cup own]
      /\ \A k, l \in loads : place[k] = place[l] => k = l
  BY <1>1 DEF Places, IsInjective
<1> DEFINE new == Range(place)
<1>3. new \in SUBSET (FreeIds \cup own) /\ FreeIds \subseteq Ids
  BY <1>2 DEF Range, FreeIds
<1>4. \A l \in loads : calls'[place[l]] = NewLoad(l, write, q) /\ place[l] \in new
  <2> TAKE l \in loads
  <2>1. place[l] \in new BY <1>2 DEF Range
  <2>2. (CHOOSE k \in loads : place[k] = place[l]) = l BY <1>2
  <2> QED BY <1>1, <1>3, <2>1, <2>2
<1>5. \A i \in new : \E l \in loads : i = place[l] BY <1>2 DEF Range
<1>6. \A l \in loads : NewLoad(l, write, q).load = l BY DEF NewLoad, NoCall
<1>7. \A i, j \in new : calls'[i].load = calls'[j].load => i = j
  BY <1>4, <1>5, <1>6
<1>8. \A l \in loads : \E i \in new : calls'[i] = NewLoad(l, write, q) BY <1>4
<1>9. \A i \in new : \E l \in loads : calls'[i] = NewLoad(l, write, q) BY <1>4, <1>5
<1>10. /\ calls' = [i \in Ids |-> calls'[i]]
       /\ \A i \in Ids \ new : calls'[i] = IF i \in own THEN NoCall ELSE calls[i]
  BY <1>1, <1>3
<1> HIDE DEF new
<1> QED BY <1>3, <1>7, <1>8, <1>9, <1>10

\* A request in a free slot, and one whose slot is given up, loads nothing.
LEMMA FreeCalls == \A i \in FreeIds : TypeOK => calls[i] = NoCall
BY DEF FreeIds, TypeOK, NoCall

\* The loads of a panel have sources, all of them its own.
LEMMA LoadsNonEmpty ==
    ASSUME TypeOK PROVE \A l \in Loads : l # {} /\ l \subseteq Sources
<1>1. \A l \in view.mount : l # {} /\ l \subseteq view.sources
  BY PanelsWellFormed DEF TypeOK, PanelOK, LoadsOK
<1>2. \A s \in view.sources : {s} # {} /\ {s} \subseteq view.sources
  OBVIOUS
<1> QED BY <1>1, <1>2 DEF Loads, Sources

\* Loads of single sources, started in free slots or in the slots of writes, keep the
\* progress shown and what is known of the rows; told' may change for their sources.
LEMMA StartKeeps ==
    ASSUME IInv, NEW loads \in SUBSET {{s} : s \in Sources}, NEW q \in {0, 1},
           NEW write \in Writes \cup {None},
           NEW own \in SUBSET Ids, \A i \in own : calls[i].load = {},
           StartLoads(loads, q, write, own),
           UNCHANGED <<view, stamp, failed>>,
           \A s \in Sources : told'[s] <= stamp,
           \A s \in Sources : {s} \notin loads => told'[s] = told[s]
    PROVE  /\ \A l \in spinning' : \E i \in Ids : l \in {calls'[i].load, calls'[i].after}
           /\ FreshInv' /\ FreshWhenQuiet'
<1> DEFINE started == UNION loads
<1>1. PICK new \in SUBSET (FreeIds \cup own) :
        /\ calls' = [i \in Ids |-> calls'[i]]
        /\ \A l \in loads : \E i \in new : calls'[i] = NewLoad(l, write, q)
        /\ \A i \in new : \E l \in loads : calls'[i] = NewLoad(l, write, q)
        /\ \A i, j \in new : calls'[i].load = calls'[j].load => i = j
        /\ \A i \in Ids \ new : calls'[i] = IF i \in own THEN NoCall ELSE calls[i]
  BY Starting
<1>2. /\ Sources' = Sources /\ FreeIds \subseteq Ids /\ new \subseteq Ids
      /\ \A s \in Sources : s \in started <=> {s} \in loads
  <2>1. Sources' = Sources BY DEF Sources
  <2>2. FreeIds \subseteq Ids BY DEF FreeIds
  <2>3. new \subseteq Ids BY <2>2
  <2>4. ASSUME NEW s \in Sources PROVE s \in started <=> {s} \in loads
    <3>1. ASSUME NEW l \in loads, s \in l PROVE l = {s} BY <3>1
    <3> QED BY <3>1
  <2> QED BY <2>1, <2>2, <2>3, <2>4
<1>3. \A l : NewLoad(l, write, q).load = l /\ NewLoad(l, write, q).query = q
             /\ NewLoad(l, write, q).at = "sent"
  BY DEF NewLoad, NoCall
<1>4. NoCall.load = {} BY DEF NoCall
<1>5. \A i \in new : calls[i].load = {} BY <1>1, <1>4, FreeCalls DEF IInv
<1>6. \A i \in Ids \ new : calls'[i] = calls[i] \/ (calls[i].load = {} /\ calls'[i].load = {})
  BY <1>1, <1>4
<1>7. ASSUME NEW l \in spinning' PROVE \E i \in Ids : l \in {calls'[i].load, calls'[i].after}
  <2>1. CASE l \in loads BY <1>1, <1>2, <1>3, <2>1
  <2>2. CASE l \notin loads
    <3>1. l \in spinning /\ l # {} BY <2>2, <1>7, LoadsNonEmpty DEF StartLoads, Visible, IInv, TypeOK
    <3>2. PICK i \in Ids : l \in {calls[i].load, calls[i].after} BY <3>1 DEF IInv, SpinnersEnd
    <3>3. calls[i].load # {} BY <3>1, <3>2 DEF IInv, ShapeInv
    <3> QED BY <1>5, <1>6, <3>2, <3>3
  <2> QED BY <2>1, <2>2
<1>8. ASSUME NEW s \in Sources, s \notin mixed', s \in started
      PROVE  \E i \in new : /\ calls'[i] = NewLoad({s}, write, q)
                            /\ \A j \in Ids : s \in calls'[j].load => j = i
  <2>1. ~InFlight(s) BY <1>8 DEF StartLoads
  <2>2. PICK i \in new : calls'[i] = NewLoad({s}, write, q) BY <1>1, <1>2, <1>8
  <2>3. ASSUME NEW j \in Ids, s \in calls'[j].load PROVE j = i
    <3>1. j \in new BY <1>6, <2>1, <2>3 DEF InFlight
    <3>2. PICK l \in loads : calls'[j] = NewLoad(l, write, q) BY <1>1, <3>1
    <3>3. l = {s} BY <1>3, <2>3, <3>2
    <3> QED BY <1>1, <2>2, <3>1, <3>2, <3>3
  <2> QED BY <2>2, <2>3
<1>9. ASSUME NEW s \in Sources, s \notin started, NEW i \in Ids, s \in calls'[i].load
      PROVE  calls'[i] = calls[i]
  <2>1. CASE i \in new
    <3>1. PICK l \in loads : calls'[i] = NewLoad(l, write, q) BY <1>1, <2>1
    <3> QED BY <1>3, <1>9, <3>1
  <2> QED BY <1>6, <1>9, <2>1
<1>10. ASSUME NEW s \in Sources, s \notin started, NEW i \in Ids, s \in calls[i].load
       PROVE  calls'[i] = calls[i]
  BY <1>5, <1>6, <1>10
<1>11. asked' = [s \in Sources |-> IF s \in started THEN q ELSE asked[s]]
  BY DEF StartLoads
<1>12. \A s \in Sources : s \notin started =>
         /\ asked'[s] = asked[s] /\ told'[s] = told[s] /\ shown'[s] = shown[s]
         /\ s \in mixed' <=> s \in mixed
  BY <1>2, <1>11 DEF StartLoads
<1>13. FreshInv'
  <2> SUFFICES ASSUME NEW s \in Sources, s \notin mixed', NEW i \in Ids, s \in calls'[i].load
               PROVE  /\ \A j \in Ids : s \in calls'[j].load => j = i
                      /\ calls'[i].query = asked'[s]
                      /\ calls'[i].at = "served" => calls'[i].stamp >= told'[s]
    BY <1>2 DEF FreshInv
  <2>1. CASE s \in started
    <3>1. PICK k \in new : /\ calls'[k] = NewLoad({s}, write, q)
                           /\ \A j \in Ids : s \in calls'[j].load => j = k
      BY <1>8, <2>1
    <3>2. i = k BY <3>1
    <3>3. calls'[i].query = q /\ calls'[i].at = "sent" BY <1>3, <3>1, <3>2
    <3>4. asked'[s] = q BY <1>11, <2>1
    <3> QED BY <3>1, <3>2, <3>3, <3>4
  <2>2. CASE s \notin started BY <1>9, <1>12, <2>2 DEF IInv, FreshInv
  <2> QED BY <2>1, <2>2
<1>14. FreshWhenQuiet'
  <2> SUFFICES ASSUME NEW s \in Sources, s \notin mixed', s \notin failed, ~InFlight(s)'
               PROVE  shown'[s].query = asked'[s] /\ shown'[s].stamp >= told'[s]
    BY <1>2 DEF FreshWhenQuiet
  <2>1. s \notin started
    <3> SUFFICES ASSUME s \in started PROVE FALSE OBVIOUS
    <3>1. PICK k \in new : calls'[k] = NewLoad({s}, write, q) BY <1>8
    <3>2. k \in Ids /\ s \in calls'[k].load BY <1>2, <1>3, <3>1
    <3> QED BY <3>2 DEF InFlight
  <2>2. ~InFlight(s) BY <1>10, <2>1 DEF InFlight
  <2> QED BY <1>12, <2>1, <2>2 DEF IInv, FreshWhenQuiet
<1> QED BY <1>7, <1>13, <1>14

\* A load takes over no lock: the requests other than the new ones are those before.
LEMMA StartTypes ==
    ASSUME TypeOK, NEW loads \in SUBSET {{s} : s \in Sources}, NEW q \in {0, 1},
           NEW write \in Writes \cup {None}, NEW own \in SUBSET Ids,
           StartLoads(loads, q, write, own), UNCHANGED view
    PROVE  /\ calls' \in [Ids -> {NoCall} \cup
                 [at : {"sent", "served"}, load : Loads \cup {{}}, after : Loads \cup {{}},
                  write : Writes \cup {None}, query : {0, 1}, stamp : 0..MaxStamp]]
           /\ spinning' \subseteq Loads
           /\ shown' \in [Sources -> [query : {0, 1, None}, stamp : 0..MaxStamp]]
           /\ asked' \in [Sources -> {0, 1, None}]
           /\ mixed' \subseteq Sources
<1> DEFINE Call == [at : {"sent", "served"}, load : Loads \cup {{}}, after : Loads \cup {{}},
                    write : Writes \cup {None}, query : {0, 1}, stamp : 0..MaxStamp]
<1>1. PICK new \in SUBSET (FreeIds \cup own) :
        /\ calls' = [i \in Ids |-> calls'[i]]
        /\ \A i \in new : \E l \in loads : calls'[i] = NewLoad(l, write, q)
        /\ \A i \in Ids \ new : calls'[i] = IF i \in own THEN NoCall ELSE calls[i]
  BY Starting
<1>2. loads \subseteq Loads BY DEF Loads
<1>3. 0 \in 0..MaxStamp BY StampAssumption
<1>4. \A l \in loads : NewLoad(l, write, q) \in Call
  BY <1>2, <1>3 DEF NewLoad, NoCall
<1>5. ASSUME NEW i \in Ids PROVE calls'[i] \in {NoCall} \cup Call
  <2>1. CASE i \in new BY <1>1, <1>4, <2>1
  <2>2. CASE i \notin new
    <3>1. calls[i] \in {NoCall} \cup Call BY DEF TypeOK
    <3> QED BY <1>1, <2>2, <3>1
  <2> QED BY <2>1, <2>2
<1> HIDE DEF Call
<1>6. calls' \in [Ids -> {NoCall} \cup Call] BY <1>1, <1>5
<1>7. spinning' \subseteq Loads BY <1>2 DEF StartLoads, TypeOK, Visible
<1>8. Nothing \in [query : {0, 1, None}, stamp : 0..MaxStamp] BY <1>3 DEF Nothing
<1>9. shown' \in [Sources -> [query : {0, 1, None}, stamp : 0..MaxStamp]]
  BY <1>8 DEF StartLoads, TypeOK
<1>10. asked' \in [Sources -> {0, 1, None}] BY DEF StartLoads, TypeOK
<1>11. mixed' \subseteq Sources
  <2>1. UNION loads \subseteq Sources OBVIOUS
  <2> QED BY <2>1 DEF StartLoads, TypeOK
<1> QED BY <1>6, <1>7, <1>9, <1>10, <1>11 DEF Call

-----------------------------------------------------------------------------
(* The initial states *)

LEMMA InitInv == Init => IInv
<1> SUFFICES ASSUME Init PROVE IInv OBVIOUS
<1>1. PICK place \in [view.mount -> Ids] :
        /\ IsInjective(place)
        /\ calls = [i \in Ids |->
                      IF i \in Range(place)
                      THEN [NoCall EXCEPT !.at = "sent", !.load = CHOOSE l \in view.mount : place[l] = i]
                      ELSE NoCall]
  BY DEF Init
<1> DEFINE Mounted(l) == [NoCall EXCEPT !.at = "sent", !.load = l]
<1>2. view \in Views /\ PanelOK(view) BY PanelsWellFormed DEF Init
<1>start. /\ stamp = 0 /\ query = 0 /\ busy = {} /\ spinning \subseteq view.mount /\ mixed = {} /\ failed = {}
      /\ shown = [s \in Sources |-> Nothing]
      /\ told = [s \in Sources |-> 0]
      /\ asked = [s \in Sources |-> IF s \in UNION view.mount THEN 0 ELSE None]
  BY DEF Init, Visible
<1>3. \A l \in view.mount : place[l] \in Ids /\ calls[place[l]] = Mounted(l)
  <2> TAKE l \in view.mount
  <2>1. (CHOOSE k \in view.mount : place[k] = place[l]) = l BY <1>1 DEF IsInjective
  <2>2. place[l] \in Range(place) /\ place[l] \in Ids BY DEF Range
  <2> QED BY <1>1, <2>1, <2>2
<1>4. \A i \in Ids : calls[i] = NoCall \/ \E l \in view.mount : i = place[l]
  BY <1>1 DEF Range
<1>5. \A l : /\ Mounted(l).at = "sent" /\ Mounted(l).load = l /\ Mounted(l).write = None
             /\ Mounted(l).after = {}
             /\ Mounted(l).query = 0 /\ Mounted(l).stamp = 0
  BY DEF NoCall
<1>6. 0 \in 0..MaxStamp BY StampAssumption
<1>7. \A l \in view.mount : Mounted(l) \in
         [at : {"sent", "served"}, load : Loads \cup {{}}, after : Loads \cup {{}},
          write : Writes \cup {None}, query : {0, 1}, stamp : 0..MaxStamp]
  BY <1>6 DEF NoCall, Loads
<1>8. /\ NoCall.at = "none" /\ NoCall.load = {} /\ NoCall.write = None /\ NoCall.stamp = 0
      /\ NoCall.after = {}
  BY DEF NoCall
<1> HIDE DEF Mounted
<1>9. TypeOK
  <2>1. calls \in [Ids -> {NoCall} \cup
                 [at : {"sent", "served"}, load : Loads \cup {{}}, after : Loads \cup {{}},
                  write : Writes \cup {None}, query : {0, 1}, stamp : 0..MaxStamp]]
    <3> DEFINE Call(i) == IF i \in Range(place)
                          THEN [NoCall EXCEPT !.at = "sent",
                                              !.load = CHOOSE l \in view.mount : place[l] = i]
                          ELSE NoCall
    <3>0. calls = [i \in Ids |-> Call(i)] BY <1>1
    <3> HIDE DEF Call
    <3>1. calls = [i \in Ids |-> calls[i]] BY <3>0
    <3> QED BY <1>3, <1>4, <1>7, <3>1
  <2>2. shown \in [Sources -> [query : {0, 1, None}, stamp : 0..MaxStamp]]
    BY <1>6, <1>start DEF Nothing
  <2> QED BY <1>2, <1>6, <1>start, <2>1, <2>2 DEF TypeOK, Loads
<1>10. ShapeInv
  <2>1. \A l \in view.mount : l # {} BY <1>2 DEF PanelOK, LoadsOK
  <2>2. \A i \in Ids : calls[i] = NoCall \/ \E l \in view.mount : calls[i] = Mounted(l) /\ l # {}
    BY <1>3, <1>4, <2>1
  <2>3. \A i \in Ids : /\ calls[i].stamp = 0 /\ calls[i].write = None
                       /\ calls[i].at # "none" => calls[i].load # {}
                       /\ calls[i].after = {}
    BY <1>5, <1>8, <2>2
  <2> QED BY <1>start, <2>3 DEF ShapeInv
<1>11. LockInv BY <1>3, <1>4, <1>5, <1>8 DEF LockInv
<1>12. SpinnersEnd BY <1>3, <1>5, <1>start DEF SpinnersEnd
<1>13. FreshInv
  <2> SUFFICES ASSUME NEW s \in Sources
               PROVE  /\ told[s] <= stamp
                      /\ \A i \in Ids : s \in calls[i].load =>
                           /\ \A j \in Ids : s \in calls[j].load => j = i
                           /\ calls[i].query = asked[s] /\ calls[i].at # "served"
    BY DEF FreshInv
  <2>1. told[s] <= stamp BY <1>start
  <2>2. ASSUME NEW i \in Ids, s \in calls[i].load
        PROVE  \E l \in view.mount : i = place[l] /\ s \in l /\ calls[i] = Mounted(l)
    BY <1>3, <1>4, <1>5, <1>8, <2>2
  <2>3. asked[s] = 0 \/ \A i \in Ids : s \notin calls[i].load BY <1>start, <2>2
  <2>4. \A k, l \in view.mount : s \in k /\ s \in l => k = l BY <1>2 DEF PanelOK, LoadsOK
  <2> QED BY <1>5, <2>1, <2>2, <2>3, <2>4
<1>14. FreshWhenQuiet
  <2> SUFFICES ASSUME NEW s \in Sources, ~InFlight(s)
               PROVE  shown[s].query = asked[s] /\ shown[s].stamp >= told[s]
    BY DEF FreshWhenQuiet
  <2>1. s \notin UNION view.mount BY <1>3, <1>5 DEF InFlight
  <2> QED BY <1>start, <2>1 DEF Nothing
<1> QED BY <1>9, <1>10, <1>11, <1>12, <1>13, <1>14 DEF IInv

-----------------------------------------------------------------------------
(* Steps that start requests *)

\* Filter, Refresh, OpenTab and Timer: one more load, in a free slot.
LEMMA LoadStarts ==
    ASSUME IInv, NEW s \in Sources, NEW q \in {0, 1},
           StartLoads({{s}}, q, None, {}), query' = q,
           UNCHANGED <<view, stamp, busy, told, failed>>
    PROVE  IInv'
<1>1. PICK new \in SUBSET FreeIds :
        /\ \A i \in new : calls'[i] = NewLoad({s}, None, q)
        /\ \A i \in Ids \ new : calls'[i] = calls[i]
  <2> DEFINE loads == {{s}}
             own == {}
  <2>1. own \in SUBSET Ids /\ StartLoads(loads, q, None, own) OBVIOUS
  <2>2. (\A l \in loads : l = {s}) /\ (\A i \in Ids : i \notin own) OBVIOUS
  <2> HIDE DEF loads, own
  <2>3. PICK new \in SUBSET (FreeIds \cup own) :
          /\ calls' = [i \in Ids |-> calls'[i]]
          /\ \A l \in loads : \E i \in new : calls'[i] = NewLoad(l, None, q)
          /\ \A i \in new : \E l \in loads : calls'[i] = NewLoad(l, None, q)
          /\ \A i, j \in new : calls'[i].load = calls'[j].load => i = j
          /\ \A i \in Ids \ new : calls'[i] = IF i \in own THEN NoCall ELSE calls[i]
    BY <2>1, Starting
  <2>4. new \in SUBSET FreeIds BY <2>2, <2>1 DEF FreeIds
  <2>5. \A i \in new : calls'[i] = NewLoad({s}, None, q) BY <2>2, <2>3
  <2>6. \A i \in Ids \ new : calls'[i] = calls[i] BY <2>2, <2>3
  <2> QED BY <2>4, <2>5, <2>6
<1>2. \A i \in new : /\ calls'[i].at = "sent" /\ calls'[i].load = {s} /\ calls'[i].write = None
                     /\ calls'[i].stamp = 0 /\ calls'[i].after = {} /\ calls[i].write = None
  <2>1. \A i \in new : calls[i].write = None BY FreeCalls DEF IInv, NoCall
  <2> QED BY <1>1, <2>1 DEF NewLoad, NoCall
<1>3. {{s}} \in SUBSET {{t} : t \in Sources} /\ {} \in SUBSET Ids /\ Sources' = Sources
  BY DEF Sources
<1>4. /\ \A l \in spinning' : \E i \in Ids : l \in {calls'[i].load, calls'[i].after}
      /\ FreshInv' /\ FreshWhenQuiet'
  <2>1. \A t \in Sources : told'[t] <= stamp BY DEF IInv, FreshInv
  <2> QED BY <1>3, <2>1, StartKeeps
<1>5. TypeOK'
  <2>1. Writes' = Writes /\ Loads' = Loads BY <1>3 DEF Writes, Loads
  <2> QED BY <1>3, <2>1, StartTypes DEF IInv, TypeOK
<1>6. ShapeInv'
  <2>1. 0 <= stamp BY StampAssumption DEF IInv, TypeOK
  <2>2. \A i \in Ids \ new : calls'[i] = calls[i] BY <1>1
  <2> QED BY <1>2, <2>1, <2>2 DEF IInv, ShapeInv, Writes
<1>7. LockInv' BY <1>1, <1>2 DEF IInv, LockInv
<1>8. SpinnersEnd' BY <1>1, <1>2, <1>4 DEF IInv, SpinnersEnd, TypeOK
<1> QED BY <1>4, <1>5, <1>6, <1>7, <1>8 DEF IInv

\* SubmitWrite: a write takes a free slot and, if its button locks, was not in flight.
LEMMA SubmitKeeps == ASSUME IInv, NEW w \in Writes, SubmitWrite(w) PROVE IInv'
<1>1. PICK k \in FreeIds : calls' = [calls EXCEPT ![k] = NewWrite(w)] BY DEF SubmitWrite
<1>2. /\ NewWrite(w).at = "sent" /\ NewWrite(w).load = {} /\ NewWrite(w).write = w
      /\ NewWrite(w).query = 0 /\ NewWrite(w).stamp = 0
      /\ NewWrite(w).after = {}
  BY DEF NewWrite, NoCall
<1>3. /\ k \in Ids /\ calls[k] = NoCall /\ NoCall.load = {} /\ NoCall.write = None
      /\ NoCall.after = {}
  BY FreeCalls DEF IInv, FreeIds, NoCall
<1>4. /\ Sources' = Sources /\ Writes' = Writes /\ Loads' = Loads
  BY DEF SubmitWrite, Sources, Writes, Loads
<1>5. w # None BY NoneAssumption DEF IInv, TypeOK, Writes
<1>6. /\ calls'[k] = NewWrite(w) /\ \A i \in Ids \ {k} : calls'[i] = calls[i]
      /\ calls' = [i \in Ids |-> calls'[i]]
  BY <1>1, <1>3 DEF IInv, TypeOK
<1>7. 0 \in 0..MaxStamp /\ 0 <= stamp BY StampAssumption DEF IInv, TypeOK
<1>8. TypeOK'
  <2>1. NewWrite(w) \in [at : {"sent", "served"}, load : Loads \cup {{}}, after : Loads \cup {{}},
                         write : Writes \cup {None}, query : {0, 1}, stamp : 0..MaxStamp]
    BY <1>7 DEF NewWrite, NoCall
  <2>2. calls' \in [Ids -> {NoCall} \cup
                 [at : {"sent", "served"}, load : Loads \cup {{}}, after : Loads \cup {{}},
                  write : Writes \cup {None}, query : {0, 1}, stamp : 0..MaxStamp]]
    BY <1>1, <2>1 DEF IInv, TypeOK
  <2>3. busy' \subseteq Writes BY DEF SubmitWrite, IInv, TypeOK
  <2> QED BY <1>4, <2>2, <2>3 DEF SubmitWrite, history, IInv, TypeOK
<1>9. ShapeInv' BY <1>2, <1>4, <1>6, <1>7 DEF SubmitWrite, IInv, ShapeInv
<1>10. LockInv'
  <2>1. ASSUME w.locks, NEW i \in Ids \ {k} PROVE calls[i].write # w
    BY <1>5, <2>1 DEF SubmitWrite, IInv, LockInv
  <2>2. busy \subseteq busy' /\ (w.locks => w \in busy') BY DEF SubmitWrite
  <2> QED BY <1>2, <1>6, <2>1, <2>2 DEF IInv, LockInv
<1>11. SpinnersEnd'
  <2>1. \A l \in spinning : l # {} BY LoadsNonEmpty DEF IInv, TypeOK
  <2>2. \A v \in busy : v # None BY NoneAssumption DEF IInv, TypeOK, Writes
  <2>3. spinning' = spinning /\ busy' \subseteq busy \cup {w} BY DEF SubmitWrite
  <2> QED BY <1>2, <1>3, <1>6, <2>1, <2>2, <2>3 DEF IInv, SpinnersEnd
<1>12. FreshInv' BY <1>2, <1>4, <1>6 DEF SubmitWrite, history, IInv, FreshInv
<1>13. FreshWhenQuiet'
  BY <1>2, <1>3, <1>4, <1>6 DEF SubmitWrite, history, IInv, FreshWhenQuiet, InFlight
<1> QED BY <1>8, <1>9, <1>10, <1>11, <1>12, <1>13 DEF IInv

-----------------------------------------------------------------------------
(* Steps that end requests *)

\* Serve: what a request has seen now includes every write the admin was told of.
LEMMA ServeKeeps == ASSUME IInv, NEW k \in Ids, Serve(k) PROVE IInv'
<1>1. /\ Sources' = Sources /\ Writes' = Writes /\ Loads' = Loads
  BY DEF Serve, Sources, Writes, Loads
<1>2. /\ stamp \in Nat /\ stamp' \in 0..MaxStamp /\ stamp <= stamp'
  BY StampAssumption DEF Serve, IInv, TypeOK
<1>3. /\ calls[k].at = "sent"
      /\ calls' = [calls EXCEPT ![k] = [calls[k] EXCEPT !.at = "served", !.stamp = stamp']]
  BY DEF Serve
<1> DEFINE Call == [at : {"sent", "served"}, load : Loads \cup {{}}, after : Loads \cup {{}},
                    write : Writes \cup {None}, query : {0, 1}, stamp : 0..MaxStamp]
<1>4. calls \in [Ids -> {NoCall} \cup Call] BY DEF IInv, TypeOK
<1>5. calls[k] \in Call BY <1>3, <1>4 DEF NoCall
<1>6. /\ calls'[k].at = "served" /\ calls'[k].stamp = stamp' /\ calls'[k].load = calls[k].load
      /\ calls'[k].write = calls[k].write /\ calls'[k].query = calls[k].query
      /\ calls'[k].after = calls[k].after
      /\ \A i \in Ids \ {k} : calls'[i] = calls[i]
  BY <1>3, <1>4, <1>5
<1>7. TypeOK'
  <2>1. calls' \in [Ids -> {NoCall} \cup Call] BY <1>2, <1>3, <1>4, <1>5
  <2> QED BY <1>1, <1>2, <2>1 DEF Serve, page, history, IInv, TypeOK
<1>8. \A i \in Ids : calls[i].stamp \in Nat BY <1>4 DEF NoCall
<1>9. ShapeInv'
  <2>1. \A i \in Ids \ {k} : calls[i].stamp <= stamp' BY <1>2, <1>8 DEF IInv, ShapeInv
  <2>2. view' = view BY DEF Serve
  <2> QED BY <1>1, <1>2, <1>3, <1>6, <2>1, <2>2 DEF IInv, ShapeInv
<1>same. /\ shown' = shown /\ spinning' = spinning /\ busy' = busy
      /\ told' = told /\ asked' = asked /\ mixed' = mixed /\ failed' = failed
  BY DEF Serve, page, history
<1>kept. \A i \in Ids : /\ calls'[i].load = calls[i].load /\ calls'[i].write = calls[i].write
                        /\ calls'[i].after = calls[i].after
  BY <1>6
<1>10. LockInv' BY <1>same, <1>kept DEF IInv, LockInv
<1>11. SpinnersEnd' BY <1>same, <1>kept DEF IInv, SpinnersEnd
<1>12. FreshInv'
  <2>1. \A s \in Sources : told[s] \in Nat /\ told[s] <= stamp' BY <1>2 DEF IInv, TypeOK, FreshInv
  <2>2. told' = told /\ mixed' = mixed /\ asked' = asked BY DEF Serve, history
  <2>3. \A i \in Ids : calls'[i].load = calls[i].load /\ calls'[i].query = calls[i].query
    BY <1>6
  <2>4. \A s \in Sources, i \in Ids :
          s \notin mixed /\ s \in calls[i].load /\ calls'[i].at = "served" => calls'[i].stamp >= told[s]
    BY <1>2, <1>6, <2>1 DEF IInv, FreshInv
  <2> QED BY <1>1, <2>1, <2>2, <2>3, <2>4 DEF IInv, FreshInv
<1>13. FreshWhenQuiet'
  BY <1>1, <1>same, <1>kept DEF IInv, FreshWhenQuiet, InFlight
<1> QED BY <1>7, <1>9, <1>10, <1>11, <1>12, <1>13 DEF IInv

\* LoadAnswered and LoadFailed, but for the rows: no lock or progress is left behind.
LEMMA LoadEndKeeps ==
    ASSUME IInv, NEW k \in Ids, IsLoad(k), LoadEnded(k)
    PROVE  /\ ShapeInv' /\ LockInv' /\ SpinnersEnd' /\ FreshInv'
           /\ calls'[k] = NoCall /\ \A i \in Ids \ {k} : calls'[i] = calls[i]
           /\ calls' \in [Ids -> {NoCall} \cup
                 [at : {"sent", "served"}, load : Loads \cup {{}}, after : Loads \cup {{}},
                  write : Writes \cup {None}, query : {0, 1}, stamp : 0..MaxStamp]]
           /\ Sources' = Sources /\ Writes' = Writes /\ Loads' = Loads
<1>1. /\ Sources' = Sources /\ Writes' = Writes /\ Loads' = Loads
  BY DEF LoadEnded, Sources, Writes, Loads
<1>2. /\ calls'[k] = NoCall /\ \A i \in Ids \ {k} : calls'[i] = calls[i]
      /\ calls' \in [Ids -> {NoCall} \cup
                 [at : {"sent", "served"}, load : Loads \cup {{}}, after : Loads \cup {{}},
                  write : Writes \cup {None}, query : {0, 1}, stamp : 0..MaxStamp]]
  BY DEF LoadEnded, IInv, TypeOK
<1>3. /\ NoCall.at = "none" /\ NoCall.load = {} /\ NoCall.write = None /\ NoCall.stamp = 0
      /\ NoCall.after = {}
  BY DEF NoCall
<1>4. /\ spinning' = spinning \ {calls[k].load, calls[k].after}
      /\ busy' = busy \ {calls[k].write}
      /\ stamp' = stamp /\ told' = told /\ asked' = asked /\ mixed' = mixed /\ view' = view
  BY DEF LoadEnded
<1>5. ShapeInv'
  <2>1. 0 <= stamp BY StampAssumption DEF IInv, TypeOK
  <2> QED BY <1>1, <1>2, <1>3, <1>4, <2>1 DEF IInv, ShapeInv
<1>6. LockInv' BY <1>2, <1>3, <1>4 DEF IInv, LockInv
<1>7. SpinnersEnd' BY <1>2, <1>4 DEF IInv, SpinnersEnd
<1>8. FreshInv' BY <1>1, <1>2, <1>3, <1>4 DEF IInv, FreshInv
<1> QED BY <1>1, <1>2, <1>5, <1>6, <1>7, <1>8

\* LoadAnswered: the rows of an undisturbed load answer what was last asked.
LEMMA AnswerKeeps == ASSUME IInv, NEW k \in Ids, LoadAnswered(k) PROVE IInv'
<1>1. /\ ShapeInv' /\ LockInv' /\ SpinnersEnd' /\ FreshInv'
      /\ calls'[k] = NoCall /\ \A i \in Ids \ {k} : calls'[i] = calls[i]
      /\ calls' \in [Ids -> {NoCall} \cup
            [at : {"sent", "served"}, load : Loads \cup {{}}, after : Loads \cup {{}},
             write : Writes \cup {None}, query : {0, 1}, stamp : 0..MaxStamp]]
      /\ Sources' = Sources /\ Writes' = Writes /\ Loads' = Loads
  BY LoadEndKeeps DEF LoadAnswered, Answer
<1>2. /\ calls[k].at = "served" /\ failed' = failed \ calls[k].load
      /\ shown' = [s \in Sources |-> IF s \in calls[k].load
                                     THEN [query |-> calls[k].query, stamp |-> calls[k].stamp]
                                     ELSE shown[s]]
      /\ told' = told /\ asked' = asked /\ mixed' = mixed /\ stamp' = stamp /\ query' = query
      /\ view' = view /\ spinning' = spinning \ {calls[k].load, calls[k].after}
      /\ busy' = busy \ {calls[k].write}
  BY DEF LoadAnswered, Answer, LoadEnded
<1>3. calls[k].query \in {0, 1} /\ calls[k].stamp \in 0..MaxStamp
  BY <1>2 DEF IInv, TypeOK, NoCall
<1>4. TypeOK'
  <2>1. shown' \in [Sources -> [query : {0, 1, None}, stamp : 0..MaxStamp]]
    BY <1>2, <1>3 DEF IInv, TypeOK
  <2> QED BY <1>1, <1>2, <2>1 DEF IInv, TypeOK
<1>5. FreshWhenQuiet'
  <2> SUFFICES ASSUME NEW s \in Sources, s \notin mixed, s \notin failed', ~InFlight(s)'
               PROVE  shown'[s].query = asked[s] /\ shown'[s].stamp >= told[s]
    BY <1>1, <1>2 DEF FreshWhenQuiet
  <2>1. CASE s \in calls[k].load
    BY <1>2, <2>1 DEF IInv, FreshInv
  <2>2. CASE s \notin calls[k].load
    <3>1. ~InFlight(s) BY <1>1, <2>2 DEF InFlight
    <3> QED BY <1>2, <2>2, <3>1 DEF IInv, FreshWhenQuiet
  <2> QED BY <2>1, <2>2
<1> QED BY <1>1, <1>4, <1>5 DEF IInv

\* LoadContinued: the load of what comes next takes the slot, the lock and the progress.
LEMMA ContinueKeeps == ASSUME IInv, NEW k \in Ids, LoadContinued(k) PROVE IInv'
<1> DEFINE c == [NewLoad(view.then, calls[k].write, query) EXCEPT !.after = calls[k].load]
<1>1. /\ calls[k].at = "served" /\ calls[k].load # {} /\ failed' = failed \ calls[k].load
      /\ shown' = [s \in Sources |-> IF s \in calls[k].load
                                     THEN [query |-> calls[k].query, stamp |-> calls[k].stamp]
                                     ELSE shown[s]]
      /\ ~(view.then \subseteq calls[k].load)
      /\ spinning' = spinning \cup {view.then}
      /\ asked' = [s \in Sources |-> IF s \in view.then THEN query ELSE asked[s]]
      /\ mixed' = (mixed \ view.then) \cup {s \in view.then : InFlight(s)}
      /\ view' = view /\ stamp' = stamp /\ query' = query /\ busy' = busy /\ told' = told
      /\ calls' = [calls EXCEPT ![k] = c]
  BY DEF LoadContinued, Answer, IsLoad
<1>2. PICK t \in Sources : view.then = {t}
  BY <1>1, PanelsWellFormed DEF IInv, TypeOK, PanelOK, LoadsOK, Sources
<1>3. /\ c.at = "sent" /\ c.load = view.then /\ c.after = calls[k].load
      /\ c.write = calls[k].write /\ c.query = query /\ c.stamp = 0
  BY DEF NewLoad, NoCall
<1>4. /\ calls[k] # NoCall /\ calls[k].load \in Loads /\ calls[k].write \in Writes \cup {None}
      /\ calls[k].query \in {0, 1} /\ calls[k].stamp \in 0..MaxStamp /\ query \in {0, 1}
  BY <1>1 DEF IInv, TypeOK, NoCall
<1>5. /\ Sources' = Sources /\ Writes' = Writes /\ Loads' = Loads
      /\ view.then \in Loads /\ 0 \in 0..MaxStamp /\ 0 <= stamp
  BY <1>1, <1>2, StampAssumption DEF IInv, TypeOK, Sources, Writes, Loads
<1>6. c \in [at : {"sent", "served"}, load : Loads \cup {{}}, after : Loads \cup {{}},
             write : Writes \cup {None}, query : {0, 1}, stamp : 0..MaxStamp]
  BY <1>4, <1>5 DEF NewLoad, NoCall
<1> HIDE DEF c
<1>7. /\ calls'[k] = c /\ \A i \in Ids \ {k} : calls'[i] = calls[i]
      /\ calls' \in [Ids -> {NoCall} \cup
            [at : {"sent", "served"}, load : Loads \cup {{}}, after : Loads \cup {{}},
             write : Writes \cup {None}, query : {0, 1}, stamp : 0..MaxStamp]]
  BY <1>1, <1>6 DEF IInv, TypeOK
<1>8. TypeOK'
  <2>1. shown' \in [Sources -> [query : {0, 1, None}, stamp : 0..MaxStamp]]
    BY <1>1, <1>4 DEF IInv, TypeOK
  <2>2. /\ spinning' \subseteq Loads /\ mixed' \subseteq Sources /\ failed' \subseteq Sources
        /\ asked' \in [Sources -> {0, 1, None}]
    BY <1>1, <1>2, <1>4, <1>5 DEF IInv, TypeOK
  <2> QED BY <1>1, <1>5, <1>7, <2>1, <2>2 DEF IInv, TypeOK
<1>9. ShapeInv'
  <2>1. calls[k].write # None => calls[k].write.waits BY <1>1 DEF IInv, ShapeInv
  <2> QED BY <1>1, <1>2, <1>3, <1>5, <1>7, <2>1 DEF IInv, ShapeInv
<1>10. LockInv' BY <1>1, <1>3, <1>7 DEF IInv, LockInv
<1>11. SpinnersEnd'
  <2>1. \A w \in busy' : \E i \in Ids : calls'[i].write = w
    BY <1>1, <1>3, <1>7 DEF IInv, SpinnersEnd
  <2>2. ASSUME NEW l \in spinning' PROVE \E i \in Ids : l \in {calls'[i].load, calls'[i].after}
    <3>1. CASE l = view.then BY <1>3, <1>7, <3>1
    <3>2. CASE l # view.then
      <4>1. l \in spinning /\ l # {} BY <1>1, <2>2, <3>2, LoadsNonEmpty DEF IInv, TypeOK
      <4>2. PICK i \in Ids : l \in {calls[i].load, calls[i].after}
        BY <4>1 DEF IInv, SpinnersEnd
      <4>3. CASE i = k
        <5>1. calls[k].after = {} BY <1>1 DEF IInv, ShapeInv
        <5> QED BY <1>3, <1>7, <4>1, <4>2, <4>3, <5>1
      <4> QED BY <1>7, <4>2, <4>3
    <3> QED BY <3>1, <3>2
  <2> QED BY <2>1, <2>2 DEF SpinnersEnd
<1>12. t \notin calls[k].load BY <1>1, <1>2
<1>13. FreshInv'
  <2> SUFFICES ASSUME NEW s \in Sources
               PROVE  /\ told[s] <= stamp
                      /\ s \notin mixed' => \A i \in Ids : s \in calls'[i].load =>
                           /\ \A j \in Ids : s \in calls'[j].load => j = i
                           /\ calls'[i].query = asked'[s]
                           /\ calls'[i].at = "served" => calls'[i].stamp >= told[s]
    BY <1>1, <1>5 DEF FreshInv
  <2>1. told[s] <= stamp BY DEF IInv, FreshInv
  <2>2. CASE s = t
    <3>1. ASSUME s \notin mixed', NEW i \in Ids, s \in calls'[i].load PROVE i = k
      BY <1>1, <1>2, <1>7, <2>2, <3>1 DEF InFlight
    <3> QED BY <1>1, <1>2, <1>3, <1>7, <2>1, <2>2, <3>1
  <2>3. CASE s # t
    <3>1. s \notin c.load /\ asked'[s] = asked[s] /\ (s \in mixed' <=> s \in mixed)
      BY <1>1, <1>2, <1>3, <2>3
    <3> QED BY <1>7, <2>1, <3>1 DEF IInv, FreshInv
  <2> QED BY <2>2, <2>3
<1>14. FreshWhenQuiet'
  <2> SUFFICES ASSUME NEW s \in Sources, s \notin mixed', s \notin failed', ~InFlight(s)'
               PROVE  shown'[s].query = asked'[s] /\ shown'[s].stamp >= told[s]
    BY <1>1, <1>5 DEF FreshWhenQuiet
  <2>1. s # t BY <1>2, <1>3, <1>7 DEF InFlight
  <2>2. asked'[s] = asked[s] /\ s \notin mixed BY <1>1, <1>2, <2>1
  <2>3. CASE s \in calls[k].load
    BY <1>1, <2>2, <2>3 DEF IInv, FreshInv
  <2>4. CASE s \notin calls[k].load
    <3>1. ~InFlight(s) BY <1>7, <2>4 DEF InFlight
    <3> QED BY <1>1, <2>2, <2>4, <3>1 DEF IInv, FreshWhenQuiet
  <2> QED BY <2>3, <2>4
<1> QED BY <1>8, <1>9, <1>10, <1>11, <1>13, <1>14 DEF IInv

\* LoadFailed: its sources keep or lose their rows, and are known to have failed.
LEMMA FailureKeeps == ASSUME IInv, NEW k \in Ids, LoadFailed(k) PROVE IInv'
<1>1. /\ ShapeInv' /\ LockInv' /\ SpinnersEnd' /\ FreshInv'
      /\ calls'[k] = NoCall /\ \A i \in Ids \ {k} : calls'[i] = calls[i]
      /\ calls' \in [Ids -> {NoCall} \cup
            [at : {"sent", "served"}, load : Loads \cup {{}}, after : Loads \cup {{}},
             write : Writes \cup {None}, query : {0, 1}, stamp : 0..MaxStamp]]
      /\ Sources' = Sources /\ Writes' = Writes /\ Loads' = Loads
  BY LoadEndKeeps DEF LoadFailed
<1>2. /\ failed' = failed \cup calls[k].load
      /\ shown' = [s \in Sources |-> IF s \in calls[k].load \cap view.cleared
                                     THEN Nothing ELSE shown[s]]
      /\ told' = told /\ asked' = asked /\ mixed' = mixed /\ stamp' = stamp /\ query' = query
      /\ view' = view /\ spinning' = spinning \ {calls[k].load, calls[k].after}
      /\ busy' = busy \ {calls[k].write}
  BY DEF LoadFailed, LoadEnded
<1>3. calls[k].load \subseteq Sources
  BY LoadsNonEmpty DEF IInv, TypeOK, NoCall
<1>4. TypeOK'
  <2>1. shown' \in [Sources -> [query : {0, 1, None}, stamp : 0..MaxStamp]]
    BY <1>2, StampAssumption DEF IInv, TypeOK, Nothing
  <2> QED BY <1>1, <1>2, <1>3, <2>1 DEF IInv, TypeOK
<1>5. FreshWhenQuiet'
  <2> SUFFICES ASSUME NEW s \in Sources, s \notin mixed, s \notin failed', ~InFlight(s)'
               PROVE  shown'[s].query = asked[s] /\ shown'[s].stamp >= told[s]
    BY <1>1, <1>2 DEF FreshWhenQuiet
  <2>1. s \notin calls[k].load BY <1>2
  <2>2. ~InFlight(s) BY <1>1, <2>1 DEF InFlight
  <2> QED BY <1>2, <2>1, <2>2 DEF IInv, FreshWhenQuiet
<1> QED BY <1>1, <1>4, <1>5 DEF IInv

\* WriteFailed: the lock goes with the request, and nothing else changes.
LEMMA WriteFailureKeeps == ASSUME IInv, NEW k \in Ids, WriteFailed(k) PROVE IInv'
<1>1. /\ Sources' = Sources /\ Writes' = Writes /\ Loads' = Loads
  BY DEF WriteFailed, Sources, Writes, Loads
<1>2. /\ calls'[k] = NoCall /\ \A i \in Ids \ {k} : calls'[i] = calls[i]
      /\ calls' \in [Ids -> {NoCall} \cup
                 [at : {"sent", "served"}, load : Loads \cup {{}}, after : Loads \cup {{}},
                  write : Writes \cup {None}, query : {0, 1}, stamp : 0..MaxStamp]]
  BY DEF WriteFailed, IInv, TypeOK
<1>3. /\ NoCall.at = "none" /\ NoCall.load = {} /\ NoCall.write = None /\ NoCall.stamp = 0
      /\ NoCall.after = {}
  BY DEF NoCall
<1>4. /\ busy' = busy \ {calls[k].write} /\ calls[k].load = {}
      /\ view' = view /\ stamp' = stamp /\ shown' = shown /\ query' = query
      /\ spinning' = spinning /\ told' = told /\ asked' = asked /\ mixed' = mixed /\ failed' = failed
  BY DEF WriteFailed, IsWrite, history
<1>5. TypeOK' BY <1>1, <1>2, <1>4 DEF IInv, TypeOK
<1>6. ShapeInv'
  <2>1. 0 <= stamp BY StampAssumption DEF IInv, TypeOK
  <2> QED BY <1>1, <1>2, <1>3, <1>4, <2>1 DEF IInv, ShapeInv
<1>7. LockInv' BY <1>2, <1>3, <1>4 DEF IInv, LockInv
<1>8. SpinnersEnd'
  <2>1. \A l \in spinning : l # {} BY LoadsNonEmpty DEF IInv, TypeOK
  <2>2. calls[k].after = {} BY <1>4 DEF IInv, ShapeInv
  <2> QED BY <1>2, <1>4, <2>1, <2>2 DEF IInv, SpinnersEnd
<1>9. FreshInv' BY <1>1, <1>2, <1>3, <1>4 DEF IInv, FreshInv
<1>10. FreshWhenQuiet'
  <2>1. \A s : InFlight(s)' <=> InFlight(s) BY <1>2, <1>3, <1>4 DEF InFlight
  <2> QED BY <1>1, <1>4, <2>1 DEF IInv, FreshWhenQuiet
<1> QED BY <1>5, <1>6, <1>7, <1>8, <1>9, <1>10 DEF IInv

\* WriteAnswered: the write gives its slot, and perhaps its lock, to the loads it starts.
LEMMA WriteAnswerKeeps == ASSUME IInv, NEW k \in Ids, WriteAnswered(k) PROVE IInv'
<1> DEFINE w == calls[k].write
           loads == {{s} : s \in w.again}
           holder == IF w.waits THEN w ELSE None
           own == {k}
<1>1. /\ calls[k].at = "served" /\ calls[k].load = {} /\ w \in Writes /\ w # None
      /\ calls[k].stamp <= stamp /\ calls[k].stamp \in 0..MaxStamp
  <2>1. calls[k].at = "served" /\ calls[k].load = {} BY DEF WriteAnswered, IsWrite
  <2>2. w \in Writes /\ calls[k].stamp <= stamp BY <2>1 DEF IInv, ShapeInv
  <2>3. w # None BY <2>2, NoneAssumption DEF IInv, TypeOK, Writes
  <2>4. calls[k].stamp \in 0..MaxStamp BY <2>1 DEF IInv, TypeOK, NoCall
  <2> QED BY <2>1, <2>2, <2>3, <2>4
<1>2. WriteOK(w, Sources)
  BY <1>1, PanelsWellFormed DEF IInv, TypeOK, PanelOK, Writes, Sources
<1>3. /\ told' = [s \in Sources |-> IF s \in w.again /\ told[s] < calls[k].stamp
                                    THEN calls[k].stamp ELSE told[s]]
      /\ StartLoads(loads, query, holder, own)
      /\ busy' = IF w.waits THEN busy ELSE busy \ {w}
      /\ view' = view /\ stamp' = stamp /\ query' = query /\ failed' = failed
  BY DEF WriteAnswered
<1>4. /\ loads \in SUBSET {{s} : s \in Sources} /\ query \in {0, 1}
      /\ holder \in Writes \cup {None} /\ own \in SUBSET Ids /\ \A i \in own : calls[i].load = {}
      /\ \A s \in Sources : {s} \in loads <=> s \in w.again
  <2>1. w.again \subseteq Sources BY <1>2 DEF WriteOK
  <2>2. loads \in SUBSET {{s} : s \in Sources} BY <2>1
  <2>3. holder \in Writes \cup {None} BY <1>1
  <2>4. \A i \in own : calls[i].load = {} BY <1>1
  <2>5. \A s \in Sources : {s} \in loads <=> s \in w.again OBVIOUS
  <2>6. own \in SUBSET Ids OBVIOUS
  <2>7. query \in {0, 1} BY DEF IInv, TypeOK
  <2> QED BY <2>2, <2>3, <2>4, <2>5, <2>6, <2>7
<1>5. /\ w.waits => holder = w /\ \E s \in Sources : loads = {{s}}
      /\ ~w.waits => holder = None
  BY <1>2 DEF WriteOK
<1>6. /\ Sources' = Sources /\ Writes' = Writes /\ Loads' = Loads
  BY <1>3 DEF Sources, Writes, Loads
<1>7. \A i : i \in own <=> i = k OBVIOUS
<1> HIDE DEF loads, holder, own
<1>8. PICK new \in SUBSET (FreeIds \cup own) :
        /\ calls' = [i \in Ids |-> calls'[i]]
        /\ \A l \in loads : \E i \in new : calls'[i] = NewLoad(l, holder, query)
        /\ \A i \in new : \E l \in loads : calls'[i] = NewLoad(l, holder, query)
        /\ \A i, j \in new : calls'[i].load = calls'[j].load => i = j
        /\ \A i \in Ids \ new : calls'[i] = IF i \in own THEN NoCall ELSE calls[i]
  BY <1>3, <1>4, Starting
<1>9. \A l : /\ NewLoad(l, holder, query).at = "sent" /\ NewLoad(l, holder, query).load = l
             /\ NewLoad(l, holder, query).write = holder /\ NewLoad(l, holder, query).stamp = 0
             /\ NewLoad(l, holder, query).after = {}
  BY DEF NewLoad, NoCall
<1>10. /\ NoCall.at = "none" /\ NoCall.load = {} /\ NoCall.write = None /\ NoCall.stamp = 0
      /\ NoCall.after = {}
  BY DEF NoCall
<1>11. \A i \in new : i \in Ids /\ (i = k \/ calls[i] = NoCall)
  BY <1>4, <1>7, FreeCalls DEF IInv, FreeIds
<1>12. \A i \in Ids \ new : calls'[i] = IF i = k THEN NoCall ELSE calls[i]
  BY <1>7, <1>8
<1>13. /\ \A l \in spinning' : \E i \in Ids : l \in {calls'[i].load, calls'[i].after}
       /\ FreshInv' /\ FreshWhenQuiet'
  <2>1. \A s \in Sources : told'[s] <= stamp /\ ({s} \notin loads => told'[s] = told[s])
    BY <1>1, <1>3, <1>4 DEF IInv, FreshInv
  <2> QED BY <1>3, <1>4, <2>1, StartKeeps
<1>14. TypeOK'
  <2>1. told' \in [Sources -> 0..MaxStamp] BY <1>1, <1>3 DEF IInv, TypeOK
  <2>2. busy' \subseteq Writes BY <1>3 DEF IInv, TypeOK
  <2> QED BY <1>3, <1>4, <1>6, <2>1, <2>2, StartTypes DEF IInv, TypeOK
<1>15. \A i \in new : /\ calls'[i].at = "sent" /\ calls'[i].write = holder /\ calls'[i].stamp = 0
                      /\ calls'[i].load \in loads /\ calls'[i].after = {}
  BY <1>8, <1>9
<1>16. ShapeInv'
  <2>1. 0 <= stamp BY StampAssumption DEF IInv, TypeOK
  <2>2. \A l \in loads : l # {} BY <1>4
  <2>3. \A i \in new : /\ calls'[i].load # {} /\ calls'[i].stamp <= stamp
                       /\ calls'[i].write # None => calls'[i].write.waits
                       /\ calls'[i].after = {}
    BY <1>5, <1>15, <2>1, <2>2
  <2> QED BY <1>3, <1>6, <1>10, <1>12, <2>1, <2>3 DEF IInv, ShapeInv
<1>17. LockInv'
  <2> SUFFICES ASSUME NEW i \in Ids, calls'[i].write # None, calls'[i].write.locks
               PROVE  /\ calls'[i].write \in busy'
                      /\ \A j \in Ids : calls'[j].write = calls'[i].write => j = i
    BY DEF LockInv
  <2>1. ASSUME w.waits, NEW i1 \in new, NEW i2 \in new PROVE i1 = i2
    <3>1. PICK s \in Sources : loads = {{s}} BY <1>5, <2>1
    <3>2. calls'[i1].load = {s} /\ calls'[i2].load = {s} BY <1>15, <3>1
    <3>3. \A a, b \in new : calls'[a].load = calls'[b].load => a = b BY <1>8
    <3>4. calls'[i1].load = calls'[i2].load BY <3>2
    <3> QED BY <3>3, <3>4
  <2>2. w.locks => w \in busy /\ \A j \in Ids : calls[j].write = w => j = k
    BY <1>1 DEF IInv, LockInv
  <2>3. CASE i \in new
    <3>1. holder = w /\ w.waits /\ w.locks BY <1>5, <1>15, <2>3
    <3>2. ASSUME NEW j \in Ids, calls'[j].write = w PROVE j \in new
      BY <1>1, <1>10, <1>11, <1>12, <2>2, <2>3, <3>1, <3>2
    <3> QED BY <1>3, <1>15, <2>1, <2>2, <2>3, <3>1, <3>2
  <2>4. CASE i \notin new
    <3>1. i # k /\ calls'[i] = calls[i] BY <1>10, <1>12, <2>4
    <3>3. calls[i].write # w BY <2>2, <3>1
    <3>4. calls'[i].write \in busy' BY <1>3, <3>1, <3>3 DEF IInv, LockInv
    <3>5. ASSUME NEW j \in Ids, calls'[j].write = calls'[i].write PROVE j = i
      <4>1. j \notin new BY <1>5, <1>15, <3>1, <3>3, <3>5
      <4>2. calls'[j] = calls[j] BY <1>10, <1>12, <3>5, <4>1
      <4> QED BY <3>1, <3>5, <4>2 DEF IInv, LockInv
    <3> QED BY <3>4, <3>5
  <2> QED BY <2>3, <2>4
<1>18. SpinnersEnd'
  <2> SUFFICES ASSUME NEW v \in busy' PROVE \E i \in Ids : calls'[i].write = v
    BY <1>13 DEF SpinnersEnd
  <2>1. CASE v = w
    <3>1. w.waits BY <1>3, <2>1
    <3>2. PICK s \in Sources : loads = {{s}} BY <1>5, <3>1
    <3>3. PICK i \in new : calls'[i] = NewLoad({s}, holder, query) BY <1>8, <3>2
    <3> QED BY <1>5, <1>11, <1>15, <2>1, <3>1, <3>3
  <2>2. CASE v # w
    <3>1. v \in busy /\ v # None
      BY <1>3, NoneAssumption DEF IInv, TypeOK, Writes
    <3>2. PICK j \in Ids : calls[j].write = v BY <3>1 DEF IInv, SpinnersEnd
    <3>3. j # k /\ j \notin new BY <1>10, <1>11, <2>2, <3>1, <3>2
    <3> QED BY <1>12, <3>2, <3>3
  <2> QED BY <2>1, <2>2
<1> QED BY <1>13, <1>14, <1>16, <1>17, <1>18 DEF IInv

-----------------------------------------------------------------------------
(* The theorems *)

LEMMA NextInv == IInv /\ [Next]_vars => IInv'
<1> SUFFICES ASSUME IInv, [Next]_vars PROVE IInv' OBVIOUS
<1>1. ASSUME NEW s \in Sources, Filter(s) PROVE IInv'
  BY <1>1, LoadStarts DEF Filter
<1>2. ASSUME NEW s \in Sources, Reload(s) PROVE IInv'
  <2>1. query \in {0, 1} BY DEF IInv, TypeOK
  <2> QED BY <1>2, <2>1, LoadStarts DEF Reload
<1>3. ASSUME NEW s \in Sources, TypeAhead(s) PROVE IInv'
  <2>1. /\ view' = view /\ calls' = calls /\ stamp' = stamp /\ shown' = shown
        /\ spinning' = spinning /\ busy' = busy /\ told' = told /\ asked' = asked
        /\ mixed' = mixed /\ failed' = failed /\ query' \in {0, 1}
    BY <1>3 DEF TypeAhead, history, IInv, TypeOK
  <2>2. Sources' = Sources /\ Writes' = Writes /\ Loads' = Loads
    BY <2>1 DEF Sources, Writes, Loads
  <2>3. TypeOK' BY <2>1, <2>2 DEF IInv, TypeOK
  <2>4. ShapeInv' /\ LockInv' /\ SpinnersEnd'
    BY <2>1, <2>2 DEF IInv, ShapeInv, LockInv, SpinnersEnd
  <2>5. FreshInv' /\ FreshWhenQuiet'
    BY <2>1, <2>2 DEF IInv, FreshInv, FreshWhenQuiet, InFlight
  <2> QED BY <2>3, <2>4, <2>5 DEF IInv
<1>4. CASE \E s \in Sources : Filter(s) \/ TypeAhead(s) \/ Refresh(s) \/ OpenTab(s) \/ Timer(s)
  BY <1>1, <1>2, <1>3, <1>4 DEF Refresh, OpenTab, Timer
<1>5. CASE \E w \in Writes : SubmitWrite(w) BY <1>5, SubmitKeeps
<1>6. CASE \E i \in Ids : \/ Serve(i) \/ LoadAnswered(i) \/ LoadContinued(i) \/ LoadFailed(i)
                          \/ WriteAnswered(i) \/ WriteFailed(i)
  BY <1>6, ServeKeeps, AnswerKeeps, ContinueKeeps, FailureKeeps, WriteAnswerKeeps,
     WriteFailureKeeps
<1>7. CASE UNCHANGED vars
  <2>1. /\ view' = view /\ calls' = calls /\ stamp' = stamp /\ shown' = shown
        /\ spinning' = spinning /\ busy' = busy /\ told' = told /\ asked' = asked
        /\ mixed' = mixed /\ failed' = failed /\ query' = query
    BY <1>7 DEF vars, page, history
  <2> QED
    BY <2>1 DEF IInv, TypeOK, ShapeInv, LockInv, SpinnersEnd, FreshInv, FreshWhenQuiet,
                InFlight, Sources, Writes, Loads
<1> QED BY <1>4, <1>5, <1>6, <1>7 DEF Next

\* The invariant holds in every state.
THEOREM Inductive == Spec => []IInv
BY InitInv, NextInv, PTL DEF Spec

\* The page, its requests and the histories keep their types, for every panel.
THEOREM TypeCorrect == Spec => []TypeOK
<1>1. IInv => TypeOK BY DEF IInv
<1> QED BY Inductive, <1>1, PTL

\* Nothing shows progress, and no button is locked, without a request in flight that ends it.
THEOREM NoSpinnerLeft == Spec => []SpinnersEnd
<1>1. IInv => SpinnersEnd BY DEF IInv
<1> QED BY Inductive, <1>1, PTL

\* Rows loaded undisturbed answer the last filters and include every confirmed write.
THEOREM QuietRowsFresh == Spec => []FreshWhenQuiet
<1>1. IInv => FreshWhenQuiet BY DEF IInv
<1> QED BY Inductive, <1>1, PTL

\* A locked button never has two requests of its write in flight.
THEOREM NoDoubleSubmit == Spec => []LockedWritesOnce
<1>1. ASSUME IInv PROVE LockedWritesOnce
  <2> SUFFICES ASSUME NEW i \in Ids, NEW j \in Ids, IsWrite(i), IsWrite(j),
                      calls[i].write = calls[j].write, calls[i].write.locks
               PROVE  i = j
    BY DEF LockedWritesOnce
  <2>1. calls[i].write \in Writes BY <1>1 DEF IsWrite, IInv, ShapeInv
  <2>2. calls[i].write # None BY <1>1, <2>1, NoneAssumption DEF IInv, TypeOK, Writes
  <2> QED BY <1>1, <2>2 DEF IInv, LockInv
<1> QED BY Inductive, <1>1, PTL
=============================================================================
