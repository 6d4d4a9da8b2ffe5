--------------------------- MODULE SpaAuthProofs ---------------------------
(***************************************************************************)
(* Proofs about one tab's authentication and routing (SpaAuth) and its     *)
(* idle timeout (IdleSession), for any accounts, roles and sessions,       *)
(* patient or not.                                                         *)
(*                                                                         *)
(* Everything is proved for any number of activities of the tab at once.   *)
(* RoleInv follows a role from the session through the answers, the cached *)
(* user and the guard's decision to the page.  TabInv says who looks after *)
(* the console when its user is forgotten: a pending navigation, or the    *)
(* sign-out that comes after a change of the password, as long as nothing  *)
(* was forgotten in one of the crossings that the code does not allow for. *)
(***************************************************************************)
EXTENDS IdleSession, TLAPS

Kinds == ApiKinds \cup Unsafe \cup {"free"}
Places == {"none", "session", "api", "logout", "decide", "load"}
Answers == {"none", "200", "401", "403", "gate", "lost"} \cup Roles
TaskRecords == [kind : Kinds, at : Places, to : Pages, ans : Answers, token : 0 .. MaxSession]

-----------------------------------------------------------------------------
\* There is a session to begin with, and a way to have none.
LEMMA SomeSessions == 0 \in 0 .. MaxSession /\ 1 \in 0 .. MaxSession /\ 1 \in 1 .. MaxSession
  BY BoundsAssumption

\* A free slot, a guard and a request are tasks.
LEMMA TaskTypes ==
  /\ Free \in TaskRecords
  /\ \A to \in Pages, u \in Roles \cup {"none"} : Guard(to, u) \in TaskRecords
  /\ \A kind \in Kinds, at \in Places, to \in Pages, token \in 0 .. MaxSession :
        Request(kind, at, to, token) \in TaskRecords
  <1>1. Free \in TaskRecords
    BY SomeSessions DEF Free, TaskRecords, Kinds, Places, Answers, Pages, Guest
  <1>2. ASSUME NEW kind \in Kinds, NEW at \in Places, NEW to \in Pages,
               NEW token \in 0 .. MaxSession
        PROVE  Request(kind, at, to, token) \in TaskRecords
    BY DEF Request, TaskRecords, Answers
  <1>3. ASSUME NEW to \in Pages, NEW u \in Roles \cup {"none"}
        PROVE  Guard(to, u) \in TaskRecords
    <2>1. "guard" \in Kinds /\ "session" \in Places /\ "decide" \in Places
      BY DEF Kinds, ApiKinds, Places
    <2> QED BY <1>2, <2>1, SomeSessions DEF Guard
  <1> QED BY <1>1, <1>2, <1>3

\* What a step makes of the task that moves keeps its type.
LEMMA TaskSteps ==
  ASSUME TypeOK, NEW t \in Tasks
  PROVE  /\ task[t] \in TaskRecords
         /\ End(t) => task' \in [Tasks -> TaskRecords]
         /\ Decided(t) => task' \in [Tasks -> TaskRecords]
         /\ \A ans \in Answers : Reply(t, ans) => task' \in [Tasks -> TaskRecords]
         /\ \A r \in TaskRecords : task' = [task EXCEPT ![t] = r] => task' \in [Tasks -> TaskRecords]
  <1>1. task \in [Tasks -> TaskRecords]
    BY DEF TypeOK, TaskRecords, Kinds, Places, Answers
  <1>2. task[t] \in TaskRecords
    BY <1>1
  <1>3. ASSUME NEW r \in TaskRecords, task' = [task EXCEPT ![t] = r]
        PROVE  task' \in [Tasks -> TaskRecords]
    BY <1>1, <1>3
  <1>4. ASSUME End(t) PROVE task' \in [Tasks -> TaskRecords]
    BY <1>1, <1>4, TaskTypes DEF End
  <1>5. ASSUME Decided(t) PROVE task' \in [Tasks -> TaskRecords]
    <2>1. [task[t] EXCEPT !.at = "decide", !.ans = "none"] \in TaskRecords
      BY <1>2 DEF TaskRecords, Places, Answers
    <2> QED BY <1>1, <1>5, <2>1 DEF Decided, TaskRecords
  <1>6. ASSUME NEW ans \in Answers, Reply(t, ans) PROVE task' \in [Tasks -> TaskRecords]
    <2>1. [task[t] EXCEPT !.ans = ans] \in TaskRecords
      BY <1>2 DEF TaskRecords
    <2> QED BY <1>1, <1>6, <2>1 DEF Reply, TaskRecords
  <1> QED BY <1>2, <1>3, <1>4, <1>5, <1>6

\* A push leaves a pending navigation of a task, or none.
LEMMA PushTypes ==
  ASSUME TypeOK, NEW t \in Tasks, NEW to \in Pages, NEW u \in Roles \cup {"none"}, Push(t, to, u)
  PROVE  nav' \in Tasks \cup {"none"} /\ task' \in [Tasks -> TaskRecords]
  <1>1. \/ nav' = "none" /\ task' = [task EXCEPT ![t] = Free]
        \/ nav' = t /\ task' = [task EXCEPT ![t] = Guard(to, u)]
    BY DEF Push
  <1> QED BY <1>1, TaskTypes, TaskSteps

\* A fresh document has one task, its navigation.
LEMMA FreshDocumentTypes ==
  ASSUME NEW to \in Pages, FreshDocument(to)
  PROVE  /\ user' = "none" /\ csrf' = 0 /\ gate' = FALSE /\ page' = "none"
         /\ nav' \in Tasks \cup {"none"} /\ task' \in [Tasks -> TaskRecords]
         /\ crossed' = FALSE /\ role' \in Roles => admins' \subseteq Roles
  BY TaskTypes DEF FreshDocument

\* A navigation is sent to a page.
LEMMA TargetType == \A to \in Pages : Target(to) \in Pages
  BY DEF Target, Pages, Guest, RequiresAuth

\* The bearer's state and the sessions after a sign-in.
LEMMA NewSessionTypes ==
  ASSUME TypeOK, NewSession
  PROVE  /\ session' \in 0 .. MaxSession /\ sessions' \in 1 .. MaxSession
         /\ account' \in {"ok", "gated", "revoked"} /\ role' \in Roles
  BY BoundsAssumption, AccountsAssumption DEF TypeOK, NewSession

-----------------------------------------------------------------------------
\* Every step of the tab, of the server and of the admin keeps the types.
LEMMA TypePreserved == TypeOK /\ [Next]_vars => TypeOK'
  <1> SUFFICES ASSUME TypeOK, [Next]_vars PROVE TypeOK'
    OBVIOUS
  <1> DEFINE Tasked == task' \in [Tasks -> TaskRecords]
             Rest == /\ session' \in 0 .. MaxSession /\ sessions' \in 1 .. MaxSession
                     /\ account' \in {"ok", "gated", "revoked"}
                     /\ user' \in Roles \cup {"none"} /\ csrf' \in 0 .. MaxSession
                     /\ gate' \in BOOLEAN /\ page' \in Pages \cup {"none"}
                     /\ nav' \in Tasks \cup {"none"} /\ clicks' \in 0 .. MaxClicks
                     /\ role' \in Roles /\ admins' \subseteq Roles /\ crossed' \in BOOLEAN
             Noted == admins' \subseteq Roles /\ crossed' \in BOOLEAN
  <1>1. SUFFICES Tasked /\ Rest
    BY DEF TypeOK, TaskRecords, Kinds, Places, Answers
  <1>n. Remember \/ UNCHANGED history => Noted
    BY DEF Remember, history, TypeOK
  <1> HIDE DEF Tasked, Noted
  <1>2. CASE UNCHANGED vars
    BY <1>2 DEF vars, server, spa, history, TypeOK, Tasked, TaskRecords, Kinds, Places, Answers
  <1>3. ASSUME NEW t \in Tasks, Step(t) PROVE Tasked /\ Rest
    <2>n. Noted
      BY <1>3, <1>n DEF Step
    <2> SUFFICES Tasked /\ (Noted => Rest)
      BY <2>n
    <2> USE DEF Noted
    <2>0. /\ task[t] \in TaskRecords
          /\ task[t].to \in Pages /\ task[t].token \in 0 .. MaxSession
      BY TaskSteps DEF TaskRecords
    <2>1. CASE AnswerSession(t)
      <3>1. [task[t] EXCEPT !.ans = "200", !.token = session] \in TaskRecords
        BY <2>0 DEF TaskRecords, Answers, TypeOK
      <3>2. task' = [task EXCEPT ![t] = [task[t] EXCEPT !.ans = "200", !.token = session]]
        BY <2>1 DEF AnswerSession, TypeOK
      <3> QED BY <2>1, <3>1, <3>2, TaskSteps DEF AnswerSession, server, Tasked, TypeOK
    <2>2. CASE AnswerApi(t)
      <3>1. Tasked
        BY <2>2, TaskSteps DEF AnswerApi, Answer, Answers, Tasked, TypeOK
      <3> QED BY <2>2, <3>1 DEF AnswerApi, TypeOK
    <2>3. CASE AnswerLogout(t)
      <3>1. Tasked
        BY <2>3, TaskSteps DEF AnswerLogout, Answer, Answers, Tasked
      <3> QED BY <2>3, <3>1, SomeSessions DEF AnswerLogout, TypeOK
    <2>4. CASE RefuseChange(t) \/ Fail(t)
      <3>1. Tasked
        BY <2>4, TaskSteps DEF RefuseChange, Fail, Answers, Tasked
      <3> QED BY <2>4, <3>1 DEF RefuseChange, Fail, server, TypeOK
    <2>5. CASE SessionKnown(t)
      <3>1. Request("guard", "api", task[t].to, 0) \in TaskRecords
        BY <2>0, TaskTypes, SomeSessions DEF Kinds, ApiKinds, Places
      <3>2. Tasked
        BY <2>5, <3>1, TaskSteps DEF SessionKnown, Tasked
      <3> QED BY <2>5, <2>0, <3>2 DEF SessionKnown, server, TypeOK
    <2>6. CASE SessionUnknown(t) \/ ProfileFailed(t)
      BY <2>6, TaskSteps DEF SessionUnknown, ProfileFailed, CheckFailed, server, TypeOK, Tasked
    <2>7. CASE ProfileLoaded(t) \/ ProfileSaved(t)
      BY <2>7, TaskSteps DEF ProfileLoaded, ProfileSaved, server, TypeOK, Tasked
    <2>8. CASE Decide(t)
      <3>1. Target(task[t].to) \in Pages
        BY <2>0, TargetType
      <3>2. user \in Roles \cup {"none"}
        BY DEF TypeOK
      <3>3. [task[t] EXCEPT !.at = "load"] \in TaskRecords
        BY <2>0 DEF TaskRecords, Places
      <3>4. \/ End(t) /\ UNCHANGED nav
            \/ task' = [task EXCEPT ![t] = [task[t] EXCEPT !.at = "load"]] /\ UNCHANGED nav
            \/ Push(t, Target(task[t].to), user)
        BY <2>8 DEF Decide, TypeOK
      <3>5. Tasked /\ nav' \in Tasks \cup {"none"}
        BY <3>1, <3>2, <3>3, <3>4, TaskSteps, PushTypes DEF Tasked, TypeOK
      <3> QED BY <2>8, <3>5 DEF Decide, server, TypeOK
    <2>9. CASE Loaded(t)
      BY <2>9, <2>0, TaskSteps DEF Loaded, server, TypeOK, Tasked
    <2>10. CASE Expired(t)
      <3>1. "Login" \in Pages
        BY DEF Pages, Guest
      <3>2. Tasked /\ nav' \in Tasks \cup {"none"}
        BY <2>10, <3>1, PushTypes DEF Expired, Tasked
      <3> QED BY <2>10, <3>2, SomeSessions DEF Expired, server, TypeOK
    <2>11. CASE Gated(t)
      <3>1. "ChangePassword" \in Pages /\ user \in Roles \cup {"none"}
        BY DEF Pages, Guest, TypeOK
      <3>2. \/ Push(t, "ChangePassword", user)
            \/ (Decided(t) \/ End(t)) /\ UNCHANGED nav
        BY <2>11 DEF Gated
      <3>3. Tasked /\ nav' \in Tasks \cup {"none"}
        BY <3>1, <3>2, PushTypes, TaskSteps DEF Tasked, TypeOK
      <3> QED BY <2>11, <3>3 DEF Gated, server, TypeOK
    <2>12. CASE CallSettled(t)
      BY <2>12, TaskSteps DEF CallSettled, server, TypeOK, Tasked
    <2>13. CASE PasswordChanged(t)
      <3>1. Request("leave", "logout", "Login", csrf) \in TaskRecords
        BY TaskTypes DEF Kinds, Unsafe, Places, Pages, Guest, TypeOK
      <3>2. Tasked
        BY <2>13, <3>1, TaskSteps DEF PasswordChanged, Tasked
      <3> QED BY <2>13, <3>2 DEF PasswordChanged, server, TypeOK
    <2>14. CASE SignedOut(t)
      <3>1. "Login" \in Pages /\ user' \in Roles \cup {"none"}
        BY <2>14 DEF Pages, Guest, SignedOut, TypeOK
      <3>2. Tasked /\ nav' \in Tasks \cup {"none"}
        BY <2>14, <3>1, PushTypes DEF SignedOut, Tasked
      <3> QED BY <2>14, <3>1, <3>2, SomeSessions DEF SignedOut, server, TypeOK
    <2> QED
      BY <1>3, <2>1, <2>2, <2>3, <2>4, <2>5, <2>6, <2>7, <2>8, <2>9, <2>10, <2>11, <2>12,
         <2>13, <2>14 DEF Step
  <1>4. ASSUME NEW t \in Tasks, Navigate(t) PROVE Tasked /\ Rest
    <2>n. Noted
      BY <1>4, <1>n DEF Navigate
    <2>1. PICK to \in RequiresAuth \cup Guest : Push(t, to, user)
      BY <1>4 DEF Navigate
    <2>2. to \in Pages /\ user \in Roles \cup {"none"}
      BY DEF Pages, TypeOK
    <2>3. Tasked /\ nav' \in Tasks \cup {"none"}
      BY <2>1, <2>2, PushTypes DEF Tasked
    <2> QED BY <1>4, <2>3, <2>n, BoundsAssumption DEF Navigate, Act, server, TypeOK, Noted
  <1>5. ASSUME NEW t \in Tasks, Call(t) PROVE Tasked /\ Rest
    <2>n. Noted
      BY <1>5, <1>n DEF Call, history
    <2>1. PICK kind \in {"read", "write", "profile", "change", "logout"} :
             task' = [task EXCEPT ![t] =
                         Request(kind, IF kind = "logout" THEN "logout" ELSE "api", page, csrf)]
      BY <1>5 DEF Call
    <2>2. page \in Pages
      BY <1>5 DEF Call, Act, TypeOK
    <2>3. Request(kind, IF kind = "logout" THEN "logout" ELSE "api", page, csrf) \in TaskRecords
      BY <2>2, TaskTypes DEF Kinds, ApiKinds, Unsafe, Places, TypeOK
    <2>4. Tasked
      BY <2>1, <2>3, TaskSteps DEF Tasked
    <2> QED BY <1>5, <2>4, <2>n, BoundsAssumption DEF Call, Act, server, TypeOK, Noted
  <1>6. CASE Reload
    <2>1. PICK to \in RequiresAuth \cup Guest : FreshDocument(to)
      BY <1>6 DEF Reload
    <2>2. to \in Pages
      BY DEF Pages
    <2>3. Tasked /\ nav' \in Tasks \cup {"none"}
      BY <2>1, <2>2, FreshDocumentTypes DEF Tasked
    <2>4. user' = "none" /\ csrf' = 0 /\ gate' = FALSE /\ page' = "none"
      BY <2>1 DEF FreshDocument
    <2>5. UNCHANGED <<session, sessions, role, account>> /\ clicks' \in 0 .. MaxClicks
      BY <1>6, BoundsAssumption DEF Reload, server, TypeOK
    <2>6. admins' \subseteq Roles /\ crossed' \in BOOLEAN
      BY <2>1, <2>5 DEF FreshDocument, TypeOK
    <2> QED BY <2>3, <2>4, <2>5, <2>6, SomeSessions DEF TypeOK
  <1>7. CASE SignIn
    <2>1. FreshDocument("Dashboard") /\ "Dashboard" \in Pages
      BY <1>7 DEF SignIn, Pages, RequiresAuth
    <2>2. Tasked /\ nav' \in Tasks \cup {"none"}
      BY <2>1, FreshDocumentTypes DEF Tasked
    <2>3. user' = "none" /\ csrf' = 0 /\ gate' = FALSE /\ page' = "none"
      BY <2>1 DEF FreshDocument
    <2>4. clicks' \in 0 .. MaxClicks
      BY <1>7, BoundsAssumption DEF SignIn, TypeOK
    <2>5. admins' \subseteq Roles /\ crossed' \in BOOLEAN
      BY <1>7, <2>1, NewSessionTypes DEF FreshDocument, SignIn
    <2> QED BY <1>7, <2>2, <2>3, <2>4, <2>5, SomeSessions, NewSessionTypes DEF SignIn
  <1>8. CASE OtherTab \/ EndSession \/ Reset
    <2>1. Tasked
      BY <1>8 DEF OtherTab, EndSession, Reset, spa, TypeOK, Tasked, TaskRecords, Kinds,
                  Places, Answers
    <2>2. CASE OtherTab
      BY <2>1, <2>2, NewSessionTypes DEF OtherTab, spa, TypeOK
    <2>3. CASE EndSession \/ Reset
      BY <2>1, <2>3, SomeSessions DEF EndSession, Reset, spa, history, TypeOK
    <2> QED BY <1>8, <2>2, <2>3
  <1> QED
    BY <1>2, <1>3, <1>4, <1>5, <1>6, <1>7, <1>8 DEF Next, Stop

\* The session, what the tab has cached, its pending navigation and everything under way
\* keep their types (SpaAuth), whatever navigations and answers overlap.
THEOREM TypeCorrect == Spec => []TypeOK
  <1>1. Init => TypeOK
    <2> SUFFICES ASSUME Init PROVE TypeOK
      OBVIOUS
    <2>1. account \in {"ok", "gated", "revoked"}
      BY AccountsAssumption DEF Init
    <2>2. task \in [Tasks -> TaskRecords] /\ nav \in Tasks
      BY TaskTypes DEF Init, Pages
    <2>3. task \in [Tasks -> [kind : ApiKinds \cup Unsafe \cup {"free"},
                             at : {"none", "session", "api", "logout", "decide", "load"},
                             to : Pages,
                             ans : {"none", "200", "401", "403", "gate", "lost"} \cup Roles,
                             token : 0 .. MaxSession]]
      BY <2>2 DEF TaskRecords, Kinds, Places, Answers
    <2>4. clicks \in 0 .. MaxClicks
      BY BoundsAssumption DEF Init
    <2> QED BY <2>1, <2>2, <2>3, <2>4, SomeSessions DEF Init, TypeOK
  <1> QED BY <1>1, TypePreserved, PTL DEF Spec

-----------------------------------------------------------------------------
(* Which role has led to the page on screen *)

\* Whatever says that a superadmin is there, an answer, the cached user, the guard's decision
\* or the page, comes from a session since the document was loaded.
RoleInv ==
    /\ session # 0 => role \in admins
    /\ user = "super_admin" => "super_admin" \in admins
    /\ page \in RequiresSuperAdmin => "super_admin" \in admins
    /\ \A t \in Tasks :
          /\ task[t].ans = "super_admin" => "super_admin" \in admins
          /\ task[t].at = "load" /\ task[t].to \in RequiresSuperAdmin => "super_admin" \in admins

\* A task that moves, with the page as it is or as the task brings it.
LEMMA RoleMoves ==
  ASSUME TypeOK, RoleInv, NEW t \in Tasks, NEW job, task' = [task EXCEPT ![t] = job],
         UNCHANGED <<role, admins>>, session' = session \/ session' = 0,
         job.ans = "super_admin" => "super_admin" \in admins,
         job.at = "load" /\ job.to \in RequiresSuperAdmin => "super_admin" \in admins,
         user' = "super_admin" => "super_admin" \in admins,
         page' \in RequiresSuperAdmin => "super_admin" \in admins
  PROVE  RoleInv'
  <1>1. task'[t] = job /\ \A x \in Tasks \ {t} : task'[x] = task[x]
    BY DEF TypeOK
  <1>2. \A x \in Tasks :
          /\ task'[x].ans = "super_admin" => "super_admin" \in admins
          /\ task'[x].at = "load" /\ task'[x].to \in RequiresSuperAdmin => "super_admin" \in admins
    BY <1>1 DEF RoleInv
  <1>3. session' # 0 => role' \in admins'
    BY DEF RoleInv
  <1> QED BY <1>2, <1>3 DEF RoleInv

\* A push starts a guard, or frees the task.
LEMMA Pushed ==
  ASSUME NEW t \in Tasks, NEW to, NEW u, Push(t, to, u)
  PROVE  /\ \/ page = to /\ nav' = "none" /\ task' = [task EXCEPT ![t] = Free]
            \/ nav' = t /\ task' = [task EXCEPT ![t] = Guard(to, u)]
         /\ Guard(to, u).kind = "guard" /\ Guard(to, u).ans = "none"
         /\ Guard(to, u).at \in {"session", "decide"} /\ Guard(to, u).token = 0
         /\ page # to => nav' = t
         /\ Free.kind = "free" /\ Free.at = "none" /\ Free.ans = "none"
  BY DEF Push, Guard, Request, Free

LEMMA Freed ==
  ASSUME NEW t \in Tasks, End(t)
  PROVE  task' = [task EXCEPT ![t] = Free] /\ Free.ans = "none" /\ Free.at = "none"
  BY DEF End, Free

LEMMA Requested ==
  \A kind, at, to, token :
      /\ Request(kind, at, to, token).kind = kind /\ Request(kind, at, to, token).at = at
      /\ Request(kind, at, to, token).ans = "none"
  BY DEF Request

LEMMA RolePreserved == TypeOK /\ RoleInv /\ [Next]_vars => RoleInv'
  <1> SUFFICES ASSUME TypeOK, RoleInv, [Next]_vars PROVE RoleInv'
    OBVIOUS
  <1>r. Roles \subseteq {"app_admin", "super_admin"} /\ role \in Roles
    BY RolesAssumption DEF TypeOK
  <1>1. ASSUME NEW t \in Tasks, Step(t) PROVE RoleInv'
    <2>0. task[t] \in TaskRecords /\ UNCHANGED admins
      BY <1>1, TaskSteps DEF Step, Remember
    <2>1. CASE AnswerSession(t)
      <3> DEFINE job == [task[t] EXCEPT !.ans = "200", !.token = session]
      <3>1. task' = [task EXCEPT ![t] = job] /\ UNCHANGED <<session, role, user, page>>
        BY <2>1 DEF AnswerSession, TypeOK, server
      <3>2. job.ans = "200" /\ job.at = task[t].at /\ job.to = task[t].to
        BY <2>0 DEF TaskRecords
      <3> HIDE DEF job
      <3> QED BY <2>0, <3>1, <3>2, RoleMoves DEF RoleInv
    <2>2. CASE AnswerApi(t) \/ AnswerLogout(t) \/ RefuseChange(t) \/ Fail(t)
      <3>1. PICK ans : Reply(t, ans) /\ (ans = "super_admin" => "super_admin" \in admins)
        <4>1. CASE AnswerApi(t)
          <5>1. PICK ans : /\ Reply(t, ans)
                           /\ \/ ans \in {"lost", "401", "403", "gate", "200"}
                              \/ session # 0 /\ ans = role
            BY <4>1 DEF AnswerApi, Answer
          <5> QED BY <5>1 DEF RoleInv
        <4>2. CASE AnswerLogout(t) \/ RefuseChange(t) \/ Fail(t)
          <5>1. PICK ans \in {"lost", "401", "403", "200"} : Reply(t, ans)
            BY <4>2 DEF AnswerLogout, RefuseChange, Fail, Answer
          <5> QED BY <5>1
        <4> QED BY <2>2, <4>1, <4>2
      <3> DEFINE job == [task[t] EXCEPT !.ans = ans]
      <3>2. task' = [task EXCEPT ![t] = job]
        BY <3>1 DEF Reply, TypeOK
      <3>3. job.ans = ans /\ job.at = task[t].at /\ job.to = task[t].to
        BY <2>0 DEF TaskRecords
      <3>4. UNCHANGED <<role, user, page>> /\ (session' = session \/ session' = 0)
        BY <2>2 DEF AnswerApi, AnswerLogout, RefuseChange, Fail, server
      <3> HIDE DEF job
      <3>5. /\ job.at = "load" /\ job.to \in RequiresSuperAdmin => "super_admin" \in admins
            /\ user' = "super_admin" => "super_admin" \in admins
            /\ page' \in RequiresSuperAdmin => "super_admin" \in admins
        BY <3>3, <3>4 DEF RoleInv
      <3> QED BY <2>0, <3>1, <3>2, <3>3, <3>4, <3>5, RoleMoves
    <2>3. CASE SessionKnown(t) \/ SessionUnknown(t) \/ ProfileFailed(t) \/ ProfileLoaded(t)
      <3>1. \/ Decided(t)
            \/ task' = [task EXCEPT ![t] = Request("guard", "api", task[t].to, 0)]
        BY <2>3 DEF SessionKnown, SessionUnknown, ProfileFailed, ProfileLoaded, CheckFailed
      <3>2. /\ UNCHANGED <<session, role, page>>
            /\ user' = user \/ user' = "none" \/ task[t].ans = user'
        BY <2>3 DEF SessionKnown, SessionUnknown, ProfileFailed, ProfileLoaded, CheckFailed,
                    Answered, server
      <3>3. PICK job : /\ task' = [task EXCEPT ![t] = job]
                       /\ job.ans = "none" /\ job.at \in {"decide", "api"}
        <4>1. CASE Decided(t)
          <5> DEFINE job == [task[t] EXCEPT !.at = "decide", !.ans = "none"]
          <5>1. task' = [task EXCEPT ![t] = job]
            BY <4>1 DEF Decided, TypeOK
          <5>2. job.ans = "none" /\ job.at = "decide"
            BY <2>0 DEF TaskRecords
          <5> HIDE DEF job
          <5> QED BY <5>1, <5>2
        <4>2. CASE task' = [task EXCEPT ![t] = Request("guard", "api", task[t].to, 0)]
          <5> DEFINE job == Request("guard", "api", task[t].to, 0)
          <5>1. task' = [task EXCEPT ![t] = job] /\ job.ans = "none" /\ job.at = "api"
            BY <4>2, Requested
          <5> HIDE DEF job
          <5> QED BY <5>1
        <4> QED BY <3>1, <4>1, <4>2
      <3> QED BY <2>0, <3>2, <3>3, RoleMoves DEF RoleInv
    <2>4. CASE Decide(t)
      <3> DEFINE to == Target(task[t].to)
      <3>1. UNCHANGED <<session, role, user, page>>
        BY <2>4 DEF Decide, server
      <3>2. CASE End(t) \/ Push(t, to, user)
        <4> HIDE DEF to
        <4>1. PICK job : task' = [task EXCEPT ![t] = job] /\ job.ans = "none" /\ job.at # "load"
          <5>1. CASE End(t)
            BY <5>1, Freed
          <5>2. CASE Push(t, to, user)
            BY <5>2, Pushed
          <5> QED BY <3>2, <5>1, <5>2
        <4> QED BY <2>0, <3>1, <4>1, RoleMoves DEF RoleInv
      <3>3. CASE to = task[t].to /\ task' = [task EXCEPT ![t].at = "load"]
        <4> DEFINE job == [task[t] EXCEPT !.at = "load"]
        <4>1. task' = [task EXCEPT ![t] = job]
          BY <3>3 DEF TypeOK
        <4>2. job.ans = task[t].ans /\ job.to = to
          BY <2>0, <3>3 DEF TaskRecords
        <4>3. to \in RequiresSuperAdmin => user = "super_admin"
          BY <3>3 DEF Target, RequiresSuperAdmin, RequiresAuth, Guest
        <4> HIDE DEF job, to
        <4> QED BY <2>0, <3>1, <4>1, <4>2, <4>3, RoleMoves DEF RoleInv
      <3> QED BY <2>4, <3>2, <3>3 DEF Decide
    <2>5. CASE Loaded(t)
      <3>1. /\ task' = [task EXCEPT ![t] = Free] /\ UNCHANGED <<session, role, user>>
            /\ page' = page \/ page' = task[t].to
            /\ task[t].at = "load" /\ Free.ans = "none" /\ Free.at = "none"
        BY <2>5 DEF Loaded, End, server, Free
      <3> QED BY <2>0, <3>1, RoleMoves DEF RoleInv
    <2>6. CASE Expired(t) \/ SignedOut(t)
      <3>1. /\ UNCHANGED <<session, role, page>> /\ user' \in {"none", user}
            /\ \E u : Push(t, "Login", u)
        BY <2>6 DEF Expired, SignedOut, server
      <3>2. PICK job : task' = [task EXCEPT ![t] = job] /\ job.ans = "none" /\ job.at # "load"
        BY <3>1, Pushed
      <3> QED BY <2>0, <3>1, <3>2, RoleMoves DEF RoleInv
    <2>7. CASE Gated(t)
      <3>1. /\ UNCHANGED <<session, role, page, user>>
            /\ Decided(t) \/ End(t) \/ Push(t, "ChangePassword", user)
        BY <2>7 DEF Gated, server
      <3>2. PICK job : task' = [task EXCEPT ![t] = job] /\ job.ans = "none" /\ job.at # "load"
        <4>1. CASE Decided(t)
          <5> DEFINE job == [task[t] EXCEPT !.at = "decide", !.ans = "none"]
          <5>1. task' = [task EXCEPT ![t] = job]
            BY <4>1 DEF Decided, TypeOK
          <5>2. job.ans = "none" /\ job.at = "decide"
            BY <2>0 DEF TaskRecords
          <5> HIDE DEF job
          <5> QED BY <5>1, <5>2
        <4>2. CASE End(t)
          BY <4>2, Freed
        <4>3. CASE Push(t, "ChangePassword", user)
          BY <4>3, Pushed
        <4> QED BY <3>1, <4>1, <4>2, <4>3
      <3> QED BY <2>0, <3>1, <3>2, RoleMoves DEF RoleInv
    <2>8. CASE CallSettled(t) \/ ProfileSaved(t)
      <3>1. /\ task' = [task EXCEPT ![t] = Free] /\ UNCHANGED <<session, role, page>>
            /\ user' = user \/ task[t].ans = user'
            /\ Free.ans = "none" /\ Free.at = "none"
        BY <2>8 DEF CallSettled, ProfileSaved, Answered, End, server, Free
      <3> QED BY <2>0, <3>1, RoleMoves DEF RoleInv
    <2>9. CASE PasswordChanged(t)
      <3> DEFINE job == Request("leave", "logout", "Login", csrf)
      <3>1. /\ task' = [task EXCEPT ![t] = job] /\ UNCHANGED <<session, role, page>>
            /\ user' = "none" /\ job.ans = "none" /\ job.at = "logout"
        BY <2>9 DEF PasswordChanged, Request, server
      <3> HIDE DEF job
      <3> QED BY <2>0, <3>1, RoleMoves DEF RoleInv
    <2> QED
      BY <1>1, <2>1, <2>2, <2>3, <2>4, <2>5, <2>6, <2>7, <2>8, <2>9 DEF Step
  <1>2. ASSUME NEW t \in Tasks, Navigate(t) PROVE RoleInv'
    <2>1. PICK to : Push(t, to, user)
      BY <1>2 DEF Navigate
    <2>2. PICK job : task' = [task EXCEPT ![t] = job] /\ job.ans = "none" /\ job.at # "load"
      BY <2>1, Pushed
    <2> QED BY <1>2, <2>2, RoleMoves DEF Navigate, Remember, server, RoleInv
  <1>3. ASSUME NEW t \in Tasks, Call(t) PROVE RoleInv'
    <2>1. PICK kind \in {"read", "write", "profile", "change", "logout"} :
             task' = [task EXCEPT ![t] =
                         Request(kind, IF kind = "logout" THEN "logout" ELSE "api", page, csrf)]
      BY <1>3 DEF Call
    <2> DEFINE job == Request(kind, IF kind = "logout" THEN "logout" ELSE "api", page, csrf)
    <2>2. task' = [task EXCEPT ![t] = job] /\ job.ans = "none" /\ job.at # "load"
      BY <2>1, Requested
    <2> HIDE DEF job
    <2> QED BY <1>3, <2>2, RoleMoves DEF Call, server, history, RoleInv
  <1>4. CASE Reload \/ SignIn
    <2>1. \E to : FreshDocument(to)
      BY <1>4 DEF Reload, SignIn
    <2>2. /\ user' = "none" /\ page' = "none"
          /\ \A t \in Tasks : task'[t].ans = "none" /\ task'[t].at \in {"session", "none"}
          /\ session' # 0 => role' \in admins'
      BY <2>1 DEF FreshDocument, Guard, Request, Free
    <2> QED BY <2>2 DEF RoleInv, RequiresSuperAdmin
  <1>5. CASE OtherTab
    <2>1. /\ admins \subseteq admins' /\ role' \in admins' /\ UNCHANGED <<user, page, task>>
      BY <1>5 DEF OtherTab, spa
    <2> QED BY <2>1 DEF RoleInv
  <1>6. CASE EndSession \/ Reset \/ UNCHANGED vars
    <2>1. /\ UNCHANGED <<role, admins, user, page, task>>
          /\ session' = session \/ session' = 0
      BY <1>6 DEF EndSession, Reset, vars, server, spa, history
    <2> QED BY <2>1 DEF RoleInv
  <1> QED
    BY <1>1, <1>2, <1>3, <1>4, <1>5, <1>6 DEF Next, Stop

\* A superadmin page is on screen only if a superadmin has been signed in since the document
\* was loaded (router.ts), whatever the tab has under way, whoever signs in, in this tab or
\* another, and however late profiles are answered.
THEOREM OnlySuperAdmins == Spec => []SuperAdminOnly
  <1>1. Init => RoleInv
    <2> SUFFICES ASSUME Init PROVE RoleInv
      OBVIOUS
    <2>1. \A t \in Tasks : task[t].ans = "none" /\ task[t].at \in {"session", "none"}
      BY DEF Init, Guard, Request, Free
    <2> QED BY <2>1 DEF Init, RoleInv, RequiresSuperAdmin
  <1>2. RoleInv => SuperAdminOnly
    BY DEF RoleInv, SuperAdminOnly
  <1> QED BY <1>1, <1>2, RolePreserved, TypeCorrect, PTL DEF Spec

-----------------------------------------------------------------------------
(* Who looks after the console when its user is forgotten *)

\* A sign-out that leads to Login once the password was changed.
Leaving == \E x \in Tasks : task[x].kind = "leave"

\* Only guards look at the session, decide and load, the pending navigation is one, and a
\* profile is answered only to a request that carried a token.
TaskInv ==
    /\ nav # "none" => task[nav].kind = "guard"
    /\ \A x \in Tasks :
          /\ task[x].at \in {"session", "decide", "load"} => task[x].kind = "guard"
          /\ task[x].kind = "profile" /\ task[x].ans \in Roles => task[x].token # 0

\* A user is cached, or may still be, only with the token.
CachedInv ==
    /\ user # "none" => csrf # 0
    /\ \A x \in Tasks : Refills(task[x]) => csrf # 0

\* A page of the console without its user is about to be left, and none is about to come.
LeftInv ==
    user = "none" =>
        /\ page \in RequiresAuth => nav # "none" \/ Leaving
        /\ nav # "none" /\ task[nav].at = "load" /\ task[nav].to \in RequiresAuth => Leaving

TabInv == TaskInv /\ (crossed \/ (CachedInv /\ LeftInv))

\* What a move of task t to job does, of the user, the token, the page and the navigation.
Moves(t, job) ==
    /\ task' = [task EXCEPT ![t] = job]
    /\ crossed' = (crossed \/ Crosses)
    /\ job.at \in {"session", "decide", "load"} => job.kind = "guard"
    /\ job.kind = "profile" /\ job.ans \in Roles => job.token # 0
    /\ \/ nav' = "none"
       \/ nav' = t /\ job.kind = "guard"
       \/ nav' = nav /\ (nav = t => job.kind = "guard")
    /\ user' # "none" => user' = user \/ (Refills(task[t]) /\ csrf' = csrf)
    /\ Refills(job) => csrf' # 0 \/ Refills(task[t])
    /\ user # "none" /\ user' = "none" =>
          \/ job.at = "decide"
          \/ nav' = t /\ job.at # "load"
          \/ nav' = "none" /\ page \notin RequiresAuth
          \/ job.kind = "leave"
    /\ page' # page =>
          user' = user /\ nav = t /\ task[t].at = "load" /\ task[t].to = page'
    /\ task[t].kind = "leave" =>
          \/ job.kind = "leave"
          \/ nav' = t /\ job.at # "load"
          \/ nav' = "none" /\ page \notin RequiresAuth
    /\ job.at = "load" /\ nav' = t =>
          \/ nav = t /\ task[t].at = "load" /\ task[t].to = job.to
          \/ job.to \in RequiresAuth => user' # "none"

LEMMA TabMoves ==
  ASSUME TypeOK, TabInv, NEW t \in Tasks, NEW job, Moves(t, job)
  PROVE  TabInv'
  <1>1. task'[t] = job /\ \A x \in Tasks \ {t} : task'[x] = task[x]
    BY DEF Moves, TypeOK
  <1>t. nav \in Tasks \cup {"none"} /\ "none" \notin Tasks
    BY TasksAssumption DEF TypeOK
  <1>2. TaskInv'
    <2>1. nav' # "none" => task'[nav'].kind = "guard"
      BY <1>1, <1>t DEF TabInv, TaskInv, Moves
    <2>2. \A x \in Tasks :
             /\ task'[x].at \in {"session", "decide", "load"} => task'[x].kind = "guard"
             /\ task'[x].kind = "profile" /\ task'[x].ans \in Roles => task'[x].token # 0
      BY <1>1 DEF TabInv, TaskInv, Moves
    <2> QED BY <2>1, <2>2 DEF TaskInv
  <1>3. SUFFICES ASSUME ~(crossed \/ Crosses) PROVE CachedInv' /\ LeftInv'
    <2>1. crossed' = (crossed \/ Crosses)
      BY DEF Moves
    <2> QED BY <1>2, <2>1 DEF TabInv
  <1>4. /\ ~Crosses /\ CachedInv /\ LeftInv /\ TaskInv
    BY <1>3 DEF TabInv
  <1>5. CachedInv'
    <2>1. csrf # 0 /\ csrf' = 0 => user' = "none" /\ \A x \in Tasks : ~Refills(task'[x])
      BY <1>4 DEF Crosses, Forgets
    <2>2. user' # "none" => csrf' # 0
      BY <1>4, <2>1 DEF Moves, CachedInv
    <2>3. \A x \in Tasks : Refills(task'[x]) => csrf' # 0
      BY <1>1, <1>4, <2>1 DEF Moves, CachedInv
    <2> QED BY <2>2, <2>3 DEF CachedInv, Refills
  <1>6. ASSUME user' = "none", page' \in RequiresAuth PROVE nav' # "none" \/ Leaving'
    <2>1. CASE page' # page
      <3>1. PICK x \in Tasks : task[x].kind = "leave"
        BY <1>4, <1>6, <1>t, <2>1 DEF Moves, LeftInv, Leaving
      <3>2. x # t
        BY <1>4, <2>1, <3>1 DEF Moves, TaskInv
      <3> QED BY <1>1, <3>1, <3>2 DEF Leaving
    <2>2. CASE page' = page /\ user # "none"
      <3>1. task'[t].at = "decide" => nav' = t
        BY <1>4, <1>6, <2>2 DEF Crosses, Forgets
      <3>2. job.kind = "leave" => Leaving'
        BY <1>1 DEF Leaving
      <3> QED BY <1>1, <1>6, <1>t, <2>2, <3>1, <3>2 DEF Moves
    <2>3. CASE page' = page /\ user = "none"
      <3>1. nav # "none" => nav' # "none"
        BY <1>4, <1>6, <2>3 DEF Crosses
      <3>2. ASSUME NEW x \in Tasks, task[x].kind = "leave" PROVE nav' # "none" \/ Leaving'
        <4>1. CASE x # t
          BY <1>1, <3>2, <4>1 DEF Leaving
        <4>2. CASE x = t
          BY <1>1, <1>6, <1>t, <2>3, <3>2, <4>2 DEF Moves, Leaving
        <4> QED BY <4>1, <4>2
      <3>3. nav # "none" \/ Leaving
        BY <1>4, <1>6, <2>3 DEF LeftInv
      <3> QED BY <3>1, <3>2, <3>3 DEF Leaving
    <2> QED BY <2>1, <2>2, <2>3
  <1>7. ASSUME user' = "none", nav' # "none", task'[nav'].at = "load", task'[nav'].to \in RequiresAuth
        PROVE  Leaving'
    <2>1. user # "none" => job.kind = "leave"
      <3> SUFFICES ASSUME user # "none" PROVE job.kind = "leave"
        OBVIOUS
      <3>1. job.at = "decide" => nav' = t
        BY <1>1, <1>4, <1>7 DEF Crosses, Forgets
      <3> QED BY <1>1, <1>7, <3>1 DEF Moves
    <2>2. CASE user # "none"
      BY <1>1, <2>1, <2>2 DEF Leaving
    <2>3. CASE user = "none"
      <3>1. nav = nav' /\ task[nav].at = "load" /\ task[nav].to \in RequiresAuth
        BY <1>1, <1>7, <1>t DEF Moves
      <3>2. PICK x \in Tasks : task[x].kind = "leave"
        BY <1>4, <1>7, <2>3, <3>1 DEF LeftInv, Leaving
      <3>3. CASE x # t
        BY <1>1, <3>2, <3>3 DEF Leaving
      <3>4. CASE x = t
        <4>1. job.kind = "leave"
          BY <1>1, <1>7, <3>2, <3>4 DEF Moves
        <4> QED BY <1>1, <4>1 DEF Leaving
      <3> QED BY <3>3, <3>4
    <2> QED BY <2>2, <2>3
  <1>8. LeftInv'
    BY <1>6, <1>7 DEF LeftInv
  <1> QED BY <1>5, <1>8

\* A push in place of a guard, a call that is over or no task; the user is as it was, or
\* forgotten on the way to Login.
LEMMA TabPushes ==
  ASSUME TypeOK, TabInv, NEW t \in Tasks, NEW to \in Pages, Push(t, to, user'), UNCHANGED page,
         crossed' = (crossed \/ Crosses), user' = user \/ (user' = "none" /\ to = "Login"),
         task[t].kind = "leave" => to = "Login"
  PROVE  TabInv'
  <1>1. PICK job : Moves(t, job)
    <2>1. \/ page = to /\ nav' = "none" /\ task' = [task EXCEPT ![t] = Free]
          \/ nav' = t /\ task' = [task EXCEPT ![t] = Guard(to, user')]
      BY Pushed
    <2>2. "Login" \notin RequiresAuth
      BY DEF RequiresAuth
    <2>3. CASE page = to /\ nav' = "none" /\ task' = [task EXCEPT ![t] = Free]
      <3>1. Free.kind = "free" /\ Free.at = "none" /\ ~Refills(Free)
        BY DEF Free, Refills
      <3>2. Moves(t, Free)
        BY <2>2, <2>3, <3>1 DEF Moves
      <3> QED BY <3>2
    <2>4. CASE nav' = t /\ task' = [task EXCEPT ![t] = Guard(to, user')]
      <3>1. /\ Guard(to, user').kind = "guard" /\ Guard(to, user').at \in {"session", "decide"}
        BY Pushed
      <3>2. Moves(t, Guard(to, user'))
        BY <2>4, <3>1 DEF Moves, Refills
      <3> QED BY <3>2
    <2> QED BY <2>1, <2>3, <2>4
  <1> QED BY <1>1, TabMoves

LEMMA TabPreserved == TypeOK /\ TabInv /\ [Next]_vars => TabInv'
  <1> SUFFICES ASSUME TypeOK, TabInv, [Next]_vars PROVE TabInv'
    OBVIOUS
  <1>u. user \in Roles \cup {"none"} /\ "none" \notin Roles /\ "none" \notin Tasks
    BY RolesAssumption, TasksAssumption DEF TypeOK
  <1>p. "Login" \in Pages /\ "ChangePassword" \in Pages
    BY DEF Pages, Guest
  <1>1. ASSUME NEW t \in Tasks, Step(t) PROVE TabInv'
    <2>0. /\ task[t] \in TaskRecords /\ task[t].to \in Pages
          /\ crossed' = (crossed \/ Crosses) /\ TaskInv
      BY <1>1, TaskSteps DEF Step, Remember, TaskRecords, TabInv
    <2>d. ASSUME NEW job, task[t].kind = "guard", job = [task[t] EXCEPT !.at = "decide", !.ans = "none"]
          PROVE  job.kind = "guard" /\ job.at = "decide"
      BY <2>0, <2>d DEF TaskRecords
    <2>1. CASE AnswerSession(t)
      <3> DEFINE job == [task[t] EXCEPT !.ans = "200", !.token = session]
      <3>1. /\ task' = [task EXCEPT ![t] = job] /\ UNCHANGED <<user, csrf, page, nav>>
            /\ task[t].kind = "guard"
        BY <2>1, <2>0 DEF AnswerSession, Unanswered, TypeOK, TaskInv
      <3>2. /\ job.kind = task[t].kind /\ job.at = task[t].at /\ job.to = task[t].to
        BY <2>0 DEF TaskRecords
      <3> HIDE DEF job
      <3>3. Moves(t, job)
        BY <2>0, <3>1, <3>2 DEF Moves, Refills, TaskInv
      <3> QED BY <3>3, TabMoves
    <2>2. CASE AnswerApi(t) \/ AnswerLogout(t) \/ RefuseChange(t) \/ Fail(t)
      <3>1. PICK ans : /\ Reply(t, ans)
                       /\ ans \in Roles /\ task[t].kind = "profile" => task[t].token # 0
        BY <2>2, RolesAssumption DEF AnswerApi, AnswerLogout, RefuseChange, Fail, Answer, Mismatch, Unsafe
      <3> DEFINE job == [task[t] EXCEPT !.ans = ans]
      <3>2. task' = [task EXCEPT ![t] = job] /\ UNCHANGED <<user, csrf, page, nav>>
        BY <2>2, <3>1 DEF AnswerApi, AnswerLogout, RefuseChange, Fail, Reply, TypeOK
      <3>3. /\ job.kind = task[t].kind /\ job.at = task[t].at /\ job.to = task[t].to
            /\ job.ans = ans /\ job.token = task[t].token
        BY <2>0 DEF TaskRecords
      <3> HIDE DEF job
      <3>4. Moves(t, job)
        BY <2>0, <3>1, <3>2, <3>3 DEF Moves, Refills, TaskInv
      <3> QED BY <3>4, TabMoves
    <2>3. CASE SessionKnown(t)
      <3>1. task[t].kind = "guard" /\ UNCHANGED <<page, nav>> /\ csrf' = task[t].token
        BY <2>3 DEF SessionKnown, Answered
      <3>2. CASE task[t].token = 0
        <4> DEFINE job == [task[t] EXCEPT !.at = "decide", !.ans = "none"]
        <4>1. task' = [task EXCEPT ![t] = job] /\ user' = "none"
          BY <2>3, <3>2 DEF SessionKnown, Decided, TypeOK
        <4>2. job.kind = "guard" /\ job.at = "decide"
          BY <3>1, <2>d
        <4> HIDE DEF job
        <4>3. Moves(t, job)
          BY <2>0, <3>1, <4>1, <4>2 DEF Moves, Refills
        <4> QED BY <4>3, TabMoves
      <3>3. CASE task[t].token # 0
        <4> DEFINE job == Request("guard", "api", task[t].to, 0)
        <4>1. task' = [task EXCEPT ![t] = job] /\ user' = user
          BY <2>3, <3>3 DEF SessionKnown
        <4>2. job.kind = "guard" /\ job.at = "api"
          BY DEF Request
        <4> HIDE DEF job
        <4>3. Moves(t, job)
          BY <2>0, <3>1, <3>3, <4>1, <4>2 DEF Moves, Refills
        <4> QED BY <4>3, TabMoves
      <3> QED BY <3>2, <3>3
    <2>4. CASE SessionUnknown(t) \/ ProfileFailed(t) \/ ProfileLoaded(t)
      <3> DEFINE job == [task[t] EXCEPT !.at = "decide", !.ans = "none"]
      <3>1. /\ task' = [task EXCEPT ![t] = job] /\ UNCHANGED <<csrf, page, nav>>
            /\ task[t].kind = "guard"
            /\ \/ user' = user \/ user' = "none"
               \/ task[t].at = "api"
        BY <2>4 DEF SessionUnknown, ProfileFailed, ProfileLoaded, CheckFailed, Answered, Decided, TypeOK
      <3>2. job.kind = "guard" /\ job.at = "decide"
        BY <3>1, <2>d
      <3> HIDE DEF job
      <3>3. Moves(t, job)
        BY <2>0, <3>1, <3>2 DEF Moves, Refills
      <3> QED BY <3>3, TabMoves
    <2>5. CASE Decide(t)
      <3> DEFINE to == Target(task[t].to)
      <3>1. /\ UNCHANGED <<user, csrf, page>> /\ task[t].kind = "guard" /\ task[t].at = "decide"
            /\ to \in Pages
        BY <2>5, <2>0, TargetType DEF Decide, TaskInv
      <3>2. CASE nav # t /\ End(t) /\ UNCHANGED nav
        <4>1. Moves(t, Free)
          BY <2>0, <3>1, <3>2 DEF Moves, End, Free, Refills
        <4> QED BY <4>1, TabMoves
      <3>3. CASE nav = t /\ to = task[t].to /\ task' = [task EXCEPT ![t].at = "load"] /\ UNCHANGED nav
        <4> DEFINE job == [task[t] EXCEPT !.at = "load"]
        <4>1. task' = [task EXCEPT ![t] = job]
          BY <3>3 DEF TypeOK
        <4>2. job.kind = "guard" /\ job.at = "load" /\ job.to = to
          BY <2>0, <3>1, <3>3 DEF TaskRecords
        <4>3. to \in RequiresAuth => user # "none"
          BY <3>3 DEF Target, RequiresAuth, Guest
        <4> HIDE DEF job, to
        <4>4. Moves(t, job)
          BY <2>0, <3>1, <3>3, <4>1, <4>2, <4>3 DEF Moves, Refills
        <4> QED BY <4>4, TabMoves
      <3>4. CASE Push(t, to, user)
        <4> HIDE DEF to
        <4>1. Push(t, to, user') /\ user' = user /\ page' = page
          BY <3>1, <3>4
        <4> QED BY <2>0, <3>1, <4>1, TabPushes
      <3> QED BY <2>5, <3>2, <3>3, <3>4 DEF Decide
    <2>6. CASE Loaded(t)
      <3>1. /\ task' = [task EXCEPT ![t] = Free] /\ UNCHANGED <<user, csrf>>
            /\ task[t].kind = "guard" /\ task[t].at = "load"
            /\ nav = t => page' = task[t].to /\ nav' = "none"
            /\ nav # t => page' = page /\ nav' = nav
        BY <2>6, <2>0 DEF Loaded, End, TaskInv
      <3>2. Moves(t, Free)
        BY <2>0, <3>1 DEF Moves, Free, Refills
      <3> QED BY <3>2, TabMoves
    <2>7. CASE Expired(t)
      <3>1. /\ user' = "none" /\ UNCHANGED page /\ Push(t, "Login", user')
            /\ task[t].kind # "leave"
        BY <2>7 DEF Expired, Answered, ApiKinds
      <3> QED BY <2>0, <3>1, <1>p, TabPushes
    <2>8. CASE Gated(t)
      <3>1. /\ UNCHANGED <<user, csrf, page>> /\ task[t].kind \in ApiKinds
        BY <2>8 DEF Gated, Answered
      <3>2. CASE ~gate /\ page # "ChangePassword"
        <4>1. Push(t, "ChangePassword", user') /\ user' = user /\ page' = page
          BY <2>8, <3>1, <3>2 DEF Gated
        <4>2. task[t].kind # "leave"
          BY <3>1 DEF ApiKinds
        <4> QED BY <2>0, <4>1, <4>2, <1>p, TabPushes
      <3>3. CASE ~(~gate /\ page # "ChangePassword")
        <4>1. UNCHANGED nav /\ IF task[t].kind = "guard" THEN Decided(t) ELSE End(t)
          BY <2>8, <3>3 DEF Gated
        <4>2. CASE task[t].kind = "guard"
          <5> DEFINE job == [task[t] EXCEPT !.at = "decide", !.ans = "none"]
          <5>1. task' = [task EXCEPT ![t] = job]
            BY <4>1, <4>2 DEF Decided, TypeOK
          <5>2. job.kind = "guard" /\ job.at = "decide"
            BY <4>2, <2>d
          <5> HIDE DEF job
          <5>3. Moves(t, job)
            BY <2>0, <3>1, <4>1, <4>2, <5>1, <5>2 DEF Moves, Refills
          <5> QED BY <5>3, TabMoves
        <4>3. CASE task[t].kind # "guard"
          <5>1. nav # t
            BY <4>3, <2>0, <1>u DEF TaskInv
          <5>2. Moves(t, Free)
            BY <2>0, <3>1, <4>1, <4>3, <5>1 DEF Moves, End, Free, Refills, ApiKinds
          <5> QED BY <5>2, TabMoves
        <4> QED BY <4>2, <4>3
      <3> QED BY <3>2, <3>3
    <2>9. CASE CallSettled(t) \/ ProfileSaved(t)
      <3>1. /\ task' = [task EXCEPT ![t] = Free] /\ UNCHANGED <<csrf, page, nav>>
            /\ task[t].kind \notin {"guard", "leave"}
            /\ user' = user \/ (task[t].kind = "profile" /\ task[t].ans \in Roles)
            /\ user' \in Roles \cup {"none"} /\ user' = "none" => user = "none"
        BY <2>9, <1>u DEF CallSettled, ProfileSaved, Answered, End
      <3>2. nav # t
        BY <3>1, <2>0, <1>u DEF TaskInv
      <3>3. user' # user => Refills(task[t])
        BY <3>1, <2>0 DEF Refills, TaskInv
      <3>4. Moves(t, Free)
        BY <2>0, <3>1, <3>2, <3>3 DEF Moves, Free, Refills
      <3> QED BY <3>4, TabMoves
    <2>10. CASE PasswordChanged(t)
      <3> DEFINE job == Request("leave", "logout", "Login", csrf)
      <3>1. /\ task' = [task EXCEPT ![t] = job] /\ UNCHANGED <<csrf, page, nav>>
            /\ user' = "none" /\ task[t].kind = "change"
            /\ job.kind = "leave" /\ job.at = "logout"
        BY <2>10 DEF PasswordChanged, Answered, Request
      <3> HIDE DEF job
      <3>2. nav # t
        BY <3>1, <2>0, <1>u DEF TaskInv
      <3>3. Moves(t, job)
        BY <2>0, <3>1, <3>2 DEF Moves, Refills
      <3> QED BY <3>3, TabMoves
    <2>11. CASE SignedOut(t)
      <3>1. user' \in {user, "none"} /\ UNCHANGED page /\ Push(t, "Login", user')
        BY <2>11 DEF SignedOut
      <3> QED BY <2>0, <3>1, <1>p, TabPushes
    <2> QED
      BY <1>1, <2>1, <2>2, <2>3, <2>4, <2>5, <2>6, <2>7, <2>8, <2>9, <2>10, <2>11 DEF Step
  <1>2. ASSUME NEW t \in Tasks, Navigate(t) PROVE TabInv'
    <2>1. PICK to \in RequiresAuth \cup Guest : Push(t, to, user)
      BY <1>2 DEF Navigate
    <2>2. /\ UNCHANGED <<user, csrf, page>> /\ crossed' = (crossed \/ Crosses)
          /\ task[t].kind = "free" /\ to \in Pages
      BY <1>2 DEF Navigate, Act, Remember, Free, Pages
    <2>3. Push(t, to, user')
      BY <2>1, <2>2
    <2> QED BY <2>2, <2>3, TabPushes
  <1>3. ASSUME NEW t \in Tasks, Call(t) PROVE TabInv'
    <2>1. PICK kind \in {"read", "write", "profile", "change", "logout"} :
             task' = [task EXCEPT ![t] =
                         Request(kind, IF kind = "logout" THEN "logout" ELSE "api", page, csrf)]
      BY <1>3 DEF Call
    <2> DEFINE job == Request(kind, IF kind = "logout" THEN "logout" ELSE "api", page, csrf)
    <2>2. /\ UNCHANGED <<user, csrf, page, nav, crossed>> /\ task[t] = Free
          /\ crossed \in BOOLEAN
      BY <1>3 DEF Call, Act, history, TypeOK
    <2>3. /\ job.kind = kind /\ job.at \in {"logout", "api"} /\ job.ans = "none" /\ job.token = csrf
      BY DEF Request
    <2>4. nav # t
      BY <2>2, <1>u DEF TabInv, TaskInv, Free
    <2>5. ~Crosses
      BY <2>2, <1>u DEF Crosses, Forgets
    <2>6. task' = [task EXCEPT ![t] = job] /\ crossed' = (crossed \/ Crosses)
      BY <2>1, <2>2, <2>5
    <2> HIDE DEF job
    <2>7. Free.kind = "free" /\ (Refills(job) => csrf' # 0)
      BY <2>2, <2>3 DEF Free, Refills
    <2>8. Moves(t, job)
      BY <2>2, <2>3, <2>4, <2>6, <2>7, <1>u DEF Moves
    <2> QED BY <2>8, TabMoves
  <1>4. CASE Reload \/ SignIn
    <2>1. \E to : FreshDocument(to)
      BY <1>4 DEF Reload, SignIn
    <2>2. /\ user' = "none" /\ page' = "none" /\ nav' \in Tasks
          /\ task'[nav'].kind = "guard" /\ task'[nav'].at = "session"
          /\ \A x \in Tasks :
                /\ task'[x].at \in {"session", "none"} /\ task'[x].kind \in {"guard", "free"}
                /\ task'[x].at = "session" => task'[x].kind = "guard"
      BY <2>1 DEF FreshDocument, Guard, Request, Free
    <2>3. TaskInv' /\ LeftInv'
      BY <2>2 DEF TaskInv, LeftInv, RequiresAuth
    <2>4. \A x \in Tasks : ~Refills(task'[x])
      BY <2>2 DEF Refills
    <2>5. CachedInv'
      BY <2>2, <2>4 DEF CachedInv, Refills
    <2> QED BY <2>3, <2>5 DEF TabInv
  <1>5. CASE OtherTab \/ EndSession \/ Reset \/ UNCHANGED vars
    <2>1. UNCHANGED <<user, csrf, page, nav, task, crossed>>
      BY <1>5 DEF OtherTab, EndSession, Reset, vars, spa, history
    <2> QED BY <2>1 DEF TabInv, TaskInv, CachedInv, LeftInv, Leaving, Refills
  <1> QED
    BY <1>1, <1>2, <1>3, <1>4, <1>5 DEF Next, Stop

\* A page of the console that is on screen at rest has its user and its CSRF token, whatever
\* the tab had under way at once and whatever other tabs, the BFF and the operator did, unless
\* user or token were forgotten in one of the crossings (authStore.ts, api.ts, router.ts).
THEOREM ConsoleStaysConsistent == Spec => []ConsoleConsistent
  <1>1. Init => TabInv
    <2> SUFFICES ASSUME Init PROVE TabInv
      OBVIOUS
    <2>1. /\ user = "none" /\ page = "none" /\ nav \in Tasks
          /\ task[nav].kind = "guard" /\ task[nav].at = "session"
          /\ \A x \in Tasks :
                /\ task[x].at \in {"session", "none"} /\ task[x].kind \in {"guard", "free"}
                /\ task[x].at = "session" => task[x].kind = "guard"
      BY DEF Init, Guard, Request, Free
    <2> QED BY <2>1 DEF TabInv, TaskInv, CachedInv, LeftInv, Refills, RequiresAuth
  <1>2. TypeOK /\ TabInv => ConsoleConsistent
    <2> SUFFICES ASSUME TypeOK, TabInv, Rested, ~crossed, page \in RequiresAuth
                 PROVE  user # "none" /\ csrf # 0
      BY DEF ConsoleConsistent
    <2>1. \A x \in Tasks : task[x].kind = "free"
      BY DEF Rested, Free
    <2>2. nav = "none" /\ ~Leaving
      BY <2>1 DEF TabInv, TaskInv, Leaving, TypeOK
    <2> QED BY <2>2 DEF TabInv, LeftInv, CachedInv
  <1> QED BY <1>1, <1>2, TabPreserved, TypeCorrect, PTL DEF Spec

-----------------------------------------------------------------------------
\* While the gate is up nothing leads away from the change form but a fresh document: no task
\* of any number under way, and no profile that loads (router.ts, App.vue).
THEOREM GateKeepsHolding == Spec => GateHolds
  <1>1. TypeOK /\ [Next]_vars => [ Held /\ gate' => Held' \/ page' = "none" ]_vars
    <2> SUFFICES ASSUME TypeOK, Next, Held, gate' PROVE Held' \/ page' = "none"
      OBVIOUS
    <2>t. nav \in Tasks \cup {"none"} /\ "none" \notin Tasks
      BY TasksAssumption DEF TypeOK
    <2>1. ASSUME NEW t \in Tasks, NEW job, task' = [task EXCEPT ![t] = job], UNCHANGED page,
                 nav' = "none" \/ nav' = t \/ nav' = nav,
                 job.at = "load" => job.to = "ChangePassword"
          PROVE  Held'
      <3>1. task'[t] = job /\ \A x \in Tasks \ {t} : task'[x] = task[x]
        BY <2>1 DEF TypeOK
      <3> QED BY <2>t, <2>1, <3>1 DEF Held
    <2>2. ASSUME NEW t \in Tasks, NEW to, NEW u, Push(t, to, u), UNCHANGED page PROVE Held'
      <3>1. PICK job : /\ task' = [task EXCEPT ![t] = job] /\ job.at # "load"
                       /\ (nav' = "none" \/ nav' = t)
        BY <2>2, Pushed
      <3> QED BY <2>1, <2>2, <3>1
    <2>3. ASSUME NEW t \in Tasks, Step(t) PROVE Held'
      <3>0. task[t] \in TaskRecords /\ task \in [Tasks -> TaskRecords]
        BY TaskSteps DEF TypeOK, TaskRecords, Kinds, Places, Answers
      <3>d. ASSUME Decided(t), UNCHANGED <<page, nav>> PROVE Held'
        <4> DEFINE job == [task[t] EXCEPT !.at = "decide", !.ans = "none"]
        <4>1. task' = [task EXCEPT ![t] = job] /\ job.at = "decide"
          BY <3>0, <3>d DEF Decided, TaskRecords
        <4> HIDE DEF job
        <4> QED BY <2>1, <3>d, <4>1
      <3>e. ASSUME End(t), UNCHANGED <<page, nav>> PROVE Held'
        BY <2>1, <3>e DEF End, Free
      <3>1. CASE AnswerSession(t) \/ AnswerApi(t) \/ AnswerLogout(t) \/ RefuseChange(t) \/ Fail(t)
        <4>1. /\ UNCHANGED <<page, nav>> /\ task[t].at \in {"session", "api", "logout"}
              /\ \/ \E ans : Reply(t, ans)
                 \/ task' = [task EXCEPT ![t].ans = "200", ![t].token = session]
          BY <3>1 DEF AnswerSession, AnswerApi, AnswerLogout, RefuseChange, Fail, Answer, Unanswered
        <4>2. PICK job : task' = [task EXCEPT ![t] = job] /\ job.at = task[t].at
          <5>1. ASSUME NEW ans, Reply(t, ans)
                PROVE  \E job : task' = [task EXCEPT ![t] = job] /\ job.at = task[t].at
            <6> DEFINE job == [task[t] EXCEPT !.ans = ans]
            <6>1. task' = [task EXCEPT ![t] = job] /\ job.at = task[t].at
              BY <3>0, <5>1 DEF Reply, TaskRecords
            <6> HIDE DEF job
            <6> QED BY <6>1
          <5>2. ASSUME task' = [task EXCEPT ![t].ans = "200", ![t].token = session]
                PROVE  \E job : task' = [task EXCEPT ![t] = job] /\ job.at = task[t].at
            <6> DEFINE job == [task[t] EXCEPT !.ans = "200", !.token = session]
            <6>1. task' = [task EXCEPT ![t] = job] /\ job.at = task[t].at
              BY <3>0, <5>2 DEF TaskRecords
            <6> HIDE DEF job
            <6> QED BY <6>1
          <5> QED BY <4>1, <5>1, <5>2
        <4> QED BY <2>1, <4>1, <4>2
      <3>2. CASE SessionKnown(t)
        <4>1. /\ UNCHANGED <<page, nav>>
              /\ Decided(t) \/ task' = [task EXCEPT ![t] = Request("guard", "api", task[t].to, 0)]
          BY <3>2 DEF SessionKnown
        <4>2. Request("guard", "api", task[t].to, 0).at = "api"
          BY DEF Request
        <4> QED BY <2>1, <3>d, <4>1, <4>2
      <3>3. CASE SessionUnknown(t) \/ ProfileLoaded(t) \/ ProfileFailed(t)
        BY <3>3, <3>d DEF SessionUnknown, ProfileLoaded, ProfileFailed, CheckFailed
      <3>4. CASE Decide(t)
        <4> DEFINE to == Target(task[t].to)
        <4>1. /\ UNCHANGED page
              /\ \/ End(t) /\ UNCHANGED nav
                 \/ Push(t, to, user)
                 \/ to = task[t].to /\ task' = [task EXCEPT ![t].at = "load"] /\ UNCHANGED nav
          BY <3>4 DEF Decide
        <4>2. CASE to = task[t].to /\ task' = [task EXCEPT ![t].at = "load"] /\ UNCHANGED nav
          <5>1. task[t].to = "ChangePassword"
            BY <4>2 DEF Target, Held
          <5> DEFINE job == [task[t] EXCEPT !.at = "load"]
          <5>2. task' = [task EXCEPT ![t] = job] /\ job.to = task[t].to
            BY <3>0, <4>2 DEF TaskRecords
          <5> HIDE DEF job, to
          <5> QED BY <2>1, <4>1, <4>2, <5>1, <5>2
        <4> HIDE DEF to
        <4> QED BY <2>2, <3>e, <4>1, <4>2
      <3>5. CASE Loaded(t)
        <4>1. /\ UNCHANGED page /\ (nav' = "none" \/ nav' = nav)
              /\ task' = [task EXCEPT ![t] = Free] /\ Free.at = "none"
          BY <3>5, <2>t DEF Loaded, End, Held, Free
        <4> QED BY <2>1, <4>1
      <3>6. CASE Expired(t) \/ SignedOut(t)
        BY <2>2, <3>6 DEF Expired, SignedOut
      <3>7. CASE Gated(t)
        <4>1. /\ UNCHANGED page
              /\ \/ (Decided(t) \/ End(t)) /\ UNCHANGED nav
                 \/ Push(t, "ChangePassword", user)
          BY <3>7 DEF Gated
        <4> QED BY <2>2, <3>d, <3>e, <4>1
      <3>8. CASE CallSettled(t) \/ ProfileSaved(t)
        BY <3>8, <3>e DEF CallSettled, ProfileSaved
      <3>9. CASE PasswordChanged(t)
        BY <3>9, <2>1 DEF PasswordChanged, Request
      <3> QED
        BY <2>3, <3>1, <3>2, <3>3, <3>4, <3>5, <3>6, <3>7, <3>8, <3>9 DEF Step
    <2>4. ASSUME NEW t \in Tasks, Navigate(t) \/ Call(t) PROVE Held'
      <3>1. CASE Navigate(t)
        BY <2>2, <3>1 DEF Navigate
      <3>2. CASE Call(t)
        <4>1. PICK kind \in {"read", "write", "profile", "change", "logout"} :
                 task' = [task EXCEPT ![t] =
                             Request(kind, IF kind = "logout" THEN "logout" ELSE "api", page, csrf)]
          BY <3>2 DEF Call
        <4> DEFINE job == Request(kind, IF kind = "logout" THEN "logout" ELSE "api", page, csrf)
        <4>2. task' = [task EXCEPT ![t] = job] /\ job.at # "load"
          BY <4>1, Requested
        <4> HIDE DEF job
        <4> QED BY <2>1, <3>2, <4>2 DEF Call
      <3> QED BY <2>4, <3>1, <3>2
    <2>5. CASE Reload \/ SignIn
      BY <2>5 DEF Reload, SignIn, FreshDocument
    <2>6. CASE OtherTab \/ EndSession \/ Reset \/ Stop
      BY <2>6 DEF OtherTab, EndSession, Reset, Stop, vars, spa, Held
    <2> QED BY <2>3, <2>4, <2>5, <2>6 DEF Next
  <1> QED BY <1>1, TypeCorrect, PTL DEF Spec, GateHolds

-----------------------------------------------------------------------------
\* Nobody is signed out unwarned (IdleSession): while the expiry timer is set, the page is
\* of the console, idle, and shows the warning.  A step that leaves the console takes the
\* timer with it, and nothing but activity or the timer itself ends idleness or warning.
THEOREM SignedOutWarned == IdleSpec => []WarnedBeforeExpiry
  <1>1. IdleInit => WarnedBeforeExpiry
    BY DEF IdleInit, WarnedBeforeExpiry
  <1>2. WarnedBeforeExpiry /\ [IdleNext]_tabVars => WarnedBeforeExpiry'
    <2> SUFFICES ASSUME WarnedBeforeExpiry, [IdleNext]_tabVars PROVE WarnedBeforeExpiry'
      OBVIOUS
    <2>1. CASE UNCHANGED tabVars
      BY <2>1 DEF tabVars, vars, spa, idleVars, WarnedBeforeExpiry, OnConsole
    <2>2. CASE Next /\ Layout
      BY <2>2 DEF Layout, dismissWarning, idleVars, WarnedBeforeExpiry, OnConsole
    <2>3. CASE BecomesIdle
      BY <2>3 DEF BecomesIdle, spa, WarnedBeforeExpiry, OnConsole
    <2>4. CASE Activity \/ \E t \in Tasks : expireSession(t)
      BY <2>4 DEF Activity, expireSession, dismissWarning, WarnedBeforeExpiry
    <2> QED BY <2>1, <2>2, <2>3, <2>4 DEF IdleNext
  <1> QED BY <1>1, <1>2, PTL DEF IdleSpec
=============================================================================
