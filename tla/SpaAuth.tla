------------------------------ MODULE SpaAuth ------------------------------
(***************************************************************************)
(* Signed in or not, as one tab of the SPA sees it: the auth store         *)
(* (src/stores/authStore.ts), the router guard (src/router/router.ts), the *)
(* session client (src/services/session.ts), the 401 and password-change   *)
(* branches of the response interceptor (src/services/api.ts), the gate's  *)
(* flag (src/services/adminGuards.ts) and its watcher (src/App.vue).       *)
(*                                                                         *)
(* The script is single threaded, but a navigation waits in its guard for  *)
(* the answers of GET /bff/session and GET /api/admin/profile while other  *)
(* requests of the page are under way; a newer navigation supersedes it    *)
(* without stopping it.  Each such activity is a task: a guard, an API     *)
(* call or a sign-out.  A step is one callback run to its next await; what *)
(* the server makes of a request and the delivery of its answer are steps  *)
(* of their own.                                                           *)
(*                                                                         *)
(* The server side is reduced to which session the cookie names, the role  *)
(* of the admin it belongs to, and what the admin API says to its bearer.  *)
(***************************************************************************)
EXTENDS Naturals

CONSTANTS Tasks,       \* slots for activities under way
          Accounts,    \* states the admin's account may come to
          Roles,       \* roles the profile may carry
          Patient,     \* the admin starts no navigation while one is pending
          MaxSession,  \* bound: BFF sessions this browser gets
          MaxClicks    \* bound: actions of the admin

ASSUME AccountsAssumption == Accounts \subseteq {"ok", "gated"}
ASSUME RolesAssumption == Roles \subseteq {"app_admin", "super_admin"}
ASSUME TasksAssumption == "none" \notin Tasks   \* which stands for no pending navigation
ASSUME BoundsAssumption == MaxSession \in Nat \ {0} /\ MaxClicks \in Nat

VARIABLES
    session,   \* the live BFF session the browser's cookie names, 0 without one
    sessions,  \* BFF sessions this browser has got
    role,      \* of the admin whose session it is, or was the last
    account,   \* what the admin API makes of the session's bearer
    user,      \* authStore.user: the role, or "none"
    csrf,      \* csrfStore: the session the token belongs to, 0 without one
    gate,      \* passwordChangeRequired
    page,      \* router.currentRoute
    nav,       \* the task of the pending navigation, or "none"
    task,
    clicks,
    admins,    \* history: the roles of those signed in since the document was loaded
    crossed    \* history: user or token were forgotten in the middle of something that
               \* does not allow for it

server == <<session, sessions, role, account>>
spa == <<user, csrf, gate, page, nav, task>>
history == <<admins, crossed>>
vars == <<server, spa, clicks, history>>

RequiresAuth == {"Dashboard", "Users"}
RequiresSuperAdmin == {"Users"}
Guest == {"Login", "ChangePassword"}   \* meta.guest, inherited from /auth
Pages == RequiresAuth \cup Guest \cup {"Forbidden"}

Free == [kind |-> "free", at |-> "none", to |-> "Login", ans |-> "none", token |-> 0]
Request(kind, at, to, token) ==
    [kind |-> kind, at |-> at, to |-> to, ans |-> "none", token |-> token]

\* beforeEach asks the BFF first when no user is cached.
Guard(to, u) == Request("guard", IF u = "none" THEN "session" ELSE "decide", to, 0)

\* The callbacks of one turn run before any other event.
Idle == \A t \in Tasks : task[t].at # "decide"

\* router.push in place of task t.  A location equal to the current one is not
\* navigated to, but still supersedes the pending navigation; Login locations
\* that differ in their query are not equal.
Push(t, to, u) ==
    \E same \in IF page # to THEN {FALSE} ELSE IF to = "Login" THEN BOOLEAN ELSE {TRUE} :
        IF same
        THEN nav' = "none" /\ task' = [task EXCEPT ![t] = Free]
        ELSE nav' = t /\ task' = [task EXCEPT ![t] = Guard(to, u)]

End(t) == task' = [task EXCEPT ![t] = Free]

\* A document is loaded afresh at location to.  What the one before asked for is lost.
FreshDocument(to) ==
    /\ user' = "none" /\ csrf' = 0 /\ gate' = FALSE /\ page' = "none"
    /\ \E t \in Tasks :
          /\ nav' = t
          /\ task' = [x \in Tasks |-> IF x = t THEN Guard(to, "none") ELSE Free]
    /\ admins' = IF session' = 0 THEN {} ELSE {role'}
    /\ crossed' = FALSE

Init ==
    /\ session = 1 /\ sessions = 1
    /\ role \in Roles
    /\ account \in Accounts
    /\ user = "none" /\ csrf = 0 /\ gate = FALSE /\ page = "none"
    /\ \E t \in Tasks, to \in RequiresAuth :
          /\ nav = t
          /\ task = [x \in Tasks |-> IF x = t THEN Guard(to, "none") ELSE Free]
    /\ clicks = 0
    /\ admins = {role} /\ crossed = FALSE

-----------------------------------------------------------------------------
(* The server's side of a request *)

Unsafe == {"write", "profile", "change", "logout", "leave"}

\* The CSRF check of an unsafe request.
Mismatch(t) == task[t].kind \in Unsafe /\ task[t].token # session

Reply(t, ans) == task' = [task EXCEPT ![t].ans = ans]

\* The answer of a request the server has acted on may still be lost.
Answer(t, ans) == Reply(t, ans) \/ Reply(t, "lost")

Unanswered(t, ats) == task[t].at \in ats /\ task[t].ans = "none"

\* GET /bff/session
AnswerSession(t) ==
    /\ Unanswered(t, {"session"})
    /\ task' = [task EXCEPT ![t].ans = "200", ![t].token = session]
    /\ UNCHANGED <<server, user, csrf, gate, page, nav, clicks>>

\* /api/admin/* and /api/profile; the profile says the role of the admin who asks.
AnswerApi(t) ==
    /\ Unanswered(t, {"api"})
    /\ Answer(t, IF session = 0 THEN "401"
                 ELSE IF Mismatch(t) THEN "403"
                 ELSE IF account = "gated" /\ task[t].kind # "change" THEN "gate"
                 ELSE IF account = "revoked" THEN "401"
                 ELSE IF task[t].kind \in {"guard", "profile"} THEN role
                 ELSE "200")
    /\ account' = IF task[t].kind = "change" /\ session # 0 /\ ~Mismatch(t)
                  THEN "revoked" ELSE account   \* a new password revokes all tokens
    /\ UNCHANGED <<session, sessions, role, user, csrf, gate, page, nav, clicks>>

\* The current password given to change-password is wrong.
RefuseChange(t) ==
    /\ Unanswered(t, {"api"}) /\ task[t].kind = "change"
    /\ Reply(t, "401")
    /\ UNCHANGED <<server, user, csrf, gate, page, nav, clicks>>

\* POST /bff/logout
AnswerLogout(t) ==
    /\ Unanswered(t, {"logout"})
    /\ Answer(t, IF session # 0 /\ Mismatch(t) THEN "403" ELSE "200")
    /\ session' = IF Mismatch(t) THEN session ELSE 0
    /\ UNCHANGED <<sessions, role, account, user, csrf, gate, page, nav, clicks>>

\* The request is lost, or answered 5xx.
Fail(t) ==
    /\ Unanswered(t, {"session", "api", "logout"})
    /\ Reply(t, "lost")
    /\ UNCHANGED <<server, user, csrf, gate, page, nav, clicks>>

-----------------------------------------------------------------------------
(* The guard *)

Answered(t, kinds, at, ans) ==
    Idle /\ task[t].kind \in kinds /\ task[t].at = at /\ task[t].ans = ans

Decided(t) == task' = [task EXCEPT ![t].at = "decide", ![t].ans = "none"]

\* checkAuth's catch: the gate keeps what is known.
CheckFailed(t) ==
    /\ user' = IF gate THEN user ELSE "none"
    /\ Decided(t)
    /\ UNCHANGED <<server, csrf, gate, page, nav, clicks>>

\* Mutant of SessionKnown: the CSRF token is not kept.
SessionKnownOnly(t) ==
    /\ Answered(t, {"guard"}, "session", "200")
    /\ IF task[t].token = 0
       THEN user' = "none" /\ Decided(t)
       ELSE /\ task' = [task EXCEPT ![t] = Request("guard", "api", task[t].to, 0)]
            /\ UNCHANGED user
    /\ UNCHANGED <<server, csrf, gate, page, nav, clicks>>

\* fetchSession resolves.
SessionKnown(t) ==
    /\ Answered(t, {"guard"}, "session", "200")
    /\ csrf' = task[t].token
    /\ IF task[t].token = 0
       THEN user' = "none" /\ Decided(t)
       ELSE /\ task' = [task EXCEPT ![t] = Request("guard", "api", task[t].to, 0)]
            /\ UNCHANGED user
    /\ UNCHANGED <<server, gate, page, nav, clicks>>

SessionUnknown(t) == Answered(t, {"guard"}, "session", "lost") /\ CheckFailed(t)

\* _loadProfile resolves.
ProfileLoaded(t) ==
    /\ user' \in Roles /\ Answered(t, {"guard"}, "api", user')
    /\ Decided(t)
    /\ UNCHANGED <<server, csrf, gate, page, nav, clicks>>

ProfileFailed(t) == Answered(t, {"guard"}, "api", "lost") /\ CheckFailed(t)

\* Mutants of Target: the gate, and the role, are not looked at.
TargetUngated(to) ==
    IF to \in Guest /\ user # "none" THEN "Dashboard"
    ELSE IF to \in RequiresAuth /\ user = "none" THEN "Login"
    ELSE IF to \in RequiresSuperAdmin /\ user # "super_admin" THEN "Forbidden"
    ELSE to

TargetAnyRole(to) ==
    IF gate /\ to # "ChangePassword" THEN "ChangePassword"
    ELSE IF to \in Guest /\ user # "none" THEN "Dashboard"
    ELSE IF to \in RequiresAuth /\ user = "none" THEN "Login"
    ELSE to

\* Where the guard sends a navigation to location to.
Target(to) ==
    IF gate /\ to # "ChangePassword" THEN "ChangePassword"
    ELSE IF to \in Guest /\ user # "none" THEN "Dashboard"
    ELSE IF to \in RequiresAuth /\ user = "none" THEN "Login"
    ELSE IF to \in RequiresSuperAdmin /\ user # "super_admin" THEN "Forbidden"
    ELSE to

\* next(): go on with the navigation, or redirect it; nothing once superseded.
Decide(t) ==
    /\ task[t].at = "decide"
    /\ LET to == Target(task[t].to) IN
          \/ /\ nav # t
             /\ End(t) /\ UNCHANGED nav
          \/ /\ nav = t /\ to = task[t].to
             /\ task' = [task EXCEPT ![t].at = "load"] /\ UNCHANGED nav
          \/ /\ nav = t /\ to # task[t].to
             /\ Push(t, to, user)
    /\ UNCHANGED <<server, user, csrf, gate, page, clicks>>

\* The view's chunk has arrived and the navigation is finalised, unless superseded.
Loaded(t) ==
    /\ Idle /\ task[t].at = "load"
    /\ page' = IF nav = t THEN task[t].to ELSE page
    /\ nav' = IF nav = t THEN "none" ELSE nav
    /\ End(t)
    /\ UNCHANGED <<server, user, csrf, gate, clicks>>

-----------------------------------------------------------------------------
(* The interceptor, for calls of the views and for the guard's profile call *)

ApiKinds == {"guard", "read", "write", "profile"}

\* Mutant of Expired: only the CSRF token is dropped, the cached user stays.
ExpiredKeepsUser(t) ==
    /\ Answered(t, ApiKinds, "api", "401")
    /\ csrf' = 0
    /\ Push(t, "Login", user)
    /\ UNCHANGED <<server, user, gate, page, clicks>>

\* 401: forget session and user, and go to Login.
Expired(t) ==
    /\ Answered(t, ApiKinds, "api", "401")
    /\ csrf' = 0 /\ user' = "none"
    /\ Push(t, "Login", "none")
    /\ UNCHANGED <<server, gate, page, clicks>>

\* 403 password_change_required: raise the gate; its watcher goes to ChangePassword
\* when it was down.  A guard whose profile call raised it goes on.
Gated(t) ==
    /\ Answered(t, ApiKinds, "api", "gate")
    /\ gate' = TRUE
    /\ IF ~gate /\ page # "ChangePassword"
       THEN Push(t, "ChangePassword", user)
       ELSE /\ IF task[t].kind = "guard" THEN Decided(t) ELSE End(t)
            /\ UNCHANGED nav
    /\ UNCHANGED <<server, user, csrf, page, clicks>>

\* Anything else is the view's business.
CallSettled(t) ==
    /\ \/ \E ans \in {"200", "403", "lost"} : Answered(t, {"read", "write"}, "api", ans)
       \/ \E ans \in {"403", "lost"} : Answered(t, {"profile"}, "api", ans)
       \/ \E ans \in {"401", "403", "lost"} : Answered(t, {"change"}, "api", ans)
    /\ End(t)
    /\ UNCHANGED <<server, user, csrf, gate, page, nav, clicks>>

\* updateProfile resolves: the user it answers is cached, whoever is signed in by now.
ProfileSaved(t) ==
    /\ user' \in Roles /\ Answered(t, {"profile"}, "api", user')
    /\ End(t)
    /\ UNCHANGED <<server, csrf, gate, page, nav, clicks>>

\* onPasswordChanged, up to its call of bffLogout.
PasswordChanged(t) ==
    /\ Answered(t, {"change"}, "api", "200")
    /\ gate' = FALSE /\ user' = "none"
    /\ task' = [task EXCEPT ![t] = Request("leave", "logout", "Login", csrf)]
    /\ UNCHANGED <<server, csrf, page, nav, clicks>>

\* Mutant of SignedOut: an error skips the rest of logout.
SignedOutIfAnswered(t) ==
    /\ \E ans \in {"200", "403", "lost"} : Answered(t, {"logout", "leave"}, "logout", ans)
    /\ csrf' = 0
    /\ user' = IF task[t].kind = "logout" /\ task[t].ans = "200" THEN "none" ELSE user
    /\ Push(t, "Login", user')
    /\ UNCHANGED <<server, gate, page, clicks>>

\* bffLogout settles, either way: the rest of logout and of onPasswordChanged.
SignedOut(t) ==
    /\ \E ans \in {"200", "403", "lost"} : Answered(t, {"logout", "leave"}, "logout", ans)
    /\ csrf' = 0
    /\ user' = IF task[t].kind = "logout" THEN "none" ELSE user
    /\ Push(t, "Login", user')
    /\ UNCHANGED <<server, gate, page, clicks>>

-----------------------------------------------------------------------------
(* What the properties remember of a step *)

\* The page forgets the user, or the token.
Forgets == (user # "none" /\ user' = "none") \/ (csrf # 0 /\ csrf' = 0)

\* A profile may still come, and will be cached.
Refills(job) ==
    \/ job.kind = "profile" /\ job.token # 0
    \/ job.kind = "guard" /\ job.at = "api"

\* What is forgotten is brought back by a profile still to come, is forgotten for a
\* navigation that was given up, or is the token alone; or else the navigation that would
\* have led away from the console is given up for a link to the page on screen.
Crosses ==
    \/ /\ Forgets
       /\ \/ \E t \in Tasks : Refills(task'[t])
          \/ \E t \in Tasks : task'[t].at = "decide" /\ nav' # t
          \/ user' # "none"
    \/ /\ nav # "none" /\ nav' = "none"
       /\ user' = "none" /\ page' = page /\ page \in RequiresAuth

Remember == crossed' = (crossed \/ Crosses) /\ UNCHANGED admins

-----------------------------------------------------------------------------
(* The admin *)

\* A free slot, the page responsive, and the bound on the admin's actions.
Act(t) ==
    /\ Idle /\ page # "none"
    /\ task[t] = Free
    /\ clicks < MaxClicks /\ clicks' = clicks + 1

\* A link, router.push from a view, or the browser's back and forward buttons.
Navigate(t) ==
    /\ Act(t)
    /\ Patient => nav = "none"
    /\ \E to \in RequiresAuth \cup Guest : Push(t, to, user)
    /\ UNCHANGED <<server, user, csrf, gate, page>>
    /\ Remember

\* Requests of the page; "Dashboard" stands for the pages of every role, the profile's too.
Call(t) ==
    /\ Act(t)
    /\ \E kind \in {"read", "write", "profile", "change", "logout"} :
          /\ page \in CASE kind = "change"  -> {"ChangePassword"}
                        [] kind = "profile" -> {"Dashboard"}
                        [] OTHER            -> RequiresAuth
          /\ task' = [task EXCEPT ![t] =
                         Request(kind, IF kind = "logout" THEN "logout" ELSE "api", page, csrf)]
    /\ UNCHANGED <<server, user, csrf, gate, page, nav, history>>

Reload ==
    /\ Idle
    /\ clicks < MaxClicks /\ clicks' = clicks + 1
    /\ UNCHANGED server
    /\ \E to \in RequiresAuth \cup Guest : FreshDocument(to)

\* A new BFF session, with new tokens, of an admin who need not be the one before.
NewSession ==
    /\ sessions < MaxSession
    /\ sessions' = sessions + 1 /\ session' = sessions + 1
    /\ role' \in Roles /\ account' \in Accounts

\* startLogin from the Login page: away to the issuer and back.
SignIn ==
    /\ Idle /\ page = "Login"
    /\ clicks < MaxClicks /\ clicks' = clicks + 1
    /\ NewSession
    /\ FreshDocument("Dashboard")

\* Another tab of the browser signs in.
OtherTab ==
    /\ NewSession
    /\ admins' = admins \cup {role'}
    /\ UNCHANGED <<spa, clicks, crossed>>

\* The session ends: it expires, the BFF restarts, its refresh token is rejected, or
\* another tab signs out.
EndSession ==
    /\ session # 0
    /\ session' = 0
    /\ UNCHANGED <<sessions, role, account, spa, clicks, history>>

\* An operator resets the admin's password.
Reset ==
    /\ account = "ok" /\ "gated" \in Accounts
    /\ account' = "gated"
    /\ UNCHANGED <<session, sessions, role, spa, clicks, history>>

\* Nothing under way.
Rested == \A t \in Tasks : task[t] = Free

Step(t) ==
    /\ \/ AnswerSession(t) \/ AnswerApi(t) \/ AnswerLogout(t) \/ RefuseChange(t) \/ Fail(t)
       \/ SessionKnown(t) \/ SessionUnknown(t) \/ ProfileLoaded(t) \/ ProfileFailed(t)
       \/ Decide(t) \/ Loaded(t)
       \/ Expired(t) \/ Gated(t) \/ CallSettled(t) \/ ProfileSaved(t)
       \/ PasswordChanged(t) \/ SignedOut(t)
    /\ Remember

\* The bound on the admin's actions is reached and everything has settled.
Stop == Rested /\ clicks = MaxClicks /\ UNCHANGED vars

Next ==
    \/ \E t \in Tasks : Step(t) \/ Navigate(t) \/ Call(t)
    \/ Reload \/ SignIn \/ OtherTab \/ EndSession \/ Reset
    \/ Stop

Spec == Init /\ [][Next]_vars

\* Requests are answered or fail, and their callbacks run.  (A call to the API is given up
\* after 30 s; the client for /bff sets no timeout, and its requests end when the BFF's own
\* do, which are given 10 s, or with the connection.)
FairSpec == Spec /\ \A t \in Tasks : WF_vars(Step(t))

-----------------------------------------------------------------------------
(* Properties *)

TypeOK ==
    /\ session \in 0 .. MaxSession /\ sessions \in 1 .. MaxSession /\ role \in Roles
    /\ account \in {"ok", "gated", "revoked"}
    /\ user \in Roles \cup {"none"} /\ csrf \in 0 .. MaxSession /\ gate \in BOOLEAN
    /\ page \in Pages \cup {"none"} /\ nav \in Tasks \cup {"none"}
    /\ task \in [Tasks -> [kind : ApiKinds \cup Unsafe \cup {"free"},
                           at : {"none", "session", "api", "logout", "decide", "load"},
                           to : Pages,
                           ans : {"none", "200", "401", "403", "gate", "lost"} \cup Roles,
                           token : 0 .. MaxSession]]
    /\ clicks \in 0 .. MaxClicks
    /\ admins \subseteq Roles /\ crossed \in BOOLEAN

\* At rest the console is on screen only for a user whose CSRF token is there too: no 401,
\* sign-out, failed check or password change leaves a page whose writes are all refused, or
\* that nobody is signed in to, whatever else the tab has under way meanwhile, but for the
\* crossings that the code does not allow for.
ConsoleConsistent ==
    Rested /\ ~crossed /\ page \in RequiresAuth => user # "none" /\ csrf # 0

\* A superadmin page is on screen only if a superadmin has been signed in since the document
\* was loaded: nobody gets there on a role cached before, or by a sign-in of others, whatever
\* answers are late.  (When the admin changes in another tab the page stays: the guard goes by
\* the role it has cached.)
SuperAdminOnly ==
    page \in RequiresSuperAdmin => "super_admin" \in admins

\* The change form is on screen, the gate is up, and no navigation elsewhere had passed the
\* guard before it was.
Held ==
    /\ gate /\ page = "ChangePassword"
    /\ ~(nav # "none" /\ task[nav].at = "load" /\ task[nav].to # "ChangePassword")

\* The change form holds the admin while the gate is up: no link, back button, late answer,
\* profile that loads after all or expired session leads away from it, only the password's
\* change (which lowers the gate) or a fresh document.
GateHolds ==
    [][ Held /\ gate' => Held' \/ page' = "none" ]_vars

\* "a restart or redeploy signs every admin out; the SPA's 401 handling sends them
\* back to the sign-in page" (bff/README.md): the tab does not loop back with the user
\* it had cached (P3-22), nor stay where it is, unless the document is loaded anew.  (For
\* an account that is not gated: a raised gate turns the navigation to Login away.)
ExpiryReachesLogin ==
    (\E t \in Tasks : session = 0 /\ task[t].kind \in ApiKinds /\ task[t].ans = "401")
        ~> (page \in {"Login", "none"} \/ session # 0)

\* A sign-out that ended the session takes the admin off the console, even when its
\* answer is lost.
SignOutLeavesConsole ==
    (\E t \in Tasks : session = 0 /\ task[t].kind = "logout" /\ task[t].ans # "none")
        ~> (page \notin RequiresAuth \/ session # 0)

\* "when an XHR (no navigation) hits 403 password_change_required, route to the
\* forced change-password page" (App.vue), while the session lasts.
GateReachesForm ==
    gate /\ session # 0 ~> (page = "ChangePassword" \/ ~gate \/ session = 0)
=============================================================================
