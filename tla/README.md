# A verification project for oauth2-admin

oauth2-admin is the administration console of an OAuth2 server (the *issuer*, called Socrate
in the repository). It has two programs: a Vue SPA (`src/`) and a backend-for-frontend in Go
(`bff/`) that serves the SPA, keeps the tokens in a server-side session and proxies the admin
API. This directory holds TLA+ models of the parts where order, time and failure decide whether
they are correct, the TLC runs that check them, and proofs for the TLA+ proof system (TLAPS).

Run everything from this directory:

    tlc -workers 2 -config MCBffEdge.cfg MCBffEdge          # one line per .cfg
    tlapm BffEdgeProofs.tla                                 # one line per *Proofs module

`PROJECT.json` lists the components, the runs, which definition models which lines, and, for
each property, a mutant of the model (a plausible bug) that breaks it.

## 1. Inventory of the system

| Part | State | Operations | Talks to | What is hard |
| --- | --- | --- | --- | --- |
| **BFF rate limiter** `bff/ratelimit.go` | table ip -> (count, reset time) under a mutex | `allow`, `sweep`, `rateLimited` | one limiter for each limited route; `clientIP` names the key | rollover of a window, the sweep beside requests, truncated `Retry-After` |
| **BFF edge** `bff/attribution.go`, `cspreport.go`, `app.go` | nothing but the limiters | `clientIP`, `withClientAttribution`, `attributedProxy`; `handleLogin`, `handleElevate`, `handleCSPReport`, `handlePublicIssuerPost` up to their limit | Caddy in front, issuer behind, the log | headers a client may write, reports that need no session |
| **BFF sign-in** `bff/app.go` | bounded store of pending logins, binding cookie and session cookie per browser, session store | `handleLogin`, `handleCallback` | issuer's authorize and token endpoints | answers out of order, copied callback links, expiry, full store, restart |
| **BFF session and tokens** `bff/app.go`, `elevate.go`, `oauth.go` | session (access, refresh, expiry, lifetimes) in the memory store | `handleSession`, `handleElevate`, `handleLogout`, the proxy, `Sweep` | issuer (refresh, revoke), admin API (elevate) | requests of one session in goroutines that share the session object, coalesced refresh with rotation, sign-out in between, lost answers |
| **SPA step-up** `services/adminGuards.ts`, `services/api.ts`, `ElevationDialog.vue` | prompt visible/loading/error, list of waiting calls | 403 branch, `requireElevation`, `submitElevation`, `cancelElevation` | `POST /bff/elevate` | several calls share a prompt; dismissal while a step-up is in flight; replay |
| **SPA auth and routing** `stores/authStore.ts`, `router/router.ts`, `services/session.ts`, `App.vue` | cached user, CSRF token, password-change gate, current route, pending navigation | guard, `checkAuth`, `logout`, 401/403 handling, `onPasswordChanged` | `/bff/session`, `/bff/logout`, profile | navigation guards that await answers while other calls fail; superseded navigations |
| **Policy editor** `composables/usePolicyEditor.ts`, `PolicyView.vue` | loaded version, draft, validation and write feedback | load, edit, validate, save, restore, reload | versioned policy at the admin API | edit during a request, conflict, half-done save |
| **Application detail** `ApplicationDetailView.vue` | one copy of the application, two forms over it | load, save details, save token settings, toggle | admin API | overlapping writes that merge into one copy, another admin |
| **User detail** `UserDetailView.vue`, `UserAttributesCard.vue` | one copy of the user, rows that follow it | load, save attributes, block and reload | admin API | a whole set replaced by rows that may be old |
| **Settings rows** `utils/tokenSettings.ts`, `TokenSettingsFields.vue` | rows of a form | edit, check, turn into a set | the two pages above | names that become equal, values with two stored forms |
| **MFA card** `MfaCard.vue`, `mfaService.ts` | status, enrolment, recovery codes | enrol, confirm, new codes, turn off | issuer | sequences of calls of which each may fail; codes shown once |
| **Reports** `ReportsView.vue` | list of reports, pollers | generate, poll, unmount | admin API | polls that overlap or outlive the page |
| **Live events** `SecurityDashboardView.vue`, `monitoringService.ts` | handle of one stream | start, stop, leave | admin API (SSE) | late failures of a stopped stream, a stream that just ends |
| **Idle timeout** `useSessionTimeout.ts`, `AdminLayout.vue` | warning, timers | idle watcher, expiry, dismissal | `authStore.logout` | timer against activity, navigation and expiry |
| **List views** `views/**` (seventeen pages) | rows, filters and page, loading and submitting flags | load, filter, refresh, open a tab, timers, write and load again | admin API | loads of one list that overlap, fail, and are answered out of order |
| **Pure helpers** `utils/*`, `deriveUser`, `canonicalPathOnly` | none | functions | - | boundary cases |
| **Configuration, headers, presentation, build, deployment** | almost none | - | - | little beyond input handling |

The parts meet in these places. A browser tab calls the BFF with its session cookie; the BFF
looks the session up, refreshes its token at the issuer when needed, and forwards to the admin
API. `401` from either makes the SPA drop what it cached and route to Login. `403
elevation_required` opens the step-up prompt, whose `POST /bff/elevate` puts an elevated token
into the BFF session, and the call is replayed. `403 password_change_required` raises the gate.
A rate limiter of its own stands in front of each of login, elevate, CSP reports and the public password
reset; callback, session, logout and the proxy have none. The router shows one page at a time; the layout around the pages runs the idle
timeout, which signs out like the button does.

What makes each part correct:

- *limiter*: nobody exceeds twice the budget in a window's length, nobody is refused who has
  not used the budget, a closed window costs no memory, `Retry-After` is usable;
- *sign-in*: a browser is signed in only by a login it began, a code is sent once, the store is
  bounded, and what nothing interfered with succeeds;
- *session*: what was signed out never comes back, only a dead grant ends a session, step-up
  and refresh do not cost it its renewability, sign-out revokes its tokens, all requests are
  answered, and the absolute lifetime ends it;
- *step-up*: no call waits for a prompt that is not there, none is performed twice, the prompt
  is never locked for good;
- *edge*: budgets follow the client a request comes from and nothing it writes; the reports of a
  client add a bounded number of log lines;
- *auth*: the console shows only to a user whose session the tab knows, a role page only once somebody of
  that role has signed in, an expired session leads to Login, a sign-out leaves the console;
- *idle timeout*: nobody is signed out unwarned, and an idle page is left;
- *editors* (policy, application, user, rows): what is stored replaces only what the admin has
  seen, what is sent is what was edited, and page and server agree when nothing crossed;
- *lists, reports, live events, MFA*: what a page says (loading, fresh, live, finished, on) is so.

The hazards behind these, each with its line, are in `PROJECT.json` ("hazards").

## 2. Modules

| Module | Models | Kind |
| --- | --- | --- |
| `FixedWindow` | the limiter's promise: a budget per window, no table, no sweep | abstract specification |
| `RateLimit` | the limiter as coded | implements `FixedWindow` |
| `BffEdge` | attribution, and the four limited routes over the limiter | extends `RateLimit`, and implements it |
| `BffLogin` | sign-in over the BFF, browser and issuer | component composed with its environment |
| `SessionGrant` | the session's promise: one refresh token, renewed at once and only forwards, until it is lost or signed out | abstract specification |
| `BffSession` | one session and its concurrent requests | component with store, gateway and issuer; implements `SessionGrant` |
| `Elevation` | the step-up prompt and the calls that share it | component |
| `SpaAuth` | auth store, guard, interceptor, gate of one tab | component with the BFF reduced to its answers |
| `IdleSession` | the idle timeout of the layout | extends `SpaAuth` |
| `PolicyEditor` | the policy editor over a versioned policy that others write too | component with its server |
| `ListViews` | the loads and writes of the list pages | one engine, a table of panels |
| `ApplicationDetail` | the copy of one application and the writes that merge into it | component with its server |
| `UserDetail` | the copy of one user and the attributes card | component with its server |
| `SettingsRows` | claim mappings and attributes as rows | component, mostly functions |
| `MfaCard` | enrolment, recovery codes, turning MFA off | component with the issuer |
| `Reports` | generation and polling of reports | component with its server |
| `EventStream` | starting, stopping and ending live events | component |
| `Console` | the six modules above as the pages of one console | composition |
| `BffEdgeProofs`, `BffLoginProofs`, `BffSessionProofs`, `ElevationProofs`, `SpaAuthProofs`, `PolicyEditorProofs`, `ListViewsProofs`, `ConsoleProofs` | theorems about the module they are named for (`BffEdgeProofs`: about `RateLimit` first; `SpaAuthProofs`: about `IdleSession` too; `ConsoleProofs`: about the six pages) | TLAPS |
| `MC*` | constants and symmetry for TLC | |

### RateLimit

`counts` is the table (`DOMAIN counts` are the keys present), `now` the clock in units finer
than a second, `reply` the last answer. `allow` has the four ways through the code: disabled,
new window, within budget, rejected; `sweep` is the ticker's. Each is one step because the code
holds the mutex throughout. `admitted` is a history of admissions with the window each was
charged to; only properties read it. The refinement maps a window that has rolled over but is
still in the table to "no window", so the sweep is a stuttering step.

### BffEdge

A request is an *arrival*: where it comes from (`origin`, which no code sees), the peer of its connection
and the left-most entry of `X-Forwarded-For`. Caddy connects over loopback and replaces the header by
the address it saw; a browser that reaches the BFF beside Caddy writes what it likes. `clientIP`
attributes the request, and everything after it (the limiter's key, the log, the header the issuer
reads) uses that address. `route` is the limited route that is followed (login, elevate, CSP reports or the
password reset), chosen by `Init`, since each has a limiter of its own. Of login and elevate only the
limit and what the issuer, or the admin API, is told of the client is here; the rest is `BffLogin` and `BffSession`. `granted` (admissions by origin) and `lines` (log lines since
the origin's window was opened) are histories. A step of `BffEdge` is a step of `RateLimit` or leaves it alone, so
what is proved of `RateLimit` holds of every route's limiter.

### BffLogin

A login `a` stands for everything drawn at random for it: state, verifier, nonce, later code
and session id. `handleLogin` either stores it (`LoginStarted`) or is refused
(`LoginRefused`); both answers carry the binding cookie because `login.Begin(w)` runs before
`logins.Put`. Responses travel in the set `responses` and arrive in any order (`Receive`). The
issuer answers with a code, an error, or a redirect with neither. `handleCallback` may be called
by any browser with any login's state at any time after that (reload, back button, copied
link), and takes its branches in the code's order: error parameter, `Take`, cookie, code,
exchange. `Tick`, `Sweep` and `Restart` are the environment. `disturbed` records what happened
to a login, so that `UndisturbedLoginAccepted` can say what an *undisturbed* login is entitled to.

### BffSession

`sess` is the one session object to which every handler keeps a pointer after `Get`; `stored`
says whether the store still has it, `tombstone` whether its id was deleted (backendkit's Put
refuses such an id, which `bff/go.mod`'s version and the tests rely on). A request is a slot in
`req` with its place in the handler: `ensure` (before `EnsureFresh`), `refreshing` / `rotated` /
`rejected` (the token call), `joined` (waits for another's refresh), `fatal` (has heard that the
refresh was rejected), `ready`, `elevated`, and five places of logout: the two tokens are read one after
the other, each under a lock of its own, and revoked one after the other. A rejected refresh is heard by
all requests that share it, and each of them deletes the session and answers on its own. Tokens are numbers in the order of issue; `liveA`, `liveR` are those the
issuer accepts. A refresh is three steps (sent, rotated at the issuer, applied), so that
everything can happen in between.
`SessionGrant`, the abstract specification, has neither requests nor answers on their way: `grant`
is the live token among `sess.refresh` and one that was rotated and has not arrived, `phase` is open,
closed or forgotten, by `ended` and `tombstone`.

### Elevation

`at[c]` is where a call is, `waiters` the promises `requireElevation` keeps, `submit` the step-ups
in flight. Two slots of `Submits` matter: a dialog hidden by its own close path (`onVisibility`,
which does not look at `loading`) leaves a request in flight while a new prompt may open. (The dialog
is not closable and its *Cancel* is disabled while it loads, so this path is hardly reachable; the model may
take it at any time.)

### SpaAuth

A *task* is one activity of the tab: a guard, an API call, a sign-out. Its `at` names what it waits
for. Its kinds of calls differ in what their answers do: a profile save caches the user it is answered, a
password change signs out. `nav` is vue-router's pending navigation: a guard that has been superseded runs on but its
`next()` has no effect. The server is `session` (the session the cookie names, 0 if none), `role` (of the
admin it belongs to, who may change with every sign-in, in this tab or in another) and `account` (ok, gated by an
operator's reset, tokens revoked); a profile is answered with the role of whoever is signed in then, and the
cached `user` may lag behind. `admins` (the roles signed in since the document was loaded) and `crossed` are
histories; `crossed` is explained in section 3.

### IdleSession

`idle` is `useIdle`'s ref, `showWarning` the warning, `expireTimer` the timeout of two minutes with its
countdown. The watch (`BecomesIdle`), `Activity` and the timer's `expireSession` are steps between any
two callbacks of `SpaAuth`; the sign-out the timer starts is a task like the button's. Every step of
`SpaAuth` is taken together with `Layout`: when the step leaves the console the layout is unmounted and
the timers go with it. How long thirteen and two minutes are is left open.

### PolicyEditor

A request is a slot of `req` with what it asks for (`op`) and its answer; it is sent in one step,
served by the admin API in another, and applied in a third, so an answer may be old when it arrives.
`load` asks for the policy, the catalogue and the history in three GETs of their own, as `Promise.all` does. A request
or its answer may be lost at any time; the server may have stored the version all the same. `draft` is
the version the text was copied from (`basis`, advanced only by *Reload latest* after a conflict) and
what the server would say of the text. The textarea, *Cancel*, *Refresh*, *Restore* and *Validate* stay
usable while requests are in flight, as in `PolicyView.vue`; only *Save* looks at `saving` and only
*Refresh* at `loading`. `OtherSaves` is another admin. `shown` is a history that only properties read.

### ListViews

The list pages differ in data and not in control: each loads rows, filters them, writes, and loads
again. So each is a record of a table (`SessionsView`, `AlertRules`, `UserLists`, ...) that says which loads it
starts on mount, by tab, timer, filter or button, which buttons are locked meanwhile, what a failed load
does to the rows, and what each write loads again; the actions are written once. A page whose lists never
meet in one load or write has a record for each of them (a *panel*), because what they do is
independent: 26 panels of 17 pages. A load may go on with another before its progress ends (`then`: the
settings page tests the connections once the configuration has come). Its writes are grouped by the part of the template (a table, a
dialog, a form) whose buttons start them. Three pages that are a form and nothing else
(`CreateApplicationView`, `ForgotPasswordView`, `ResetPasswordView`) are the same record, as their control is.
`Init` picks a panel, with its mount loads in flight. `calls` are the requests (`load` is the set of sources fetched
together, empty for a write), `shown` says which filters and which state of the server the rows of a
source answer, `spinning` and `busy` are the loading and submitting flags. Filters have two values and the
server's state is the number of writes performed. A list whose rows were loaded once is taken to be
non-empty, which matters only to *open a tab*. `told`, `asked`, `mixed` and `failed` are histories that
only properties read.

### ApplicationDetail

`app` is the page's copy, `form` both forms, `call` one request of each kind (each button is locked by its own
flag). What an answer does to the copy differs from write to write and is why the module exists: a load
replaces copy and forms, a save of the token settings merges the answer into the copy and resets the token form
from it, a
save of the details takes the URL from the form as it *now* is and the magic link from the answer, and
the toggle does not look at its answer and flips the copy. Fields have two values; The server leaves `Omitted` settings
out of an answer when they are not set, so a token setting that was cleared stays on screen after the merge.
`Rivals` are the fields another admin writes, `Edits` those this one does. `apart` is the history of the fields that an overlap, a failure,
another admin, an edit during a save, or the clearing of a token setting may have set apart; `PageAgrees` is about the others.

### UserDetail

`user` is the page's copy and `rows` the attributes card's, which a watcher refills whenever the copy is
replaced: by the load, the answer to a save, or the reload that follows a block. A save replaces the whole
set at the server. Sets of attributes are numbers; what rows do to a set is `SettingsRows`.

### SettingsRows

`stored` is a set keyed by name, `fields` the rows of the form. Names are the few that behave
differently (blank, two that trim to one, one every JavaScript object inherits, one that is too long), and a value is
blank, good or bad; a claim may be stored as a string, without a target or with one. `errors`, `ToSet` and
`sameMappings` are the functions of `tokenSettings.ts` that check, convert and compare.

### MfaCard

`op` is the operation under way as the calls it still has to make; each is performed at the issuer
(`ServeMfa`), then answered, or fails, which drops the rest. `Screen` is the first branch of the
template that applies. `handed` and `unsure` are histories.

### Reports, EventStream

`listed` is what the page shows of each report, `remote` what the server has, `pollers` the intervals, `polls`
the requests they have in flight; a slot of `stream` is one run of the loop that reads events, which goes on after the
dashboard has dropped its handle. Both pages can be left at any time, and opened again.

### Console

The router shows one page, and requests of a page that was left change nothing another page
shows. So `Console` chooses a page (`open`) and takes its steps; the others stay closed. Its state
space is the sum of the pages' and not their product, and one run covers them. A page that is
opened a second time starts as the first time, but for what it left behind: `Reports` and `EventStream`,
which have timers and streams to leave behind, have steps for that.

## 3. Runs

| Run | Bounds | Shows |
| --- | --- | --- |
| `bff_edge` | each limited route, a client and this host, budget 2 (or disabled), window of 2 half-seconds, time 0..4, one line a report | budgets and log lines by origin, earned rejections, `Retry-After`, refinement of `FixedWindow`, idle clients forgotten |
| `bff_login` | 2 browsers, 3 logins, store of 2, lifetime 2 ticks | the sign-in safety properties |
| `bff_session` | 2 concurrent requests, 3 tokens, idle 1, absolute 2 | the session properties, refinement of `SessionGrant`, liveness |
| `bff_session_revoke` | the same | **violation**: a token granted to a step-up that a sign-out overlaps survives it |
| `elevation` | 3 calls, 2 step-ups in flight, account with MFA | the prompt's properties and liveness |
| `spa_auth` | 2 tasks at a time, 2 sessions of admins of either role, gate, 3 actions of the admin | console, role and gate |
| `spa_idle` | 2 tasks at a time, 1 session, 4 actions, patient admin | warned before expiry; idle, expired and signed-out pages are left |
| `spa_auth_gate` | 1 task, 1 session, 3 actions | **violation**: the gate's push does not reach the change form |
| `policy_editor` | 2 requests at a time, versions 0..3 | nothing unseen is overwritten, drafts are kept |
| `policy_refresh` | 1 request at a time, versions 0..3 | **violation**: a refresh while editing turns off the conflict check |
| `list_views` | every panel, 3 requests in flight, 1 write performed | no spinner or locked button is left behind, undisturbed rows are fresh |
| `console` | per page: 2 token settings and the magic link, 2 requests in flight; 2 rows, 1 attribute; 2 reports, 2 polls; 2 streams | what each page shows and sends is true |

Why the bounds are enough. *BffEdge*: the time bound covers two whole windows and the start of
a third, so every way two windows can meet is there, and half-second units make the truncation
of `Retry-After` visible; a client can use the budget up, be refused, and come back in the next window, by
every way a request can come; the proofs cover everything else. *BffLogin*: three logins are the
fewest with which the store of two is full while the third is refused, and two browsers the
fewest for a copied link; a lifetime of 2 ticks separates fresh, ageing and expired. *BffSession*:
with two requests of any kind each pair of handlers is interleaved at every step; three tokens
allow two issues (refresh, refresh; refresh, step-up). *Elevation*: three calls give a waiter
from before, during and after a step-up. *SpaAuth*: two sessions let the session
change owner while answers of the first are on their way, two tasks are a late answer and what it crosses, three
actions a call, a sign-out or password change and a navigation; more of each is left to the proofs, which hold for any number.
*IdleSession*: two tasks are the sign-out of the timer and one activity that crosses it (a navigation, a
call that is answered 401, the sign-out button); four actions suffice to become idle twice.
*PolicyEditor*: two
requests let a load, a save, a restore and a reload overlap in pairs, and three versions are the fewest
for one to be loaded, one to be saved by somebody else, and one to be stored on top.
*ListViews*: three requests hold a write and the two loads that `createSuperadmin` starts, or three loads of one
source of which any may be answered last; more writes add states in which the same happens again.
*Console*: of the token settings one is edited and one written by another admin, which is how they can be
set apart; two requests of different kinds overlap in every order; two rows are a row and one that takes its
name; two polls of one report are the fewest that can be answered in the wrong order, two streams a
stopped one and its successor. Every history that excuses a property (`apart`, `foreign`, `unsure`, `crossed`, ...)
is empty in reachable states where the page has been loaded, edited and saved more than once.

`ConsoleConsistent` leaves out, by the history `crossed`, four ways in which the code forgets the user or the token without
leaving the console. TLC finds a violation when any one of them is taken out of `Crosses`:

1. a profile is still to come when the user is forgotten (a navigation's call, or a profile save, that was answered
   before a sign-out, a 401 or a password change and is delivered after it): it caches the user again, without a token;
2. a navigation that was superseded fails its session check and forgets the user after another navigation to the same page
   has passed the guard, so that nothing leads to Login;
3. the sign-out after a password change drops the token, but not the user, when a navigation has loaded a profile meanwhile;
4. the admin follows a link to the page on screen while the navigation to Login is pending, which vue-router then drops.

Each lasts until the next call of the page, which is answered 401 or 403.

`FreshWhenQuiet` leaves out, on purpose, a source of which two loads were in flight at once: no view compares an
answer with the filters it has now, so the older of two overlapping loads, applied last, stays until
the next load. That is what the code does and nothing in the repository says otherwise; without that clause TLC
shows it within a few steps.

The three violations are listed as findings in `PROJECT.json` with the lines they contradict.

Where a theorem says the same for every value of the constants, the run does not repeat it: the type
invariants, `StoreBounded`, `LockedOnlyInFlight`, `SavingWhileWriting`, `RejectionsAreEarned`,
`IssuerToldOrigin` and `LockedWritesOnce` are proved and are not among the runs' properties.

### What the code does besides

Behaviour that the models show and that no line of the repository contradicts, so that it is not a
finding, but that a maintainer may want to know:

- a sign-in refused with 503 has already replaced the binding cookie, so the browser's earlier sign-in
  cannot finish (`UndisturbedLoginAccepted` counts it as a disturbance);
- with the gate raised and the session gone, the way to Login is redirected to the change form, which
  can only fail until the page is reloaded;
- the four crossings above; the fourth, a click on a link to the current page, drops a pending navigation to
  Login (`Patient` leaves it out of the runs, not of the proofs);
- when another admin signs in in another tab, a page stays on screen, and the guard goes on with the role it has
  cached, until a document is loaded or the user is forgotten: `SuperAdminOnly` says that a superadmin page is reached
  only if a superadmin has been signed in since the document was loaded. A guard's session check and profile call may be
  answered under different sessions, too, so that a profile is cached beside the token of another session;
- a token lifetime that is cleared and saved is shown again as it was: the answer leaves it out, and the page merges
  the answer into its copy (`ApplicationDetailView.vue:986`); the server has it cleared;
- an idle sign-out whose request is lost returns to the console: the guard finds the session alive;
- an activation toggle that overlaps a save of the token settings may show the opposite of what is stored;
  an emptied URL is left out of the request and shown as emptied; a magic link that differs from
  the page's copy is sent though nobody edited it;
- a user is blocked and the reload fails: the page reports the block as failed; the reload after a block drops
  attribute rows that were not saved;
- a status that cannot be loaded hides recovery codes that are on display, without a way to try again, and a
  failure after the confirmation says the code was not accepted although MFA is on;
- an older poll answered last shows a finished report as unfinished for good, and a generation
  answered after the page was left starts a poller that only the report's end stops;
- a stream that the server ends is shown as live;
- a claim or an attribute named like a property every object inherits (`toString`) is refused as a
  second one of its name, and blocks the save;
- `ProfileView` shows a saved profile although `updateProfile` returned false, `SettingsView` keeps its load error after a
  later load succeeds, and `ForgotPasswordView` shows success when the request failed (on purpose: it does not tell
  which addresses have accounts).

## 4. Fairness

- `BffEdge` (`EdgeFairSpec`): weak fairness of the clock and of the sweep: `startBackground`'s ticker runs as
  long as the process. None of the requests.
- `BffSession`: weak fairness of each request's next step (the HTTP client times out after 10 s,
  so a call to the issuer always ends) and of clock and sweep.
- `Elevation`: weak fairness of requests and their callbacks and strong fairness of *Cancel*: an admin who keeps seeing an unlocked prompt will some day answer or
  dismiss it. Without it an admin could fail the password for ever, which is no fault of the code. The
  30 s after which a request is given up are those of the API client (`api.ts`); the client for `/bff`
  (`session.ts`), which sends the step-up, the session check and the sign-out, sets no timeout. What ends its requests is
  the BFF: its own calls to the issuer and the admin API are given 10 s (`oauth.go:47`); or the connection. A BFF that
  accepts a connection and never answers is outside of what is assumed.
- `SpaAuth`: weak fairness of each task's next step (its requests end as said above), none of the admin. `Patient` restricts the
  admin to one navigation at a time. Without it vue-router drops the pending navigation to Login when
  a link to the current page is clicked, and a determined clicker can stay; that is a hazard on the
  list, not a property.
- `IdleSession` (`IdleFairSpec`): the same, taken together with the layout, and weak fairness of the expiry timer: a timer that is set and not cleared fires. None of
  the admin's activity, nor of becoming idle.

Safety runs (`bff_login`, `spa_auth`, `policy_editor`, `list_views`, `console`) use `Spec` without fairness. No run turns deadlock checking
off: `Elevation` and `SpaAuth` have an explicit step for "everything is settled".

## 5. Proofs

Every safety property that a passing run checks is also proved, for every value of the constants that the named
assumptions allow. The invariants below that the proofs add (`IInv` and its parts) were checked by TLC on the
instance of the run before they were proved.

### The limiter and the edge

`BffEdgeProofs` proves of `RateLimit`, for every set of clients, every limit, window length, clock unit and
time bound (assumptions: `LimitsAssumption`, `WindowAssumption`, `UnitsAssumption`,
`MaxTimeAssumption`, all of them only that the numbers are naturals and the window and the unit
positive):

- `TypeCorrect`: `Spec => []TypeOK`;
- `Inductive`: `Spec => []IInv`;
- `AtMostTwiceTheBudget`: `Spec => []SlidingBudget`;
- `NoUnearnedRejection`: `Spec => RejectionsAreEarned`;
- `RetryAfterRight`: `Spec => []RetryAfterTracksRollover`;
- `FixedWindowImplemented`: `Spec => ImplementsFixedWindow`, the refinement.

`SlidingBudget` compares admissions that lie in up to three windows while the limiter remembers
at most one, so it is not inductive. `IInv` adds `WindowInv`: for a client in the table, its `n`
latest admissions are charged to the table's window and all earlier ones to windows that had closed
when it opened (`TableInv`); for a client that the sweep has dropped, all its windows have closed
(`AbsentInv`); and admissions `limit` apart are in different windows (`HistoryInv`). Preservation
has one step per action; the sweep's is the interesting one, since it must show that what it forgets
did not matter. From `HistoryInv` used twice, admissions `2 * limit` apart have a whole window
between theirs. `RetryAfterRight` is arithmetic about truncation (`WholeSeconds`), for every clock unit. The refinement
needs only the types: every step of the limiter maps to one of the promise or, as the sweep's, to none.

The same module proves of `BffEdge`, for any clients, budgets, caps and kinds of reports (`EdgeAssumption`: this host is a client, what is
no address is none, the cap and the numbers of violations are naturals), every safety property the run `bff_edge` checks:

- `OriginFound`: of every arrival `clientIP` is the origin. All that follows rests on it;
- `EdgeRefinesLimiter`: `EdgeSpec => Spec`, so the theorems about `RateLimit` hold of the edge;
- `EdgeInductive` and `EdgeTypeCorrect`, from which
- `OriginBudget` (`BudgetFollowsOrigin`), `NoForeignRejection` (`RejectedForOwnRequests`), `LogStaysBounded`
  (`LogBounded`) and `IssuerHearsOrigin` (`IssuerToldOrigin`).

`EdgeInv` says that what was granted to an origin is what the limiter admitted for its address (`GrantedInv`), which
carries the limiter's invariant over to origins, and that its lines are covered by the count of its open
window (`LinesInv`): a count of `n` has logged at most `n` times the cap.

### The policy editor

`PolicyEditorProofs` proves, for any number of requests in flight (`Slots`) and any number of versions
(`BoundsAssumption`: `MaxVersion` is a positive natural), every property the run `policy_editor` checks:

- `Inductive`: `Spec => []IInv`, and from it
- `TypeCorrect`: `Spec => []TypeOK`;
- `ButtonUnlocked`: `Spec => []SavingWhileWriting`;
- `NothingUnseenOverwritten`: `Spec => OverwritesOnlyShown`;
- `DraftNotLost`: `Spec => DraftKept`.

`OverwritesOnlyShown` speaks of the step in which the server stores a version, long after the write was
sent; what connects the two is `BasesShown`: the version on display, and the base of every write in
flight, have been shown. Three lemmas (`Sending`, `Ending`, `Answering`, and `Serving` for the server)
say what a step does to the slots, so that the proof of each action only looks at its own slot.
`SavingWhileWriting` is inductive together with the types.

### Authentication and routing

`SpaAuthProofs` proves, for any number of activities of the tab at once, any accounts, roles, sessions and actions, patient
or not (`AccountsAssumption`, `RolesAssumption`, `BoundsAssumption`; `TasksAssumption`: "none", which stands for no
pending navigation, is no activity): `TypeCorrect` (`Spec => []TypeOK`), the three safety properties of the run `spa_auth`,
`ConsoleStaysConsistent` (`ConsoleConsistent`), `OnlySuperAdmins` (`SuperAdminOnly`) and `GateKeepsHolding` (`GateHolds`), and,
of the idle timeout on top, `SignedOutWarned` (`IdleSpec => []WarnedBeforeExpiry`), which is inductive because the layout
takes the timer with it.

Two invariants carry them. `RoleInv` follows a role from the session through the answers, the guard's decision, the
cached user and the page: whatever says that a superadmin is there says so of a role in `admins`, that is, of one signed in
since the document was loaded, and that is all `SuperAdminOnly` claims, since a cached user does not notice a sign-in in another
tab. `TabInv` is `TaskInv` with `CachedInv` and `LeftInv`, the last two as long as nothing was forgotten in a crossing (`crossed`):

- `TaskInv`: only guards look at the session, decide and load; the pending navigation is a guard; a profile is the
  answer to a request that carried a token;
- `CachedInv`: a user is cached, or an answer on its way may still bring one (`Refills`), only while the tab holds its
  CSRF token;
- `LeftInv`: a page of the console that has lost its user is about to be left, by a pending navigation or by the
  sign-out that follows a change of the password (`Leaving`), and no navigation into the console is about to load.

The lemmas about `Moves(t, job)` and `RoleMoves` say once what the move of one task does to the others, so that the proof of
each action only looks at its own task; it is what makes the theorems hold for any number of activities at once.

### Step-up

`ElevationProofs` proves, for any number of calls and of step-ups in flight, with and without MFA
(`HasMfaAssumption`: a Boolean), every safety property the run `elevation` checks: `Inductive`, `TypeCorrect`,
`PromptIsServing` (`PromptServesWaiters`), `NeverLockedForGood` (`LockedOnlyInFlight`), `NoCallTwice`
(`PerformedAtMostOnce`) and `AllRetriedTogether` (`RetriedTogether`). The first two of these properties are
inductive with the types. `PerformedAtMostOnce` needs `UnperformedInv`: a call that waits for the prompt, and
may be replayed, has not been performed, because the server answers a call with a challenge *instead of*
performing it.

### Sign-in

`BffLoginProofs` proves, for any browsers, logins, capacity and lifetime (`BoundsAssumption`: both
positive naturals; `NoneAssumption`: "no login" is neither a browser nor a login): `Inductive`, `TypeCorrect`, `NoForeignSession`
(`SignedInByOwnLogin`), `NoCodeTwice` (`CodeSentOnce`), `NothingElseSpoilsLogin` (`UndisturbedLoginAccepted`) and
`StoreStaysBounded` (`StoreBounded`). A session
cookie is the end of a chain (login response, binding cookie, exchange, callback response, cookie), and
`OwnInv` says of each link that it belongs to the browser that began the login. The one step at which a
foreign login could enter is the callback, where the cookie is verified. `OnceInv` says that a login still
in the store has sent no code, so `Take` before the exchange makes it at most one. `FlightInv` follows a login that nothing
has happened to: as long as its redirect is on the way the store can still take it, and from then on the browser's
cookie names it and is no older than it. Age is what the proof turns on: the cookie and the stored login live
equally long, the cookie is set later, so while the login is in the store the cookie is there.

### Session and tokens

`BffSessionProofs` proves, for any number of concurrent requests, tokens and any lifetimes
(`BoundsAssumption`: positive naturals), every safety property the run `bff_session` checks: `Inductive`,
`TypeCorrect`, `NeverResurrected` (`NoResurrection`), `RejectionsCurrent` (`RejectionIsCurrent`),
`StaysRenewable` (`SessionRenewable`) and `SignOutRevokes` (`LogoutRevokesTokens`), and the refinement
`SessionGrantImplemented` (`Spec => ImplementsSessionGrant`). Its invariant has a part for each:

- `GoneInv`: a session that has ended is out of the store, and either its id is marked or (after a restart,
  which forgets the mark) no request that could write it back is left;
- `RefreshInv`: at most one request refreshes, it sent the token the session still has, and when it is
  rejected that token is dead and no rotated one is on its way, until the last of those who heard it has deleted
  the session. This rests on one refresh serving all requests, and on step-up keeping the refresh token;
- `RenewInv`: no sign-out step is under way while `logout` says "none", and a rotated token that is on its way
  is live;
- `KindInv`: only a step-up holds an elevated token;
- `SignOutInv`: while a sign-out runs alone nothing in flight may change the tokens, every sign-out holds the
  session's own two, and those it has passed are dead;
- `GrantInv`: the next token is newer than all there are, and a session whose token was rotated has a dead one until
  it is given the new one.

The refinement places a renewal at the issuer's rotation, not where the handler learns of it: the abstract grant is the live
one among the session's own refresh token and the one on its way. That it is one token at most is
`GrantInv` with `RefreshInv`. `GrantSteps` sorts the steps into those that leave the grant alone (`Quiet`) and six
that may not: the rotation is `Renew`, its arrival a stutter, its loss and the revocation `Lose`, the two
deletions `Close`, the restart `Forget`.

Lemmas (`Going`, `Finishing`, `Beginning`, `Shared`, ...) say what each kind of step does to the requests, so
that each action's proof only looks at the request that moves.

### List views

`ListViewsProofs` proves, for any number of requests and of writes (`StampAssumption`: `MaxStamp` is a positive natural;
`NoneAssumption`: "none" is neither a write nor a filter), every property the run `list_views` checks: `Inductive`,
`TypeCorrect`, `NoSpinnerLeft` (`SpinnersEnd`), `QuietRowsFresh` (`FreshWhenQuiet`) and `NoDoubleSubmit`
(`LockedWritesOnce`). The table of panels enters through the lemma `PanelsWellFormed` only: mount loads do not overlap, a load goes on
with one list at most, and a write that keeps its button locked until the rows are loaded again loads one list. A page that is added needs one more line
there. `FreshInv` follows the promise through the request that carries it: what the admin has been told is in what
a load has seen once the server has performed it, because the load was started after the answer. `LockInv` lets a
write hand its lock over to the load it waits for.

### The console's pages

`ConsoleProofs` proves `TypeCorrect` (`Spec => []TypeOK`) and every property of the run `console`: `PageAgreesWithServer`
(`PageAgrees`), `OnlyEditedTokensSent` (`TokensSentOnlyWhenEdited`, an action property),
`UntouchedSaveChangesNothing` (`UntouchedSaveHarmless`), `RowsSavedWhole` (`NoRowLost`), `RowsComeBack`
(`UntouchedRowsStand`), `CardTellsTheTruth` (`CardTruthful`), `ReportsPolled` (`PolledUntilFinished`) and
`LiveMeansConnected` (`LiveOverItsStream`). It does so for any token settings, of which any may be edited and any written by
another admin (`ApplicationAssumption`: they are none of the page's other fields), any number of rows and attributes
(`RowsAssumption`: naturals), any reports and polls (`ReportsAssumption`: "none" is no report) and any streams
(`StreamAssumption`: "no stream" is none). The pages share no variable, so each has its own invariant and
`IInv` is their conjunction:

- *application* (`ApplicationInv`): what a request may write, by its kind; while the tokens are saved what
  any other request writes is set apart; a request that was performed wrote what it had to and is answered with
  what the server has, without omitted settings that are not set, but for fields that are set apart; a token setting that was not edited is in the form as in
  the copy. The code merges three overlapping answers into one copy, and `Own` (no two kinds write one field) is why
  that comes out right;
- *user* (`UserInv`): until a save meets a block, there is one request at a time, what was read is still what the server has,
  and the rows are the copy's unless they were touched;
- *rows*: `RowsSavedWhole` is a theorem about one pass over a list of any length: rows without an error have different trimmed
  names, so that the map from filled rows to names is a bijection and their numbers agree (by counting, from
  `FiniteSetTheorems`). `RowsComeBack` needs `FilledInv` (rows nobody retyped list the stored set in some order);
- *MFA* (`CardInv`): codes that arrived are on display; the status is right unless the calls that are left end in
  loading it. The lemmas on suffixes of a list of calls (`SuffixesOfThree`, ...) carry it from call to call;
- *reports* (`ReportInv`): a report nobody has been told of is neither listed nor polled; an answer that says
  "finished" is what the server still has; one poll of a report at a time, unless two crossed;
- *live events* (`StreamInv`): only the stream that is held is connected, and that is inductive with the types.

### What the proofs changed in the models

Three formulas were repaired because a proof of them did not go through, and the runs were repeated:
`Screen` of `MfaCard` was a `CASE` whose guards overlap, which in TLA+ is a choice among the arms that hold and not the
first of them, as the template's `v-if`/`v-else-if` is, and is an `IF` chain now; `Overlapping` of `ApplicationDetail`
mixed a prefix `UNION` and `\cup` without parentheses, which the parser and the prover read differently; and that the names
which stand for "none" are no task, report or stream was tacit, and is an assumption now.

### What is only model-checked

Liveness: `ForgetsIdleClients`, `RequestsAnswered`, `SessionsEnd`, `ChallengeSettled`, `IdleSignOutLeaves`,
`ExpiryReachesLogin` and `SignOutLeavesConsole` are checked by TLC on the instances of section 3. Liveness under fairness and
`ENABLED` are out of the prover's reach, as are what a recursive definition computes for every input and anything in a
module with `RECURSIVE` operators (there is neither here). The properties of the runs that expect a violation are, of course,
not theorems.

## 6. Abstractions worth knowing

- Cryptography is by construction: a state, nonce, verifier or token that nobody was given is
  not guessed. PKCE and the nonce in the ID token are not modelled beyond the login's identity.
- The session store, the pending-login store, `Gateway.EnsureFresh` and `ProxyWithSession` come from
  the external library backendkit; the issuer and the admin API are other programs; vue-router and
  the browser's cookie jar are environment. They are modelled from how this code uses them
  and marked external in `PROJECT.json`.
- Expiry of tokens at the issuer is left out in `BffSession`: *live* means neither revoked nor used up.
- One session in `BffSession`, one tab in `SpaAuth`: sessions share nothing but the store, tabs
  nothing but the cookie, which appears as `OtherTab` and `EndSession`.

## 7. Not modelled, and the plan

Not modelled, because no order, failure or time decides them: configuration and start-up, the security
headers, presentation (toasts, theme, clipboard, dates, version badge), build and deployment. Left out of modelled
parts, because each is one pass over its input: `deriveUser` and the roles it reads, the lists of audiences and scopes and
the lifetime check of `tokenSettings.ts`, which escapes `canonicalPathOnly` refuses, form validation, the client-side
search of a loaded list, `useVersionCheck`. The paths inside modelled parts that are left out are named in the notes of `PROJECT.json`
("components").

What remains to be modelled, in this order:

1. the cookie of `BffSession` in the browser of `BffLogin`: the 401 of a rejected refresh that arrives after a new
   sign-in clears the new session's cookie (a hazard without a property);
2. `DeriveUser` and the list helpers as functions against a reference definition over bounded inputs;
3. the mount loads of a page as tasks of `SpaAuth`, so that a console without a session is left without an action
   of the admin.

Abstract specifications worth stating: for `PolicyEditor` a versioned register written by
compare-and-set; for `Elevation` the promise of `requireElevation` (each call settles once).

Theorems still worth proving, in this order: that `PolicyEditor` and `Elevation` implement the
abstract specifications just named; of `SpaAuth`, that a crossing ends with the next call of the page.
