------------------------------- MODULE BffEdge -------------------------------
(***************************************************************************)
(* The BFF's public edge: what app.handler (bff/app.go) puts around the    *)
(* routes that are limited by client address, and the four handlers behind *)
(* it, handleLogin, handleElevate (bff/elevate.go), handleCSPReport        *)
(* (bff/cspreport.go) and handlePublicIssuerPost; what the first two do to *)
(* sign-ins and sessions is in BffLogin and BffSession.                    *)
(*                                                                         *)
(* A request is attributed to an address                                   *)
(* (bff/attribution.go, clientIP of bff/ratelimit.go), its path and method *)
(* are matched, the route's limiter is asked (RateLimit, whose variables   *)
(* these are), and only then is its body looked at or the request passed   *)
(* on to the issuer.                                                       *)
(*                                                                         *)
(* Each of the four has a limiter of its own, so one of them is            *)
(* followed, chosen by Init.  The address a request really comes from is   *)
(* its origin; the code sees only the peer of its connection and the       *)
(* left-most entry of X-Forwarded-For.                                     *)
(***************************************************************************)
EXTENDS RateLimit

CONSTANTS Loopback,   \* the address of this host, from which Caddy connects
          Unparsed,   \* an X-Forwarded-For entry that is not an address
          NoHeader,   \* no X-Forwarded-For
          MaxLogged,  \* cspReportMaxLogged
          Violations  \* numbers of violations parseCSPReport may find; none, too, in a report
                      \* of another media type (415), too large (413) or malformed (400)

ASSUME EdgeAssumption ==
    /\ Loopback \in Keys /\ Unparsed \notin Keys /\ NoHeader \notin Keys
    /\ MaxLogged \in Nat /\ Violations \subseteq Nat

VARIABLES route,    \* the limited route that is followed
          outcome,  \* the last answer, if a 429 or from behind the BFF (the issuer, or the admin
                    \* API for a step-up), and the address it was told there
          granted,  \* history: per origin, the times its requests were let through
          lines     \* history: per origin, the log lines of its requests since a window
                    \* was last opened for it

edgeVars == <<vars, route, outcome, granted, lines>>

Routes == {"login", "elevate", "csp-report", "password-reset"}

\* Caddy replaces the header by the address it sees; nothing else connects over loopback
\* but programs of this host.  A browser that reaches the BFF directly sends any header.
Arrivals ==
    {[origin |-> k, peer |-> Loopback, forwarded |-> k] : k \in Keys}
    \cup {[origin |-> k, peer |-> k, forwarded |-> h] :
             k \in Keys \ {Loopback}, h \in Keys \cup {Unparsed, NoHeader}}
    \cup {[origin |-> Loopback, peer |-> Loopback, forwarded |-> h] : h \in {Unparsed, NoHeader}}

NoOutcome == [origin |-> NoHeader, status |-> 0, client |-> NoHeader]
Outcome(a, status, client) == [origin |-> a.origin, status |-> status, client |-> client]

EdgeInit ==
    /\ Init
    /\ route \in Routes
    /\ outcome = NoOutcome
    /\ granted = [k \in Keys |-> <<>>]
    /\ lines = [k \in Keys |-> 0]

\* Mutants of clientIP: the header is believed whoever sends it, or never.
clientIPOfAnyPeer(a) == IF a.forwarded \in Keys THEN a.forwarded ELSE a.peer

clientIPOfPeer(a) == a.peer

\* The header counts only when the peer is this host and its entry is an address.
clientIP(a) ==
    IF a.peer = Loopback /\ a.forwarded \in Keys THEN a.forwarded ELSE a.peer

\* The address that goes with every call made for the request: the attributed one ...
withClientAttribution(a) == clientIP(a)

\* ... when the request itself is passed on, too, whatever header came in.
attributedProxy(a) == withClientAttribution(a)

\* A path that is not canonical or not listed (404), a method the route does not take (405
\* for reports; 404 for a listed POST, which falls through to the catch-all): refused before
\* any limiter is asked.
NotServed ==
    /\ outcome' = NoOutcome
    /\ UNCHANGED <<vars, route, granted, lines>>

\* rateLimited for the attributed address.  (History is kept of limited routes only.)
Passed(a) ==
    /\ allow(clientIP(a)) /\ reply'.status = 200
    /\ granted' = IF limit = 0 THEN granted
                  ELSE [granted EXCEPT ![a.origin] = Append(@, now)]

\* Mutant of TooManyRequests: a report over budget is logged all the same.
TooManyRequestsLogged(a) ==
    /\ allow(clientIP(a)) /\ reply'.status = 429
    /\ outcome' = Outcome(a, 429, NoHeader)
    /\ lines' = [lines EXCEPT ![a.origin] = @ + 1]
    /\ UNCHANGED <<route, granted>>

TooManyRequests(a) ==
    /\ allow(clientIP(a)) /\ reply'.status = 429
    /\ outcome' = Outcome(a, 429, NoHeader)
    /\ UNCHANGED <<route, granted, lines>>

\* The lines of a report: MaxLogged at most, and one more that counts the rest.
Logged(violations) == IF violations > MaxLogged THEN MaxLogged + 1 ELSE violations

handleCSPReport(a, violations) ==
    /\ route = "csp-report"
    /\ Passed(a)
    /\ lines' = IF limit = 0 THEN lines
                ELSE [lines EXCEPT ![a.origin] =
                         (IF Open(a.origin) THEN @ ELSE 0) + Logged(violations)]
    /\ outcome' = NoOutcome
    /\ UNCHANGED route

\* A new pending login, or 503 from the full store: either way nothing is asked of the issuer.
handleLogin(a) ==
    /\ route = "login"
    /\ Passed(a)
    /\ outcome' = NoOutcome
    /\ UNCHANGED <<route, lines>>

\* Without a session, the CSRF token or a readable body the answer is the BFF's own; otherwise
\* the token refresh and the step-up are asked for in the browser's name.
handleElevate(a) ==
    /\ route = "elevate"
    /\ Passed(a)
    /\ outcome' \in {NoOutcome, Outcome(a, 200, withClientAttribution(a))}
    /\ UNCHANGED <<route, lines>>

\* The cookie and the Authorization header are dropped; the issuer answers.
handlePublicIssuerPost(a) ==
    /\ route = "password-reset"
    /\ Passed(a)
    /\ outcome' = Outcome(a, 200, attributedProxy(a))
    /\ UNCHANGED <<route, lines>>

EdgeNext ==
    \/ NotServed
    \/ \E a \in Arrivals :
          \/ TooManyRequests(a)
          \/ handleLogin(a) \/ handleElevate(a) \/ handlePublicIssuerPost(a)
          \/ \E violations \in Violations : handleCSPReport(a, violations)
    \/ (sweep \/ Tick) /\ UNCHANGED <<route, outcome, granted, lines>>

EdgeSpec == EdgeInit /\ [][EdgeNext]_edgeVars

\* The ticker fires again and again while the process runs, and time passes.
EdgeFairSpec == EdgeSpec /\ WF_vars(Tick) /\ WF_vars(sweep)

-----------------------------------------------------------------------------
(* Properties *)

EdgeTypeOK ==
    /\ TypeOK
    /\ route \in Routes
    /\ outcome \in [origin : Keys \cup {NoHeader}, client : Keys \cup {NoHeader},
                    status : {0, 200, 429}]
    /\ granted \in [Keys -> Seq(Nat)] /\ lines \in [Keys -> Nat]

\* "otherwise a client could rotate keys freely and defeat the budgets" (clientIP): by
\* whatever way its requests come and whatever header they carry, one origin gets at most
\* twice the budget within one window's length, around a rollover and the sweep too.
BudgetFollowsOrigin ==
    limit > 0 =>
        \A o \in Keys : \A i \in DOMAIN granted[o] :
            i + 2 * limit \in DOMAIN granted[o] =>
                granted[o][i + 2 * limit] > granted[o][i] + Window

\* Nobody is turned away for the requests of others, behind the proxy or beside it: a 429
\* is backed by limit requests of this very origin that are not yet a window old.
RejectedForOwnRequests ==
    [][ outcome'.status = 429 /\ outcome' # outcome =>
          LET g == granted[outcome'.origin] IN
          /\ Len(g) >= limit
          /\ g[Len(g) - limit + 1] > now - Window ]_edgeVars

\* "a forged or cross-site report can at worst add log lines, which the per-IP budget, the
\* body cap and the per-request line cap bound" (cspreport.go): however an origin's reports
\* fall in a window, and whatever they hold, they log at most the budget times the cap.
LogBounded == \A o \in Keys : lines[o] <= limit * (MaxLogged + 1)

\* "so Socrate receives "client, peer" and reads the client" (attributedProxy): the issuer
\* is told the origin of a request, never an address its header made up, by the requests
\* that are passed on and by the calls a step-up makes.
IssuerToldOrigin == outcome.client \in {NoHeader, outcome.origin}
=============================================================================
