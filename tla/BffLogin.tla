------------------------------ MODULE BffLogin ------------------------------
(***************************************************************************)
(* Signing in through the BFF: handleLogin and handleCallback of           *)
(* bff/app.go, the bounded store of pending logins, the binding cookie     *)
(* that ties a login to the browser that began it, the issuer's            *)
(* authorization endpoint and code exchange, and a restart of the process. *)
(*                                                                         *)
(* A login is identified by the random values drawn for it: state, PKCE    *)
(* verifier, nonce and, once it has succeeded, code and session id are all *)
(* the value a \in Logins.  A browser has one jar for all its tabs, with   *)
(* one binding cookie and one session cookie; responses reach it in any    *)
(* order.  Ages count up to TTL and stay there, so there is no clock to    *)
(* bound: the number of logins is the only bound.                          *)
(***************************************************************************)
EXTENDS Naturals, FiniteSets, Functions

CONSTANTS Browsers, Logins,
          None,         \* no cookie, no browser
          MaxPending,   \* capacity of the pending-login store
          TTL           \* lifetime of a pending login and of its cookie

ASSUME BoundsAssumption == MaxPending \in Nat \ {0} /\ TTL \in Nat \ {0}
ASSUME NoneAssumption == None \notin Browsers \cup Logins

VARIABLES
    pending,     \* pending-login store: state -> age, nonce = state
    owner,       \* the browser that called /bff/login for this login
    issuer,      \* where the login is at the issuer
    exchanging,  \* logins whose callback awaits the code exchange, with the caller
    sessions,    \* logins that have a session in the BFF's store
    responses,   \* responses on their way to a browser
    binding,     \* binding[b]: nonce in b's login cookie
    bindingAge,
    cookie,      \* cookie[b]: b's session cookie
    exchanges,   \* history: code exchanges sent for a login
    disturbed    \* history: what has happened to a login on its way

bff == <<pending, exchanging, sessions>>
browser == <<binding, bindingAge, cookie, responses>>
vars == <<bff, browser, owner, issuer, exchanges, disturbed>>

Stages == {"none", "asked", "code", "bare", "error"}
Causes == {"expired", "restart", "taken", "otherLogin", "refusedLogin"}

\* Set-Cookie effects of a response: a nonce or session id, or "keep"/"clear".
Response == [to : Browsers, login : Logins, binding : {"set", "clear"},
             session : {"set", "keep"}, redirect : BOOLEAN]

Init ==
    /\ pending = [a \in {} |-> 0]
    /\ owner = [a \in Logins |-> None]
    /\ issuer = [a \in Logins |-> "none"]
    /\ exchanging = {}
    /\ sessions = {}
    /\ responses = {}
    /\ binding = [b \in Browsers |-> None]
    /\ bindingAge = [b \in Browsers |-> 0]
    /\ cookie = [b \in Browsers |-> None]
    /\ exchanges = [a \in Logins |-> 0]
    /\ disturbed = [a \in Logins |-> {}]

Mark(S, cause) ==
    disturbed' = [a \in Logins |-> IF a \in S THEN disturbed[a] \cup {cause} ELSE disturbed[a]]

\* Logins that b has begun, a aside.
OthersOf(b, a) == {x \in Logins \ {a} : owner[x] = b}

Respond(b, a, effectOnBinding, effectOnSession, redirect) ==
    responses' = responses \cup {[to |-> b, login |-> a, binding |-> effectOnBinding,
                                  session |-> effectOnSession, redirect |-> redirect]}

PutPending(a) == pending' = [x \in DOMAIN pending \cup {a} |-> IF x = a THEN 0 ELSE pending[x]]

-----------------------------------------------------------------------------
(* GET /bff/login: login.Begin writes the cookie to the response before the *)
(* store is asked to take the login, so a 503 carries it as well.           *)

\* The login is stored and the browser is sent to the issuer.
LoginStarted(b, a) ==
    /\ owner[a] = None
    /\ Cardinality(DOMAIN pending) < MaxPending
    /\ owner' = [owner EXCEPT ![a] = b]
    /\ PutPending(a)
    /\ Respond(b, a, "set", "keep", TRUE)
    /\ UNCHANGED <<issuer, exchanging, sessions, binding, bindingAge, cookie, exchanges, disturbed>>

\* bff.ErrPendingLoginsFull: 503, and no redirect.  (Any other error of the store
\* is a 500 with the same effects; the memory store has none.)
LoginRefused(b, a) ==
    /\ owner[a] = None
    /\ Cardinality(DOMAIN pending) >= MaxPending
    /\ owner' = [owner EXCEPT ![a] = b]
    /\ Respond(b, a, "set", "keep", FALSE)
    /\ UNCHANGED <<bff, issuer, binding, bindingAge, cookie, exchanges, disturbed>>

handleLogin(b, a) == LoginStarted(b, a) \/ LoginRefused(b, a)

\* A response reaches the browser, whichever was sent first: its Set-Cookie
\* headers are applied and its redirect is followed.
Receive(r) ==
    /\ responses' = responses \ {r}
    /\ binding' = [binding EXCEPT ![r.to] = IF r.binding = "set" THEN r.login ELSE None]
    /\ bindingAge' = [bindingAge EXCEPT ![r.to] = 0]
    /\ cookie' = [cookie EXCEPT ![r.to] = IF r.session = "set" THEN r.login ELSE @]
    /\ issuer' = [issuer EXCEPT ![r.login] = IF r.redirect THEN "asked" ELSE @]
    /\ Mark(OthersOf(r.to, r.login),
            IF r.binding = "set" /\ ~r.redirect THEN "refusedLogin" ELSE "otherLogin")
    /\ UNCHANGED <<bff, owner, exchanges>>

\* The issuer signs the user in, or not, and sends the browser to the callback,
\* with a code, with an error, or (a mangled redirect) with neither.
Authorize(a) ==
    /\ issuer[a] = "asked"
    /\ \E outcome \in {"code", "bare", "error"} : issuer' = [issuer EXCEPT ![a] = outcome]
    /\ UNCHANGED <<bff, browser, owner, exchanges, disturbed>>

-----------------------------------------------------------------------------
(* GET /bff/callback, opened by browser b with the state of login a: by the *)
(* redirect, by a reload, or from a link that was passed on to b.           *)

\* logins.Take: the state is known and has not expired; it is gone afterwards.
Takable(a) == a \in DOMAIN pending /\ pending[a] < TTL

\* Mutant of Take: a lookup that leaves the state in the store.
Peek(a) == UNCHANGED pending

Take(a) == pending' = Restrict(pending, DOMAIN pending \ {a})

\* The issuer reports an error: 400 before the state is looked at.
CallbackError(b, a) ==
    /\ issuer[a] = "error"
    /\ UNCHANGED vars

Returned(a) == issuer[a] \in {"code", "bare"}

\* Unknown, used or expired state: 400 (Take drops an expired entry).
CallbackUnknown(b, a) ==
    /\ Returned(a)
    /\ ~Takable(a)
    /\ Take(a)
    /\ UNCHANGED <<exchanging, sessions, browser, owner, issuer, exchanges, disturbed>>

\* The state is b's to take, but b's cookie does not match: 400, cookie cleared.
CallbackUnbound(b, a) ==
    /\ Returned(a)
    /\ Takable(a)
    /\ binding[b] # a
    /\ Take(a)
    /\ Respond(b, a, "clear", "keep", FALSE)
    /\ Mark({a}, "taken")
    /\ UNCHANGED <<exchanging, sessions, binding, bindingAge, cookie, owner, issuer, exchanges>>

\* State and cookie match, but there is no code: 400, and the cookie is gone.
CallbackWithoutCode(b, a) ==
    /\ issuer[a] = "bare"
    /\ Takable(a)
    /\ binding[b] = a
    /\ Take(a)
    /\ Respond(b, a, "clear", "keep", FALSE)
    /\ Mark({a}, "taken")
    /\ UNCHANGED <<exchanging, sessions, binding, bindingAge, cookie, owner, issuer, exchanges>>

\* Mutant of CallbackAccepted: the binding cookie is not verified.
CallbackUnverified(b, a) ==
    /\ issuer[a] = "code"
    /\ Takable(a)
    /\ Take(a)
    /\ exchanging' = exchanging \cup {<<b, a>>}
    /\ exchanges' = [exchanges EXCEPT ![a] = @ + 1]
    /\ Mark({a}, "taken")
    /\ UNCHANGED <<sessions, browser, owner, issuer>>

\* State and cookie match: the code goes to the token endpoint.
CallbackAccepted(b, a) ==
    /\ issuer[a] = "code"
    /\ Takable(a)
    /\ binding[b] = a
    /\ Take(a)
    /\ exchanging' = exchanging \cup {<<b, a>>}
    /\ exchanges' = [exchanges EXCEPT ![a] = @ + 1]
    /\ Mark({a}, "taken")
    /\ UNCHANGED <<sessions, browser, owner, issuer>>

handleCallback(b, a) ==
    \/ CallbackError(b, a)
    \/ CallbackUnknown(b, a)
    \/ CallbackUnbound(b, a)
    \/ CallbackWithoutCode(b, a)
    \/ CallbackAccepted(b, a)

\* The exchange succeeds: a session under a new id, and the cookie for it.
ExchangeDone(b, a) ==
    /\ <<b, a>> \in exchanging
    /\ exchanging' = exchanging \ {<<b, a>>}
    /\ sessions' = sessions \cup {a}
    /\ Respond(b, a, "clear", "set", FALSE)
    /\ UNCHANGED <<pending, binding, bindingAge, cookie, owner, issuer, exchanges, disturbed>>

\* The exchange fails or times out: 502; the binding cookie is gone all the same.
ExchangeFailed(b, a) ==
    /\ <<b, a>> \in exchanging
    /\ exchanging' = exchanging \ {<<b, a>>}
    /\ Respond(b, a, "clear", "keep", FALSE)
    /\ UNCHANGED <<pending, sessions, binding, bindingAge, cookie, owner, issuer, exchanges, disturbed>>

-----------------------------------------------------------------------------
\* Time passes: entries and cookies age; a cookie that reaches its Max-Age goes.
Tick ==
    /\ pending' = [a \in DOMAIN pending |-> IF pending[a] < TTL THEN pending[a] + 1 ELSE TTL]
    /\ bindingAge' = [b \in Browsers |->
                         IF binding[b] # None /\ bindingAge[b] + 1 < TTL
                         THEN bindingAge[b] + 1 ELSE 0]
    /\ binding' = [b \in Browsers |-> IF bindingAge[b] + 1 < TTL THEN binding[b] ELSE None]
    /\ Mark({a \in DOMAIN pending : pending'[a] = TTL}, "expired")
    /\ UNCHANGED <<exchanging, sessions, responses, cookie, owner, issuer, exchanges>>

\* Mutant of Sweep: entries go one tick before they expire.
SweepEarly ==
    /\ pending' = Restrict(pending, {a \in DOMAIN pending : pending[a] + 1 < TTL})
    /\ UNCHANGED <<exchanging, sessions, browser, owner, issuer, exchanges, disturbed>>

\* The ticker's logins.Sweep: drop the expired entries.
Sweep ==
    /\ pending' = Restrict(pending, {a \in DOMAIN pending : pending[a] < TTL})
    /\ UNCHANGED <<exchanging, sessions, browser, owner, issuer, exchanges, disturbed>>

\* The process restarts: everything it kept was in memory.
Restart ==
    /\ pending' = Restrict(pending, {})
    /\ exchanging' = {}
    /\ sessions' = {}
    /\ Mark({a \in Logins : owner[a] # None}, "restart")
    /\ UNCHANGED <<browser, owner, issuer, exchanges>>

Next ==
    \/ \E b \in Browsers, a \in Logins :
          handleLogin(b, a) \/ handleCallback(b, a) \/ ExchangeDone(b, a) \/ ExchangeFailed(b, a)
    \/ \E r \in responses : Receive(r)
    \/ \E a \in Logins : Authorize(a)
    \/ Tick \/ Sweep \/ Restart

Spec == Init /\ [][Next]_vars

-----------------------------------------------------------------------------
(* Properties *)

TypeOK ==
    /\ pending \in [DOMAIN pending -> 0 .. TTL] /\ DOMAIN pending \subseteq Logins
    /\ owner \in [Logins -> Browsers \cup {None}]
    /\ issuer \in [Logins -> Stages]
    /\ exchanging \subseteq Browsers \X Logins
    /\ sessions \subseteq Logins
    /\ responses \subseteq Response
    /\ binding \in [Browsers -> Logins \cup {None}]
    /\ bindingAge \in [Browsers -> 0 .. TTL]
    /\ cookie \in [Browsers -> Logins \cup {None}]
    /\ exchanges \in [Logins -> Nat]
    /\ disturbed \in [Logins -> SUBSET Causes]

\* A browser is only ever signed in to a session that it began itself, even when
\* the callback URL of one browser is opened in another (P3-15 in handleCallback).
SignedInByOwnLogin ==
    \A b \in Browsers : cookie[b] # None => owner[cookie[b]] = b

\* Reloads, the back button and copies of the callback URL send no code to the
\* issuer a second time: one exchange per login at most.
CodeSentOnce == \A a \in Logins : exchanges[a] <= 1

\* The store of pending logins never outgrows its capacity.
StoreBounded == Cardinality(DOMAIN pending) <= MaxPending

Accepted(a) == Takable(a) /\ binding[owner[a]] = a

\* A login that comes back with a code is accepted unless it expired, the process
\* restarted, its state was presented before, or a response to another login of
\* the same browser came in between: responses out of order, sweeps, other
\* browsers and a full store do not spoil it.
UndisturbedLoginAccepted ==
    \A a \in Logins : Returned(a) /\ disturbed[a] = {} => Accepted(a)
=============================================================================
